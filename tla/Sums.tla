-------------------------------- MODULE Sums --------------------------------
(***************************************************************************)
(* What the sum of a function over a finite set is (SumFunctionOnSet of    *)
(* the community modules), for the proofs about ledgers and counters.      *)
(*                                                                         *)
(* Every lemma that needs an induction looks at a smallest counterexample: *)
(* well-foundedness gives one, and the sum over a set with an element less *)
(* shows that there is a smaller one.                                      *)
(***************************************************************************)
EXTENDS Integers, Functions, FiniteSetTheorems, TLAPS

-----------------------------------------------------------------------------
(***************************************************************************)
(* Smallest elements.                                                      *)
(***************************************************************************)

\* A set of naturals has a least element.
LEMMA LeastNumber ==
  ASSUME NEW T, T \subseteq Nat, T # {}
  PROVE  \E n \in T : \A m \in T : n <= m
<1>1. PICK n \in T : \A m \in T : ~(<<m, n>> \in OpToRel(<, Nat))
  <2>. HIDE DEF OpToRel
  <2>. QED BY WFMin, NatLessThanWellFounded
<1>2. \A m \in T : ~(m < n)
  BY <1>1 DEF OpToRel
<1>. QED
  BY <1>2

\* A set of subsets of a finite set has a smallest element.
LEMMA SmallestSet ==
  ASSUME NEW T, NEW S, IsFiniteSet(S), T \subseteq SUBSET S, T # {}
  PROVE  \E s \in T : \A r \in T : r \subseteq s => r = s
<1>1. IsWellFoundedOn(StrictSubsetOrdering(S), SUBSET S)
  BY FS_StrictSubsetOrderingWellFounded, FS_FiniteSubsetsOfFinite, Zenon
<1>2. PICK s \in T : \A r \in T : ~(<<r, s>> \in StrictSubsetOrdering(S))
  BY WFMin, <1>1, Zenon
<1>3. \A r \in T : r \subseteq s /\ r # s => <<r, s>> \in StrictSubsetOrdering(S)
  BY DEF StrictSubsetOrdering
<1>4. ASSUME NEW r \in T, r \subseteq s PROVE r = s
  BY <1>2, <1>3, <1>4, Zenon
<1>. QED
  BY <1>4, Zenon

-----------------------------------------------------------------------------
(***************************************************************************)
(* How a sum is computed.                                                  *)
(***************************************************************************)

\* The element that is added next, and those left.
Chosen(s) == CHOOSE x \in s : TRUE
Rest(s) == s \ {Chosen(s)}

\* F is how the sum of f over every subset of S is computed.
Adds(F, f, S) ==
  F = [s \in SUBSET S |-> IF s = {} THEN 0 ELSE f[Chosen(s)] + F[Rest(s)]]

\* The definition of the sum, unfolded.
LEMMA SumIsComputed ==
  ASSUME NEW f, NEW S
  PROVE  SumFunctionOnSet(f, S) = (CHOOSE F : Adds(F, f, S))[S]
BY DEF SumFunctionOnSet, FoldFunctionOnSet, MapThenFoldSet, Adds, Chosen, Rest
\* There is such a function: one for the sets up to each size.
LEMMA SummationExists ==
  ASSUME NEW f, NEW S, IsFiniteSet(S)
  PROVE  \E F : Adds(F, f, S)
<1>. DEFINE Good(F, n) == /\ F = [s \in SUBSET S |-> F[s]]
                          /\ \A s \in SUBSET S : Cardinality(s) <= n =>
                               F[s] = IF s = {} THEN 0 ELSE f[Chosen(s)] + F[Rest(s)]
            Bad == {n \in Nat : ~\E F : Good(F, n)}
<1>1. \A s \in SUBSET S : /\ IsFiniteSet(s) /\ Cardinality(s) \in Nat
                          /\ Cardinality(s) <= Cardinality(S)
                          /\ s # {} => /\ Chosen(s) \in s
                                       /\ Rest(s) \in SUBSET S
                                       /\ Cardinality(Rest(s)) = Cardinality(s) - 1
                          /\ Cardinality(s) = 0 <=> s = {}
  BY FS_Subset, FS_CardinalityType, FS_RemoveElement, FS_EmptySet DEF Chosen, Rest
<1>2. Good([s \in SUBSET S |-> 0], 0)
  <2>1. ASSUME NEW s \in SUBSET S, Cardinality(s) <= 0 PROVE s = {}
    <3>1. Cardinality(s) = 0
      BY <2>1, FS_Subset, FS_CardinalityType
    <3>. QED
      BY <1>1, <3>1
  <2>. QED
    BY <2>1
<1>3. ASSUME NEW n \in Nat, NEW F, Good(F, n)
      PROVE  \E G : Good(G, n + 1)
  <2>. DEFINE G == [s \in SUBSET S |-> IF s = {} THEN 0 ELSE f[Chosen(s)] + F[Rest(s)]]
  <2>1. ASSUME NEW s \in SUBSET S, Cardinality(s) <= n + 1, s # {}
        PROVE  F[Rest(s)] = G[Rest(s)]
    <3>1. Rest(s) \in SUBSET S /\ Cardinality(Rest(s)) <= n
      BY <1>1, <2>1
    <3>. QED
      BY <1>3, <3>1
  <2>2. ASSUME NEW s \in SUBSET S, Cardinality(s) <= n + 1
        PROVE  G[s] = IF s = {} THEN 0 ELSE f[Chosen(s)] + G[Rest(s)]
    BY <2>1, <2>2
  <2>. WITNESS G
  <2>. QED
    BY <2>2
<1>4. Bad = {}
  <2>1. SUFFICES ASSUME Bad # {} PROVE FALSE
    OBVIOUS
  <2>2. PICK n \in Bad : \A m \in Bad : n <= m
    BY <2>1, LeastNumber, Bad \subseteq Nat, Zenon
  <2>. HIDE DEF Good
  <2>3. n # 0
    BY <1>2, <2>2
  <2>4. n \in Nat /\ n - 1 \in Nat /\ (n - 1) \notin Bad
    BY <2>2, <2>3
  <2>5. \E F : Good(F, n - 1)
    BY <2>4
  <2>6. \E G : Good(G, (n - 1) + 1)
    BY <1>3, <2>4, <2>5
  <2>. QED
    BY <2>2, <2>4, <2>6
<1>5. Cardinality(S) \in Nat
  BY FS_CardinalityType
<1>6. PICK F : Good(F, Cardinality(S))
  BY <1>4, <1>5
<1>7. \A s \in SUBSET S : F[s] = IF s = {} THEN 0 ELSE f[Chosen(s)] + F[Rest(s)]
  BY <1>1, <1>6
<1>8. Adds(F, f, S)
  BY <1>6, <1>7 DEF Adds
<1>. QED
  BY <1>8

\* The equation of the sums over the subsets of U.
LEMMA AddsEquation ==
  ASSUME NEW U, NEW F, NEW f, Adds(F, f, U)
  PROVE  F[{}] = 0 /\ \A s \in SUBSET U : s # {} => F[s] = f[Chosen(s)] + F[Rest(s)]
<1>. DEFINE G == [s \in SUBSET U |-> IF s = {} THEN 0 ELSE f[Chosen(s)] + F[Rest(s)]]
<1>1. F = G
  BY Zenon DEF Adds
<1>2. \A s \in SUBSET U : G[s] = IF s = {} THEN 0 ELSE f[Chosen(s)] + F[Rest(s)]
  OBVIOUS
<1>. HIDE DEF G
<1>3. \A s \in SUBSET U : F[s] = IF s = {} THEN 0 ELSE f[Chosen(s)] + F[Rest(s)]
  BY <1>1, <1>2
<1>. QED
  BY <1>3

\* It has no more than one solution.
LEMMA AddsAgree ==
  ASSUME NEW f, NEW U, IsFiniteSet(U), NEW V,
         NEW F, Adds(F, f, U), NEW G, Adds(G, f, V), NEW t \in SUBSET U, t \in SUBSET V
  PROVE  F[t] = G[t]
<1>. DEFINE Bad == {s \in SUBSET U : s \in SUBSET V /\ F[s] # G[s]}
<1>1. Bad \subseteq SUBSET U
  OBVIOUS
<1>2. ASSUME NEW s \in SUBSET U, s \in SUBSET V, s # {}
      PROVE  /\ F[s] = f[Chosen(s)] + F[Rest(s)]
             /\ G[s] = f[Chosen(s)] + G[Rest(s)]
  <2>1. \A r \in SUBSET U : r # {} => F[r] = f[Chosen(r)] + F[Rest(r)]
    BY AddsEquation
  <2>2. \A r \in SUBSET V : r # {} => G[r] = f[Chosen(r)] + G[Rest(r)]
    BY AddsEquation
  <2>. QED
    BY <1>2, <2>1, <2>2
<1>3. ASSUME NEW s \in Bad PROVE \E r \in Bad : r \subseteq s /\ r # s
  <2>1. s \in SUBSET U /\ s \in SUBSET V /\ F[s] # G[s]
    BY <1>3
  <2>2. s # {}
    BY <2>1, AddsEquation
  <2>. DEFINE r == Rest(s)
  <2>3. r \in SUBSET U /\ r \in SUBSET V /\ r \subseteq s /\ r # s
    BY <2>1, <2>2 DEF Chosen, Rest
  <2>4. F[r] # G[r]
    BY <1>2, <2>1, <2>2
  <2>. QED
    BY <2>3, <2>4
<1>4. Bad = {}
  <2>. HIDE DEF Bad
  <2>1. \A s \in Bad : \E r \in Bad : r \subseteq s /\ r # s
    BY <1>3
  <2>2. Bad # {} => \E s \in Bad : \A r \in Bad : r \subseteq s => r = s
    BY <1>1, SmallestSet
  <2>. QED
    BY <2>1, <2>2, Zenon
<1>. QED
  BY <1>4

\* What the sum of f over S is: nothing over no element, else the value of one element and the rest.
LEMMA SumByChoice ==
  ASSUME NEW f, NEW S, IsFiniteSet(S)
  PROVE  /\ SumFunctionOnSet(f, {}) = 0
         /\ S # {} => SumFunctionOnSet(f, S) = f[Chosen(S)] + SumFunctionOnSet(f, Rest(S))
<1>. DEFINE Fn(U) == CHOOSE F : Adds(F, f, U)
<1>1. ASSUME NEW U, IsFiniteSet(U) PROVE Adds(Fn(U), f, U) /\ SumFunctionOnSet(f, U) = Fn(U)[U]
  BY <1>1, SummationExists, SumIsComputed, Zenon
<1>. HIDE DEF Fn
<1>2. SumFunctionOnSet(f, {}) = 0
  BY <1>1, AddsEquation, FS_EmptySet
<1>3. ASSUME S # {} PROVE SumFunctionOnSet(f, S) = f[Chosen(S)] + SumFunctionOnSet(f, Rest(S))
  <2>. DEFINE R == Rest(S)
  <2>1. IsFiniteSet(R) /\ R \in SUBSET S /\ R \in SUBSET R /\ S \in SUBSET S
    BY FS_Subset DEF Rest
  <2>2. Adds(Fn(S), f, S)
    BY <1>1
  <2>3. Fn(S)[S] = f[Chosen(S)] + Fn(S)[R]
    BY <1>3, <2>1, <2>2, AddsEquation
  <2>. HIDE DEF R
  <2>4. Adds(Fn(R), f, R)
    BY <1>1, <2>1
  <2>5. Fn(S)[R] = Fn(R)[R]
    <3>. DEFINE F == Fn(S)
                G == Fn(R)
    <3>1. Adds(F, f, S) /\ Adds(G, f, R)
      BY <2>2, <2>4
    <3>. HIDE DEF F, G
    <3>2. \A t \in SUBSET S : t \in SUBSET R => F[t] = G[t]
      BY <3>1, AddsAgree
    <3>3. F[R] = G[R]
      BY <2>1, <3>2
    <3>. QED
      BY <3>3 DEF F, G
  <2>. QED
    BY <1>1, <2>1, <2>3, <2>5 DEF R
<1>. QED
  BY <1>2, <1>3
\* The sum over nothing.
LEMMA SumEmpty == ASSUME NEW f PROVE SumFunctionOnSet(f, {}) = 0
BY SumByChoice, FS_EmptySet

-----------------------------------------------------------------------------
(***************************************************************************)
(* Facts about sums.                                                       *)
(***************************************************************************)

\* A set of numbers with 0 that is closed under addition contains the sums of its numbers.
LEMMA SumClosed ==
  ASSUME NEW S, IsFiniteSet(S), NEW f, NEW N, \A x \in S : f[x] \in N,
         0 \in N, \A a, b \in N : a + b \in N
  PROVE  SumFunctionOnSet(f, S) \in N
<1>. DEFINE Bad == {s \in SUBSET S : SumFunctionOnSet(f, s) \notin N}
<1>1. ASSUME NEW s \in Bad PROVE \E r \in Bad : r \subseteq s /\ r # s
  <2>1. s \in SUBSET S /\ SumFunctionOnSet(f, s) \notin N /\ IsFiniteSet(s)
    BY <1>1, FS_Subset
  <2>2. s # {}
    BY <2>1, SumEmpty
  <2>3. SumFunctionOnSet(f, s) = f[Chosen(s)] + SumFunctionOnSet(f, Rest(s))
    BY <2>1, <2>2, SumByChoice
  <2>4. Chosen(s) \in s /\ Rest(s) \in SUBSET S /\ Rest(s) \subseteq s /\ Rest(s) # s
    BY <2>1, <2>2 DEF Chosen, Rest
  <2>5. SumFunctionOnSet(f, Rest(s)) \notin N
    BY <2>1, <2>3, <2>4
  <2>. QED
    BY <2>4, <2>5
<1>2. Bad \subseteq SUBSET S
  OBVIOUS
<1>3. Bad = {}
  <2>. HIDE DEF Bad
  <2>1. \A s \in Bad : \E r \in Bad : r \subseteq s /\ r # s
    BY <1>1
  <2>2. Bad # {} => \E s \in Bad : \A r \in Bad : r \subseteq s => r = s
    BY <1>2, SmallestSet
  <2>. QED
    BY <2>1, <2>2, Zenon
<1>. QED
  BY <1>3

\* The sum of whole numbers is whole, of naturals natural, and of zeros zero.
LEMMA SumType ==
  ASSUME NEW S, IsFiniteSet(S), NEW f
  PROVE  /\ (\A x \in S : f[x] \in Int) => SumFunctionOnSet(f, S) \in Int
         /\ (\A x \in S : f[x] \in Nat) => SumFunctionOnSet(f, S) \in Nat
         /\ (\A x \in S : f[x] = 0) => SumFunctionOnSet(f, S) = 0
<1>1. 0 \in Int /\ \A a, b \in Int : a + b \in Int
  OBVIOUS
<1>2. 0 \in Nat /\ \A a, b \in Nat : a + b \in Nat
  OBVIOUS
<1>3. 0 \in {0} /\ \A a, b \in {0} : a + b \in {0}
  OBVIOUS
<1>4. (\A x \in S : f[x] \in Int) => SumFunctionOnSet(f, S) \in Int
  BY <1>1, SumClosed
<1>5. (\A x \in S : f[x] \in Nat) => SumFunctionOnSet(f, S) \in Nat
  BY <1>2, SumClosed
<1>6. (\A x \in S : f[x] \in {0}) => SumFunctionOnSet(f, S) \in {0}
  BY <1>3, SumClosed
<1>. QED
  BY <1>4, <1>5, <1>6

\* Chosen element may be taken out first.
LEMMA SumRemove ==
  ASSUME NEW S, IsFiniteSet(S), NEW f, \A x \in S : f[x] \in Int, NEW e \in S
  PROVE  SumFunctionOnSet(f, S) = f[e] + SumFunctionOnSet(f, S \ {e})
<1>. DEFINE Sum(s) == SumFunctionOnSet(f, s)
            Less(s, x) == s \ {x}
            Good(s) == \A x \in s : Sum(s) = f[x] + Sum(Less(s, x))
            Bad == {s \in SUBSET S : ~Good(s)}
<1>1. \A s \in SUBSET S : IsFiniteSet(s) /\ Sum(s) \in Int
  <2>1. ASSUME NEW s \in SUBSET S PROVE IsFiniteSet(s) /\ Sum(s) \in Int
    <3>1. IsFiniteSet(s)
      BY FS_Subset
    <3>. QED
      BY <3>1, SumType
  <2>. QED
    BY <2>1
<1>. HIDE DEF Sum, Less
<1>2. ASSUME NEW s \in Bad PROVE \E r \in Bad : r \subseteq s /\ r # s
  <2>1. s \in SUBSET S
    BY <1>2
  <2>2. PICK x \in s : Sum(s) # f[x] + Sum(Less(s, x))
    BY <1>2
  <2>. DEFINE c == Chosen(s)
  <2>3. c \in s
    BY <2>2 DEF Chosen
  <2>4. Sum(s) = f[c] + Sum(Less(s, c))
    BY <1>1, <2>1, <2>2, SumByChoice DEF Sum, Rest, Less
  <2>. HIDE DEF c
  <2>5. x # c
    BY <2>2, <2>4
  <2>6. /\ Less(s, c) \in SUBSET S /\ Less(s, x) \in SUBSET S
        /\ Less(Less(s, c), x) \in SUBSET S
        /\ Less(Less(s, c), x) = Less(Less(s, x), c)
        /\ x \in Less(s, c) /\ c \in Less(s, x)
        /\ Less(s, c) \subseteq s /\ Less(s, x) \subseteq s /\ Less(s, c) # s /\ Less(s, x) # s
    BY <2>1, <2>2, <2>3, <2>5 DEF Less
  <2>7. SUFFICES ASSUME Good(Less(s, c)), Good(Less(s, x)) PROVE FALSE
    BY <2>6
  <2>8. Sum(Less(s, c)) = f[x] + Sum(Less(Less(s, c), x))
    BY <2>6, <2>7
  <2>9. Sum(Less(s, x)) = f[c] + Sum(Less(Less(s, c), x))
    BY <2>6, <2>7
  <2>10. /\ f[x] \in Int /\ f[c] \in Int
         /\ Sum(s) \in Int /\ Sum(Less(s, c)) \in Int /\ Sum(Less(s, x)) \in Int
         /\ Sum(Less(Less(s, c), x)) \in Int
    BY <1>1, <2>1, <2>2, <2>3, <2>6
  <2>. QED
    BY <2>2, <2>4, <2>8, <2>9, <2>10
<1>3. Bad \subseteq SUBSET S
  OBVIOUS
<1>4. Bad = {}
  <2>. HIDE DEF Bad
  <2>1. \A s \in Bad : \E r \in Bad : r \subseteq s /\ r # s
    BY <1>2
  <2>2. Bad # {} => \E s \in Bad : \A r \in Bad : r \subseteq s => r = s
    BY <1>3, SmallestSet
  <2>. QED
    BY <2>1, <2>2, Zenon
<1>5. Good(S)
  BY <1>4
<1>. QED
  BY <1>5 DEF Sum, Less

\* Sums of values that are added and subtracted one by one add and subtract.
LEMMA SumLinear ==
  ASSUME NEW S, IsFiniteSet(S), NEW f, NEW g, NEW h, NEW k,
         \A x \in S : f[x] \in Int /\ g[x] \in Int /\ h[x] \in Int /\ k[x] = f[x] + g[x] - h[x]
  PROVE  SumFunctionOnSet(k, S) =
           SumFunctionOnSet(f, S) + SumFunctionOnSet(g, S) - SumFunctionOnSet(h, S)
<1>. DEFINE Good(s) == SumFunctionOnSet(k, s) =
              SumFunctionOnSet(f, s) + SumFunctionOnSet(g, s) - SumFunctionOnSet(h, s)
            Bad == {s \in SUBSET S : ~Good(s)}
<1>1. ASSUME NEW s \in SUBSET S, s # {}, Good(s \ {Chosen(s)}) PROVE Good(s)
  <2>. DEFINE r == s \ {Chosen(s)}
  <2>1. Chosen(s) \in s /\ IsFiniteSet(s) /\ IsFiniteSet(r)
    BY <1>1, FS_Subset DEF Chosen
  <2>2. /\ SumFunctionOnSet(f, s) = f[Chosen(s)] + SumFunctionOnSet(f, r)
        /\ SumFunctionOnSet(g, s) = g[Chosen(s)] + SumFunctionOnSet(g, r)
        /\ SumFunctionOnSet(h, s) = h[Chosen(s)] + SumFunctionOnSet(h, r)
        /\ SumFunctionOnSet(k, s) = k[Chosen(s)] + SumFunctionOnSet(k, r)
    BY <1>1, <2>1, SumByChoice DEF Rest
  <2>3. \A x \in r : f[x] \in Int /\ g[x] \in Int /\ h[x] \in Int /\ k[x] \in Int
    OBVIOUS
  <2>. HIDE DEF r
  <2>4. /\ SumFunctionOnSet(f, r) \in Int /\ SumFunctionOnSet(g, r) \in Int
        /\ SumFunctionOnSet(h, r) \in Int /\ SumFunctionOnSet(k, r) \in Int
    BY <2>1, <2>3, SumType
  <2>5. /\ f[Chosen(s)] \in Int /\ g[Chosen(s)] \in Int /\ h[Chosen(s)] \in Int
        /\ k[Chosen(s)] = f[Chosen(s)] + g[Chosen(s)] - h[Chosen(s)]
    BY <2>1
  <2>6. SumFunctionOnSet(k, r) =
          SumFunctionOnSet(f, r) + SumFunctionOnSet(g, r) - SumFunctionOnSet(h, r)
    BY <1>1 DEF r
  <2>. QED
    BY <2>2, <2>4, <2>5, <2>6
<1>2. Good({})
  BY SumEmpty
<1>3. ASSUME NEW s \in Bad PROVE \E r \in Bad : r \subseteq s /\ r # s
  <2>1. s \in SUBSET S /\ ~Good(s)
    BY <1>3
  <2>. HIDE DEF Good
  <2>2. s # {}
    BY <1>2, <2>1
  <2>3. ~Good(s \ {Chosen(s)})
    BY <1>1, <2>1, <2>2
  <2>4. s \ {Chosen(s)} \in SUBSET S /\ s \ {Chosen(s)} # s
    BY <2>1, <2>2 DEF Chosen
  <2>. QED
    BY <2>3, <2>4
<1>4. Bad \subseteq SUBSET S
  OBVIOUS
<1>5. Bad = {}
  <2>. HIDE DEF Bad
  <2>1. \A s \in Bad : \E r \in Bad : r \subseteq s /\ r # s
    BY <1>3
  <2>2. Bad # {} => \E s \in Bad : \A r \in Bad : r \subseteq s => r = s
    BY <1>4, SmallestSet
  <2>. QED
    BY <2>1, <2>2, Zenon
<1>6. Good(S)
  <2>. HIDE DEF Good
  <2>. QED
    BY <1>5
<1>. QED
  BY <1>6

\* Only the values over S count.
LEMMA SumCongruent ==
  ASSUME NEW S, IsFiniteSet(S), NEW f, NEW g, \A x \in S : f[x] \in Int /\ g[x] = f[x]
  PROVE  SumFunctionOnSet(g, S) = SumFunctionOnSet(f, S)
<1>1. SumFunctionOnSet(f, S) \in Int
  BY SumType
<1>2. \A x \in S : f[x] \in Int /\ g[x] = f[x] + f[x] - f[x]
  OBVIOUS
<1>3. SumFunctionOnSet(g, S) =
        SumFunctionOnSet(f, S) + SumFunctionOnSet(f, S) - SumFunctionOnSet(f, S)
  BY <1>2, SumLinear
<1>. QED
  BY <1>1, <1>3

\* One value changed.
LEMMA SumChange ==
  ASSUME NEW S, IsFiniteSet(S), NEW e \in S, NEW f, NEW g,
         \A x \in S : f[x] \in Int /\ g[x] \in Int, \A x \in S \ {e} : g[x] = f[x]
  PROVE  SumFunctionOnSet(g, S) = SumFunctionOnSet(f, S) + g[e] - f[e]
<1>1. IsFiniteSet(S \ {e})
  BY FS_Subset
<1>2. SumFunctionOnSet(g, S \ {e}) = SumFunctionOnSet(f, S \ {e})
  BY <1>1, SumCongruent
<1>3. /\ SumFunctionOnSet(g, S) = g[e] + SumFunctionOnSet(g, S \ {e})
      /\ SumFunctionOnSet(f, S) = f[e] + SumFunctionOnSet(f, S \ {e})
  BY SumRemove
<1>4. SumFunctionOnSet(f, S \ {e}) \in Int
  BY <1>1, SumType
<1>. QED
  BY <1>2, <1>3, <1>4

\* One element more.
LEMMA SumAdd ==
  ASSUME NEW S, IsFiniteSet(S), NEW e, e \notin S, NEW f, \A x \in S \cup {e} : f[x] \in Int
  PROVE  SumFunctionOnSet(f, S \cup {e}) = f[e] + SumFunctionOnSet(f, S)
<1>1. IsFiniteSet(S \cup {e}) /\ (S \cup {e}) \ {e} = S
  BY FS_AddElement
<1>. QED
  BY <1>1, SumRemove

\* A sum over a set is the sum over a part of it and over the rest.
LEMMA SumSplit ==
  ASSUME NEW S, IsFiniteSet(S), NEW f, \A x \in S : f[x] \in Int, NEW T \in SUBSET S
  PROVE  SumFunctionOnSet(f, S) = SumFunctionOnSet(f, T) + SumFunctionOnSet(f, S \ T)
<1>. DEFINE Sum(s) == SumFunctionOnSet(f, s)
            Good(s) == Sum(S) = Sum(s) + Sum(S \ s)
            Bad == {s \in SUBSET S : ~Good(s)}
<1>1. \A s \in SUBSET S : IsFiniteSet(s) /\ Sum(s) \in Int
  <2>1. ASSUME NEW s \in SUBSET S PROVE IsFiniteSet(s) /\ Sum(s) \in Int
    <3>1. IsFiniteSet(s)
      BY FS_Subset
    <3>. QED
      BY <3>1, SumType
  <2>. QED
    BY <2>1
<1>2. Good({})
  <2>1. S \ {} = S /\ Sum(S) \in Int
    BY <1>1
  <2>. QED
    BY <2>1, SumEmpty
<1>3. ASSUME NEW s \in SUBSET S, s # {}, Good(s \ {Chosen(s)}) PROVE Good(s)
  <2>. DEFINE e == Chosen(s)
              r == s \ {e}
              q == S \ r
  <2>1. e \in s /\ e \in q /\ q \ {e} = S \ s /\ q \in SUBSET S /\ r \in SUBSET S
    BY <1>3 DEF Chosen
  <2>. HIDE DEF e
  <2>2. Sum(s) = f[e] + Sum(r)
    BY <1>1, <2>1, SumRemove
  <2>3. Sum(q) = f[e] + Sum(q \ {e})
    BY <1>1, <2>1, SumRemove
  <2>4. Sum(S) = Sum(r) + Sum(q)
    BY <1>3 DEF e
  <2>. HIDE DEF Sum, r, q
  <2>5. Sum(q) = f[e] + Sum(S \ s)
    BY <2>1, <2>3
  <2>6. Sum(r) \in Int /\ Sum(S \ s) \in Int /\ f[e] \in Int
    BY <1>1, <2>1
  <2>. QED
    BY <2>2, <2>4, <2>5, <2>6
<1>4. ASSUME NEW s \in Bad PROVE \E r \in Bad : r \subseteq s /\ r # s
  <2>1. s \in SUBSET S /\ ~Good(s)
    BY <1>4
  <2>. HIDE DEF Good
  <2>2. s # {}
    BY <1>2, <2>1
  <2>3. ~Good(s \ {Chosen(s)})
    BY <1>3, <2>1, <2>2
  <2>4. s \ {Chosen(s)} \in SUBSET S /\ s \ {Chosen(s)} # s
    BY <2>1, <2>2 DEF Chosen
  <2>. QED
    BY <2>3, <2>4
<1>5. Bad \subseteq SUBSET S
  OBVIOUS
<1>6. Bad = {}
  <2>. HIDE DEF Bad
  <2>1. \A s \in Bad : \E r \in Bad : r \subseteq s /\ r # s
    BY <1>4
  <2>2. Bad # {} => \E s \in Bad : \A r \in Bad : r \subseteq s => r = s
    BY <1>5, SmallestSet
  <2>. QED
    BY <2>1, <2>2, Zenon
<1>7. Good(T)
  <2>. HIDE DEF Good
  <2>. QED
    BY <1>6
<1>. QED
  BY <1>7

\* Elements without a value add nothing.
LEMMA SumSupport ==
  ASSUME NEW S, IsFiniteSet(S), NEW f, \A x \in S : f[x] \in Int,
         NEW T \in SUBSET S, \A x \in S \ T : f[x] = 0
  PROVE  SumFunctionOnSet(f, S) = SumFunctionOnSet(f, T)
<1>1. IsFiniteSet(T) /\ IsFiniteSet(S \ T)
  BY FS_Subset
<1>2. SumFunctionOnSet(f, T) \in Int /\ SumFunctionOnSet(f, S \ T) = 0
  BY <1>1, SumType
<1>. QED
  BY <1>2, SumSplit

\* f within T, 0 without.
Within(T, f, S) == [x \in S |-> IF x \in T THEN f[x] ELSE 0]

\* The sum over a part, as a sum over the whole.
LEMMA SumWithin ==
  ASSUME NEW S, IsFiniteSet(S), NEW T \in SUBSET S, NEW f, \A x \in T : f[x] \in Int
  PROVE  /\ \A x \in S : Within(T, f, S)[x] = (IF x \in T THEN f[x] ELSE 0)
         /\ \A x \in S : Within(T, f, S)[x] \in Int
         /\ SumFunctionOnSet(Within(T, f, S), S) = SumFunctionOnSet(f, T)
<1>. DEFINE g == Within(T, f, S)
<1>1. \A x \in S : g[x] = (IF x \in T THEN f[x] ELSE 0) /\ g[x] \in Int
  BY DEF Within
<1>. HIDE DEF g
<1>2. SumFunctionOnSet(g, S) = SumFunctionOnSet(g, T)
  BY <1>1, SumSupport
<1>3. IsFiniteSet(T) /\ \A x \in T : f[x] \in Int /\ g[x] = f[x]
  BY <1>1, FS_Subset
<1>4. SumFunctionOnSet(g, T) = SumFunctionOnSet(f, T)
  BY <1>3, SumCongruent
<1>. QED
  BY <1>1, <1>2, <1>4 DEF g
=============================================================================
