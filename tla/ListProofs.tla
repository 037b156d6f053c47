---------------------------- MODULE ListProofs ----------------------------
(***************************************************************************)
(* What the operators on lists do: filtering, sorting, going through a     *)
(* list one element after the other.  They are functions over positions,   *)
(* so that what holds of all of them follows by the smallest position for  *)
(* which it would not.                                                     *)
(***************************************************************************)
EXTENDS Integers, Lists, FiniteSetTheorems, SequenceTheorems, WellFoundedInduction, TLAPS

(***************************************************************************)
(* Filtering a list.                                                       *)
(***************************************************************************)
\* Every nonempty set of numbers has a smallest one.
LEMMA SmallestOf ==
  ASSUME NEW T, T \subseteq Nat, T # {}
  PROVE  \E x \in T : \A y \in T : x <= y
<1>1. PICK x \in T : \A y \in T : ~(<<y, x>> \in OpToRel(<, Nat))
  BY NatLessThanWellFounded, WFMin
<1>2. \A y \in T : ~(y < x) BY <1>1 DEF OpToRel
<1>3. QED BY <1>2

\* f is the function that Filtered defines by recursion, up to n.
Choosing(s, T, n, f) ==
  f = [i \in 0..n |-> IF i = 0 THEN <<>>
                      ELSE IF s[i] \in T THEN Append(f[i - 1], s[i]) ELSE f[i - 1]]

\* There is one: else take the smallest n for which there is none.
LEMMA ChoosingExists ==
  ASSUME NEW s, NEW T, NEW n \in Nat
  PROVE  \E f : Choosing(s, T, n, f)
<1> DEFINE Bad == {m \in Nat : ~\E f : Choosing(s, T, m, f)}
<1>1. SUFFICES ASSUME Bad # {} PROVE FALSE OBVIOUS
<1>2. PICK m \in Bad : \A k \in Bad : m <= k
  <2>1. Bad \subseteq Nat OBVIOUS
  <2> QED BY <1>1, <2>1, SmallestOf
<1>3. CASE m = 0
  <2>1. Choosing(s, T, 0, [i \in 0..0 |-> <<>>]) BY DEF Choosing
  <2> QED BY <1>3, <2>1
<1>4. CASE m # 0
  <2>1. m - 1 \in Nat /\ m - 1 \notin Bad BY <1>2, <1>4
  <2>2. PICK f : Choosing(s, T, m - 1, f) BY <2>1
  <2> DEFINE last == IF s[m] \in T THEN Append(f[m - 1], s[m]) ELSE f[m - 1]
             g == [i \in 0..m |-> IF i = m THEN last ELSE f[i]]
  <2>3. f = [i \in 0..(m - 1) |-> IF i = 0 THEN <<>>
                 ELSE IF s[i] \in T THEN Append(f[i - 1], s[i]) ELSE f[i - 1]]
    BY <2>2 DEF Choosing
  <2>4. g[m] = IF s[m] \in T THEN Append(g[m - 1], s[m]) ELSE g[m - 1]
    BY <1>4, <2>1
  <2>5. ASSUME NEW i \in 0..m
        PROVE  g[i] = IF i = 0 THEN <<>>
                      ELSE IF s[i] \in T THEN Append(g[i - 1], s[i]) ELSE g[i - 1]
    <3> HIDE DEF last
    <3>1. CASE i = m BY <3>1, <2>4, <1>4
    <3>2. CASE i # m
      <4>1. i \in 0..(m - 1) /\ g[i] = f[i] /\ (i # 0 => i - 1 \in 0..m /\ i - 1 # m /\ g[i - 1] = f[i - 1])
        BY <3>2, <1>2, <2>1
      <4> HIDE DEF g
      <4>2. f[i] = IF i = 0 THEN <<>>
                 ELSE IF s[i] \in T THEN Append(f[i - 1], s[i]) ELSE f[i - 1]
        BY <2>3, <4>1
      <4> QED BY <4>1, <4>2
    <3> QED BY <3>1, <3>2
  <2>6. g = [i \in 0..m |-> g[i]] OBVIOUS
  <2> HIDE DEF g
  <2>7. Choosing(s, T, m, g)
    <3>1. g = [i \in 0..m |-> IF i = 0 THEN <<>>
                 ELSE IF s[i] \in T THEN Append(g[i - 1], s[i]) ELSE g[i - 1]]
      BY <2>5, <2>6
    <3> QED BY <3>1 DEF Choosing
  <2> QED BY <1>2, <2>7
<1> QED BY <1>3, <1>4

\* r has of the first n elements of s those in T, in their order; h says where
\* they were.
Places(s, T, n, r, h) ==
  /\ r \in Seq(T)
  /\ h \in [1..Len(r) -> 1..n]
  /\ \A j, k \in 1..Len(r) : j < k => h[j] < h[k]
  /\ \A j \in 1..Len(r) : r[j] = s[h[j]]
  /\ \A i \in 1..n : s[i] \in T => \E j \in 1..Len(r) : h[j] = i

\* Filtered keeps what it promises: else take the shortest beginning of s for which
\* it does not.
LEMMA FilteredPlaces ==
  ASSUME NEW s, NEW T, Len(s) \in Nat
  PROVE  \E h : Places(s, T, Len(s), Filtered(s, T), h)
<1> DEFINE f == CHOOSE g : Choosing(s, T, Len(s), g)
<1>1. Filtered(s, T) = f[Len(s)] BY DEF Filtered, Choosing
<1>2. Choosing(s, T, Len(s), f) BY ChoosingExists
<1> HIDE DEF f
<1>3. \A i \in 0..Len(s) : f[i] = IF i = 0 THEN <<>>
                 ELSE IF s[i] \in T THEN Append(f[i - 1], s[i]) ELSE f[i - 1]
  BY <1>2 DEF Choosing
<1> DEFINE Bad == {n \in 0..Len(s) : ~\E h : Places(s, T, n, f[n], h)}
<1>4. SUFFICES ASSUME Bad # {} PROVE FALSE BY <1>1
<1>5. PICK n \in Bad : \A k \in Bad : n <= k
  <2>1. Bad \subseteq Nat OBVIOUS
  <2> QED BY <1>4, <2>1, SmallestOf
<1>6. CASE n = 0
  <2>1. f[0] = <<>> BY <1>3
  <2>2. Places(s, T, 0, <<>>, [i \in 1..0 |-> 1]) BY DEF Places
  <2> QED BY <1>5, <1>6, <2>1, <2>2
<1>7. CASE n # 0
  <2>1. n - 1 \in 0..Len(s) /\ n - 1 \notin Bad BY <1>5, <1>7
  <2>2. PICK h : Places(s, T, n - 1, f[n - 1], h) BY <2>1
  <2>3. CASE s[n] \notin T
    <3>1. f[n] = f[n - 1] BY <1>3, <1>5, <1>7, <2>3
    <3>2. h \in [1..Len(f[n]) -> 1..n] BY <2>2, <3>1, <2>1 DEF Places
    <3>3. Places(s, T, n, f[n], h) BY <2>2, <2>3, <3>1, <3>2, <2>1 DEF Places
    <3> QED BY <1>5, <3>3
  <2>4. CASE s[n] \in T
    <3> DEFINE r == f[n - 1]
               m == Len(r)
               g == [j \in 1..(m + 1) |-> IF j = m + 1 THEN n ELSE h[j]]
    <3>1. f[n] = Append(r, s[n]) BY <1>3, <1>5, <1>7, <2>4
    <3>2. r \in Seq(T) /\ m \in Nat BY <2>2 DEF Places
    <3>3. h \in [1..m -> 1..(n - 1)] BY <2>2 DEF Places
    <3>4. /\ f[n] \in Seq(T) /\ Len(f[n]) = m + 1
          /\ \A j \in 1..(m + 1) : f[n][j] = IF j = m + 1 THEN s[n] ELSE r[j]
      BY <3>1, <3>2, <2>4
    <3>5. /\ \A j, k \in 1..m : j < k => h[j] < h[k]
          /\ \A j \in 1..m : r[j] = s[h[j]]
          /\ \A i \in 1..(n - 1) : s[i] \in T => \E j \in 1..m : h[j] = i
      BY <2>2 DEF Places
    <3> HIDE DEF r, m
    <3>6. g \in [1..(m + 1) -> 1..n] BY <3>2, <3>3, <2>1, <1>7
    <3>7. \A j, k \in 1..(m + 1) : j < k => g[j] < g[k]
      <4> SUFFICES ASSUME NEW j \in 1..(m + 1), NEW k \in 1..(m + 1), j < k PROVE g[j] < g[k]
        OBVIOUS
      <4>1. j \in 1..m /\ g[j] = h[j] /\ h[j] \in 1..(n - 1) BY <3>2, <3>3
      <4>2. CASE k = m + 1 BY <4>1, <4>2, <2>1, <3>2
      <4>3. CASE k # m + 1
        <5>1. k \in 1..m /\ g[k] = h[k] BY <4>3, <3>2
        <5> QED BY <4>1, <5>1, <3>5
      <4> QED BY <4>2, <4>3
    <3>8. \A j \in 1..(m + 1) : f[n][j] = s[g[j]] BY <3>2, <3>3, <3>4, <3>5
    <3>9. \A i \in 1..n : s[i] \in T => \E j \in 1..(m + 1) : g[j] = i
      <4> SUFFICES ASSUME NEW i \in 1..n, s[i] \in T PROVE \E j \in 1..(m + 1) : g[j] = i
        OBVIOUS
      <4>1. CASE i = n BY <4>1, <3>2
      <4>2. CASE i # n
        <5>1. PICK j \in 1..m : h[j] = i BY <4>2, <3>5, <2>1
        <5> QED BY <5>1, <3>2
      <4> QED BY <4>1, <4>2
    <3> HIDE DEF g
    <3>10. Places(s, T, n, f[n], g) BY <3>4, <3>6, <3>7, <3>8, <3>9 DEF Places
    <3> QED BY <1>5, <3>10
  <2> QED BY <2>3, <2>4
<1> QED BY <1>6, <1>7

\* A filtered list has the elements of the list that are in T, and no place twice.
LEMMA FilteredFacts ==
  ASSUME NEW S, NEW s \in Seq(S), NEW T
  PROVE  /\ Filtered(s, T) \in Seq(S)
         /\ \A k \in DOMAIN Filtered(s, T) : Filtered(s, T)[k] \in T
         /\ \A i \in DOMAIN s : s[i] \in T => \E k \in DOMAIN Filtered(s, T) : Filtered(s, T)[k] = s[i]
         /\ \E h \in [DOMAIN Filtered(s, T) -> DOMAIN s] :
              /\ \A j, k \in DOMAIN Filtered(s, T) : j < k => h[j] < h[k]
              /\ \A k \in DOMAIN Filtered(s, T) : Filtered(s, T)[k] = s[h[k]]
<1> DEFINE r == Filtered(s, T)
<1>1. Len(s) \in Nat /\ DOMAIN s = 1..Len(s) OBVIOUS
<1>2. PICK h : Places(s, T, Len(s), r, h) BY <1>1, FilteredPlaces
<1> HIDE DEF r
<1>3. r \in Seq(T) /\ DOMAIN r = 1..Len(r) /\ Len(r) \in Nat BY <1>2 DEF Places
<1>4. h \in [DOMAIN r -> DOMAIN s] BY <1>1, <1>2, <1>3 DEF Places
<1>5. \A k \in DOMAIN r : r[k] = s[h[k]] /\ r[k] \in S BY <1>2, <1>3, <1>4 DEF Places
<1>6. r \in Seq(S) BY <1>3, <1>5
<1>7. \A k \in DOMAIN r : r[k] \in T BY <1>3
<1>8. ASSUME NEW i \in DOMAIN s, s[i] \in T
      PROVE  \E k \in DOMAIN r : r[k] = s[i]
  <2>1. PICK k \in 1..Len(r) : h[k] = i BY <1>1, <1>2, <1>8 DEF Places
  <2> QED BY <2>1, <1>3, <1>5
<1>9. \A j, k \in DOMAIN r : j < k => h[j] < h[k] BY <1>2, <1>3 DEF Places
<1>10. QED BY <1>4, <1>5, <1>6, <1>7, <1>8, <1>9 DEF r

\* Two elements of it have two places in the list, in this order.
LEMMA FilteredOrder ==
  ASSUME NEW S, NEW s \in Seq(S), NEW T,
         NEW j \in DOMAIN Filtered(s, T), NEW k \in DOMAIN Filtered(s, T), j < k
  PROVE  \E a, b \in DOMAIN s : a < b /\ s[a] = Filtered(s, T)[j] /\ s[b] = Filtered(s, T)[k]
<1> DEFINE r == Filtered(s, T)
<1>1. Len(s) \in Nat /\ DOMAIN s = 1..Len(s) OBVIOUS
<1>2. PICK h : Places(s, T, Len(s), r, h) BY <1>1, FilteredPlaces
<1>3. j \in DOMAIN r /\ k \in DOMAIN r OBVIOUS
<1> HIDE DEF r
<1>4. r \in Seq(T) BY <1>2 DEF Places
<1>5. j \in 1..Len(r) /\ k \in 1..Len(r) BY <1>3, <1>4
<1>6. h[j] \in DOMAIN s /\ h[k] \in DOMAIN s BY <1>1, <1>2, <1>5 DEF Places
<1>7. h[j] < h[k] /\ r[j] = s[h[j]] /\ r[k] = s[h[k]] BY <1>2, <1>5 DEF Places
<1> QED BY <1>6, <1>7 DEF r

\* What is left of a list is a list of the same kind, and all of it is in T.
LEMMA FilteredList ==
  ASSUME NEW S, NEW s \in Seq(S), NEW T
  PROVE  /\ Filtered(s, T) \in Seq(S)
         /\ \A k \in DOMAIN Filtered(s, T) : Filtered(s, T)[k] \in T
BY FilteredFacts

---------------------------------------------------------------------------
(***************************************************************************)
(* Sorting a set.                                                          *)
(***************************************************************************)
IsOrder(S, R) ==
  /\ \A x \in S : <<x, x>> \notin R
  /\ \A x, y, z \in S : <<x, y>> \in R /\ <<y, z>> \in R => <<x, z>> \in R
  /\ \A x, y \in S : x # y => <<x, y>> \in R \/ <<y, x>> \in R

Before(S, R, x) == {y \in S : <<y, x>> \in R}

\* Whoever comes later has more before it, and less than all.
LEMMA RankGrows ==
  ASSUME NEW S, NEW R, IsFiniteSet(S), IsOrder(S, R)
  PROVE  /\ \A x \in S : Cardinality(Before(S, R, x)) \in 0..(Cardinality(S) - 1)
         /\ \A x, y \in S : <<x, y>> \in R
              => Cardinality(Before(S, R, x)) < Cardinality(Before(S, R, y))
<1>1. Cardinality(S) \in Nat BY FS_CardinalityType
<1>2. ASSUME NEW x \in S
      PROVE  /\ IsFiniteSet(Before(S, R, x)) /\ Cardinality(Before(S, R, x)) \in Nat
             /\ Cardinality(Before(S, R, x)) < Cardinality(S)
  <2>1. Before(S, R, x) \in SUBSET S /\ Before(S, R, x) # S BY DEF Before, IsOrder
  <2>2. IsFiniteSet(Before(S, R, x)) BY <2>1, FS_Subset
  <2> QED BY <2>1, <2>2, FS_Subset, FS_CardinalityType
<1>3. ASSUME NEW x \in S, NEW y \in S, <<x, y>> \in R
      PROVE  Cardinality(Before(S, R, x)) < Cardinality(Before(S, R, y))
  <2>1. Before(S, R, x) \in SUBSET Before(S, R, y) BY <1>3 DEF Before, IsOrder
  <2>2. x \in Before(S, R, y) /\ x \notin Before(S, R, x) BY <1>3 DEF Before, IsOrder
  <2>3. IsFiniteSet(Before(S, R, y)) BY <1>2
  <2> QED BY <2>1, <2>2, <2>3, FS_Subset, <1>2
<1>4. \A x \in S : Cardinality(Before(S, R, x)) \in 0..(Cardinality(S) - 1)
  BY <1>1, <1>2
<1> QED BY <1>3, <1>4

\* A sorted set is a list of all its elements, in the order.
LEMMA RankedFacts ==
  ASSUME NEW S, NEW R, IsFiniteSet(S), IsOrder(S, R)
  PROVE  /\ Ranked(S, R) \in Seq(S) /\ Len(Ranked(S, R)) = Cardinality(S)
         /\ \A j, k \in DOMAIN Ranked(S, R) : j < k => <<Ranked(S, R)[j], Ranked(S, R)[k]>> \in R
         /\ \A x \in S : \E k \in DOMAIN Ranked(S, R) : Ranked(S, R)[k] = x
<1> DEFINE n == Cardinality(S)
           W == 1..n
           r == Ranked(S, R)
           rank == [x \in S |-> Cardinality(Before(S, R, x)) + 1]
<1>1. n \in Nat BY FS_CardinalityType
<1>2. r = [k \in W |-> CHOOSE x \in S : Cardinality(Before(S, R, x)) = k - 1]
  BY DEF Ranked, Before
<1>3. \A x \in S : Cardinality(Before(S, R, x)) \in 0..(n - 1) BY RankGrows
<1>4. \A x, y \in S : <<x, y>> \in R
              => Cardinality(Before(S, R, x)) < Cardinality(Before(S, R, y))
  BY RankGrows
<1>5. rank \in [S -> W]
  <2>1. \A x \in S : Cardinality(Before(S, R, x)) + 1 \in W BY <1>1, <1>3
  <2> QED BY <2>1
<1>6. ASSUME NEW x \in S, NEW y \in S, rank[x] = rank[y] PROVE x = y
  <2>1. Cardinality(Before(S, R, x)) = Cardinality(Before(S, R, y)) BY <1>6, <1>3, <1>1
  <2>2. <<x, y>> \notin R /\ <<y, x>> \notin R BY <2>1, <1>3, <1>4, <1>1
  <2> QED BY <2>2 DEF IsOrder
<1>7. rank \in Surjection(S, W)
  <2>1. rank \in Injection(S, W) BY <1>5, <1>6 DEF Injection, IsInjective
  <2>2. IsFiniteSet(W) /\ Cardinality(W) = n BY <1>1, FS_Interval
  <2> HIDE DEF W, rank
  <2> QED BY <2>1, <2>2, FS_Injection
<1>8. ASSUME NEW k \in W
      PROVE  r[k] \in S /\ Cardinality(Before(S, R, r[k])) = k - 1
  <2>1. PICK x \in S : rank[x] = k BY <1>7 DEF Surjection
  <2>2. Cardinality(Before(S, R, x)) = k - 1 BY <2>1, <1>3, <1>1
  <2>3. r[k] = CHOOSE y \in S : Cardinality(Before(S, R, y)) = k - 1 BY <1>2
  <2> QED BY <2>2, <2>3
<1> HIDE DEF r, rank
<1>9. r \in [W -> S] BY <1>2, <1>8
<1>10. r \in Seq(S) /\ Len(r) = n /\ DOMAIN r = W BY <1>1, <1>9
<1>11. ASSUME NEW j \in W, NEW k \in W, j < k PROVE <<r[j], r[k]>> \in R
  <2>1. /\ r[j] \in S /\ r[k] \in S
        /\ Cardinality(Before(S, R, r[j])) = j - 1 /\ Cardinality(Before(S, R, r[k])) = k - 1
    BY <1>8
  <2>2. j - 1 < k - 1 /\ ~(k - 1 < j - 1) BY <1>1, <1>11
  <2>3. r[j] # r[k] BY <2>1, <2>2
  <2>4. <<r[k], r[j]>> \notin R BY <2>1, <2>2, <1>4
  <2> QED BY <2>1, <2>3, <2>4 DEF IsOrder
<1>12. ASSUME NEW x \in S PROVE \E k \in W : r[k] = x
  <2>1. PICK k \in W : k = rank[x] BY <1>5
  <2>2. Cardinality(Before(S, R, x)) = k - 1 BY <2>1, <1>3, <1>1 DEF rank
  <2>3. r[k] \in S /\ Cardinality(Before(S, R, r[k])) = Cardinality(Before(S, R, x)) BY <1>8, <2>2
  <2>4. <<x, r[k]>> \notin R /\ <<r[k], x>> \notin R BY <2>3, <1>3, <1>4, <1>1
  <2> QED BY <2>3, <2>4 DEF IsOrder
<1> QED BY <1>10, <1>11, <1>12 DEF r
---------------------------------------------------------------------------
(***************************************************************************)
(* One element after the other.                                            *)
(***************************************************************************)
\* What holds at the start, and of each position when it holds of the one before,
\* holds of all.
LEMMA UpTo ==
  ASSUME NEW n \in Nat, NEW P, 0 \in P, \A i \in 1..n : i - 1 \in P => i \in P
  PROVE  \A i \in 0..n : i \in P
<1> DEFINE Bad == {i \in 0..n : i \notin P}
<1>1. SUFFICES ASSUME Bad # {} PROVE FALSE OBVIOUS
<1>2. PICK m \in Bad : \A k \in Bad : m <= k
  <2>1. Bad \subseteq Nat OBVIOUS
  <2> QED BY <1>1, <2>1, SmallestOf
<1>3. m \in 1..n /\ m - 1 \in 0..n BY <1>2
<1>4. m - 1 \notin Bad BY <1>2, <1>3
<1> QED BY <1>2, <1>3, <1>4

\* A loop that goes from one value to the next by G has a value after each round.
IsRun(f, X, n, base, G) ==
  f \in [0..n -> X] /\ f[0] = base /\ \A i \in 1..n : f[i] = G[<<f[i - 1], i>>]

LEMMA Iterated ==
  ASSUME NEW X, NEW base \in X, NEW n \in Nat, NEW G \in [X \X (1..n) -> X]
  PROVE  \E f : IsRun(f, X, n, base, G)
<1> DEFINE Runs(m, f) == f[0] = base /\ \A i \in 1..m : f[i] = G[<<f[i - 1], i>>]
           P == {m \in 0..n : \E f \in [0..m -> X] : Runs(m, f)}
<1>1. 0 \in P
  <2> DEFINE f == [i \in 0..0 |-> base]
  <2>1. f \in [0..0 -> X] OBVIOUS
  <2>2. f[0] = base OBVIOUS
  <2> HIDE DEF f
  <2>3. \A i \in 1..0 : FALSE OBVIOUS
  <2>4. Runs(0, f) BY <2>2, <2>3
  <2> QED BY <2>1, <2>4
<1>2. ASSUME NEW m \in 1..n, m - 1 \in P PROVE m \in P
  <2>1. PICK f \in [0..(m - 1) -> X] : Runs(m - 1, f) BY <1>2
  <2> DEFINE last == G[<<f[m - 1], m>>]
             g == [i \in 0..m |-> IF i = m THEN last ELSE f[i]]
  <2>2. last \in X
    <3>1. m - 1 \in 0..(m - 1) OBVIOUS
    <3>2. f[m - 1] \in X BY <3>1
    <3>3. <<f[m - 1], m>> \in X \X (1..n) BY <3>2
    <3> QED BY <3>3
  <2> HIDE DEF last
  <2>3. g \in [0..m -> X] BY <2>2
  <2>4. \A i \in 0..(m - 1) : g[i] = f[i] OBVIOUS
  <2>5. g[m] = last OBVIOUS
  <2> HIDE DEF g
  <2>6. g[0] = base BY <2>1, <2>4
  <2>7. ASSUME NEW i \in 1..m PROVE g[i] = G[<<g[i - 1], i>>]
    <3>1. i - 1 \in 0..(m - 1) /\ g[i - 1] = f[i - 1] BY <2>4
    <3>2. CASE i = m BY <3>1, <3>2, <2>5 DEF last
    <3>3. CASE i # m
      <4>1. i \in 1..(m - 1) /\ i \in 0..(m - 1) BY <3>3
      <4> QED BY <2>1, <2>4, <3>1, <4>1
    <3> QED BY <3>2, <3>3
  <2>8. Runs(m, g) BY <2>6, <2>7
  <2> QED BY <2>3, <2>8
<1> HIDE DEF P
<1>3. \A i \in 0..n : i \in P BY <1>1, <1>2, UpTo
<1>4. n \in P BY <1>3
<1>5. PICK f \in [0..n -> X] : Runs(n, f) BY <1>4 DEF P
<1>6. IsRun(f, X, n, base, G) BY <1>5 DEF IsRun
<1> QED BY <1>6
---------------------------------------------------------------------------
(***************************************************************************)
(* Filtering a list one element after the other.                           *)
(***************************************************************************)
\* r[i] is what is left of the first i elements.
Leaves(s, T, r) ==
  /\ r[0] = <<>>
  /\ \A i \in 1..Len(s) : r[i] = IF s[i] \in T THEN Append(r[i - 1], s[i]) ELSE r[i - 1]

LEMMA FilteredSteps ==
  ASSUME NEW s, NEW T, Len(s) \in Nat
  PROVE  \E r : Leaves(s, T, r) /\ Filtered(s, T) = r[Len(s)]
<1> DEFINE f == CHOOSE g : Choosing(s, T, Len(s), g)
<1>1. Filtered(s, T) = f[Len(s)] BY DEF Filtered, Choosing
<1>2. Choosing(s, T, Len(s), f) BY ChoosingExists
<1> HIDE DEF f
<1>3. \A i \in 0..Len(s) : f[i] = IF i = 0 THEN <<>>
                 ELSE IF s[i] \in T THEN Append(f[i - 1], s[i]) ELSE f[i - 1]
  BY <1>2 DEF Choosing
<1>4. Leaves(s, T, f) BY <1>3 DEF Leaves
<1> QED BY <1>1, <1>4

\* When the elements in T are the first m of the list, they are what is left.
LEMMA FilteredFront ==
  ASSUME NEW S, NEW s \in Seq(S), NEW T, NEW m \in 0..Len(s),
         \A i \in 1..m : s[i] \in T, \A i \in (m + 1)..Len(s) : s[i] \notin T
  PROVE  /\ Filtered(s, T) \in Seq(S) /\ Len(Filtered(s, T)) = m
         /\ \A i \in 1..m : Filtered(s, T)[i] = s[i]
<1> DEFINE n == Len(s)
<1>1. n \in Nat /\ \A i \in 1..n : s[i] \in S BY ElementOfSeq
<1>2. PICK r : Leaves(s, T, r) /\ Filtered(s, T) = r[n] BY <1>1, FilteredSteps
<1>3. r[0] = <<>> /\ \A i \in 1..n : r[i] = IF s[i] \in T THEN Append(r[i - 1], s[i]) ELSE r[i - 1]
  BY <1>2 DEF Leaves
<1> DEFINE Size(i) == IF i <= m THEN i ELSE m
           P == {i \in 0..n : /\ r[i] \in Seq(S) /\ Len(r[i]) = Size(i)
                              /\ \A k \in 1..Size(i) : r[i][k] = s[k]}
<1> HIDE DEF n
<1>4. 0 \in P
  <2>1. Size(0) = 0 BY <1>1 DEF n
  <2> HIDE DEF Size
  <2>2. r[0] \in Seq(S) /\ Len(r[0]) = 0 BY <1>3
  <2>3. \A k \in 1..0 : r[0][k] = s[k] OBVIOUS
  <2> QED BY <1>1, <2>1, <2>2, <2>3
<1>5. ASSUME NEW i \in 1..n, i - 1 \in P PROVE i \in P
  <2>1. r[i - 1] \in Seq(S) /\ Len(r[i - 1]) = Size(i - 1) BY <1>5
  <2>2. \A k \in 1..Size(i - 1) : r[i - 1][k] = s[k] BY <1>5
  <2>3. m \in Nat /\ s[i] \in S /\ i \in 0..n BY <1>1 DEF n
  <2>4. CASE i <= m
    <3>1. s[i] \in T BY <2>4
    <3>2. r[i] = Append(r[i - 1], s[i]) BY <3>1, <1>3
    <3>3. Size(i - 1) = i - 1 /\ Size(i) = i BY <2>4, <2>3
    <3> HIDE DEF Size
    <3>4. r[i] \in Seq(S) /\ Len(r[i]) = i BY <2>1, <2>3, <3>2, <3>3
    <3>5. \A k \in 1..i : r[i][k] = s[k] BY <2>1, <2>2, <2>3, <3>2, <3>3
    <3> QED BY <2>3, <3>3, <3>4, <3>5
  <2>5. CASE ~(i <= m)
    <3>1. s[i] \notin T BY <2>5, <2>3, <1>1 DEF n
    <3>2. r[i] = r[i - 1] BY <3>1, <1>3
    <3>3. Size(i - 1) = m /\ Size(i) = m BY <2>5, <2>3
    <3> HIDE DEF Size
    <3> QED BY <2>1, <2>2, <2>3, <3>2, <3>3
  <2> QED BY <2>4, <2>5
<1> HIDE DEF P
<1>6. n \in P
  <2>1. \A i \in 0..n : i \in P BY <1>1, <1>4, <1>5, UpTo
  <2> QED BY <2>1, <1>1
<1>7. Size(n) = m BY <1>1 DEF n
<1> HIDE DEF Size
<1> QED BY <1>2, <1>6, <1>7 DEF P

\* When all of them are in T, nothing changes.
LEMMA FilteredAll ==
  ASSUME NEW S, NEW s \in Seq(S), NEW T, \A i \in 1..Len(s) : s[i] \in T
  PROVE  Filtered(s, T) = s
<1> DEFINE r == Filtered(s, T)
           n == Len(s)
<1>1. n \in Nat /\ n \in 0..n OBVIOUS
<1>2. \A i \in (n + 1)..n : s[i] \notin T BY <1>1
<1>3. /\ r \in Seq(S) /\ Len(r) = n
      /\ \A i \in 1..n : r[i] = s[i]
  BY <1>1, <1>2, FilteredFront
<1> HIDE DEF r
<1> QED BY <1>3, SeqEqual DEF r
---------------------------------------------------------------------------
(***************************************************************************)
(* Adding up.                                                              *)
(***************************************************************************)
\* f[i] is the sum of the first i values of v.
SumsUp(f, v, n) ==
  f \in [0..n -> Nat] /\ f[0] = 0 /\ \A i \in 1..n : f[i] = f[i - 1] + v[i]

LEMMA SumsExist ==
  ASSUME NEW n \in Nat, NEW v \in [1..n -> Nat]
  PROVE  \E f : SumsUp(f, v, n)
<1> DEFINE G == [x \in Nat \X (1..n) |-> x[1] + v[x[2]]]
           base == 0
<1>1. G \in [Nat \X (1..n) -> Nat] /\ base \in Nat OBVIOUS
<1>2. \A t \in Nat, i \in 1..n : G[<<t, i>>] = t + v[i] OBVIOUS
<1> HIDE DEF G, base
<1>3. PICK f : IsRun(f, Nat, n, base, G) BY <1>1, Iterated
<1>4. f \in [0..n -> Nat] /\ f[0] = base BY <1>3 DEF IsRun
<1>5. ASSUME NEW i \in 1..n PROVE f[i] = f[i - 1] + v[i]
  <2>1. f[i] = G[<<f[i - 1], i>>] BY <1>3 DEF IsRun
  <2>2. i - 1 \in 0..n OBVIOUS
  <2>3. f[i - 1] \in Nat BY <1>4, <2>2
  <2> QED BY <1>2, <2>1, <2>3
<1>6. SumsUp(f, v, n) BY <1>4, <1>5 DEF SumsUp, base
<1> QED BY <1>6

\* Sums of parts are the parts of the sum.
SumsUpWith(f, g, h, u, v, w, n) ==
  /\ n \in Nat /\ u \in [1..n -> Nat] /\ v \in [1..n -> Nat]
  /\ \A i \in 1..n : w[i] = u[i] + v[i]
  /\ SumsUp(f, u, n) /\ SumsUp(g, v, n) /\ SumsUp(h, w, n)

LEMMA SumsAdd ==
  ASSUME NEW f, NEW g, NEW h, NEW u, NEW v, NEW w, NEW n, SumsUpWith(f, g, h, u, v, w, n)
  PROVE  h[n] = f[n] + g[n]
<1> USE DEF SumsUpWith
<1> DEFINE P == {i \in 0..n : h[i] = f[i] + g[i]}
<1>1. /\ f \in [0..n -> Nat] /\ f[0] = 0 /\ \A i \in 1..n : f[i] = f[i - 1] + u[i]
      /\ g \in [0..n -> Nat] /\ g[0] = 0 /\ \A i \in 1..n : g[i] = g[i - 1] + v[i]
      /\ h \in [0..n -> Nat] /\ h[0] = 0 /\ \A i \in 1..n : h[i] = h[i - 1] + w[i]
  BY DEF SumsUp
<1>2. 0 \in P BY <1>1
<1>3. ASSUME NEW i \in 1..n, i - 1 \in P PROVE i \in P
  <2>1. i \in 0..n /\ i - 1 \in 0..n OBVIOUS
  <2>2. f[i - 1] \in Nat /\ g[i - 1] \in Nat /\ u[i] \in Nat /\ v[i] \in Nat BY <2>1, <1>1
  <2>3. h[i] = h[i - 1] + (u[i] + v[i]) BY <1>1
  <2>4. h[i - 1] = f[i - 1] + g[i - 1] BY <1>3
  <2>5. f[i] = f[i - 1] + u[i] /\ g[i] = g[i - 1] + v[i] BY <1>1
  <2> QED BY <2>1, <2>2, <2>3, <2>4, <2>5
<1> HIDE DEF P
<1>4. \A i \in 0..n : i \in P BY <1>2, <1>3, UpTo
<1>5. n \in P BY <1>4
<1> QED BY <1>5 DEF P
=============================================================================
