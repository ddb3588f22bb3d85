------------------------------ MODULE TadProofs -------------------------------
(***************************************************************************)
(* Proofs about TensorAlongDimension, for arrays of any number of axes, of *)
(* any lengths and strides.  An element is its coordinates, the cells of   *)
(* the model; a slice is the coordinates along the axes not asked for.     *)
(***************************************************************************)
EXTENDS TensorAlongDimension, FiniteSetTheorems, NaturalsInduction,
        WellFoundedInduction, TLAPS

-----------------------------------------------------------------------------
(* Naturals, recursion and division.                                       *)

\* A set of naturals that is not empty has a smallest element.
LEMMA LeastNatural ==
  ASSUME NEW S \in SUBSET Nat, S # {}
  PROVE  \E x \in S : \A y \in S : x <= y
<1> DEFINE Less == {ss \in Nat \X Nat : ss[1] < ss[2]}
<1>1. IsWellFoundedOn(Less, Nat)
  BY NatLessThanWellFounded DEF OpToRel
<1>2. \E x \in S : \A y \in S : ~ (<<y, x>> \in Less)
  <2> HIDE DEF Less
  <2> QED
    BY <1>1, WFMin
<1>3. ASSUME NEW x \in S, NEW y \in S, ~ (<<y, x>> \in Less)
      PROVE  x <= y
  <2>1. x \in Nat /\ y \in Nat
    OBVIOUS
  <2>2. ~ (y < x)
    BY <1>3, <2>1
  <2>3. QED
    BY <2>1, <2>2
<1>4. QED
  <2> HIDE DEF Less
  <2> QED
    BY <1>2, <1>3

\* A set of naturals that has 0, and with every number the next one, up to n.
LEMMA Climb ==
  ASSUME NEW n \in Nat, NEW G, 0 \in G,
         \A k \in 1 .. n : k - 1 \in G => k \in G
  PROVE  \A k \in 0 .. n : k \in G
<1> DEFINE Missing == {k \in 0 .. n : k \notin G}
<1> SUFFICES ASSUME Missing # {} PROVE FALSE
  OBVIOUS
<1>1. Missing \in SUBSET Nat
  OBVIOUS
<1>2. PICK k \in Missing : \A m \in Missing : k <= m
  <2> HIDE DEF Missing
  <2> QED
    BY <1>1, LeastNatural
<1>3. k \in 1 .. n /\ k - 1 \notin Missing
  <2>1. k \in 1 .. n /\ ~ (k <= k - 1)
    OBVIOUS
  <2>2. QED
    BY <1>2, <2>1
<1>4. k - 1 \in G
  BY <1>3
<1>5. QED
  BY <1>3, <1>4

\* The same from n down.
LEMMA Descend ==
  ASSUME NEW n \in Nat, NEW G, n \in G,
         \A k \in 1 .. n : k \in G => k - 1 \in G
  PROVE  \A k \in 0 .. n : k \in G
<1> DEFINE H == {k \in 0 .. n : n - k \in G}
<1>1. 0 \in H
  OBVIOUS
<1>2. ASSUME NEW k \in 1 .. n, k - 1 \in H PROVE k \in H
  <2>1. n - (k - 1) \in 1 .. n /\ (n - (k - 1)) - 1 = n - k /\ k \in 0 .. n
    OBVIOUS
  <2>2. n - (k - 1) \in G
    BY <1>2
  <2>3. n - k \in G
    BY <2>1, <2>2
  <2>4. QED
    BY <2>1, <2>3
<1>3. \A k \in 0 .. n : k \in H
  <2> HIDE DEF H
  <2> QED
    BY <1>1, <1>2, Climb
<1>4. ASSUME NEW k \in 0 .. n PROVE k \in G
  <2>1. n - k \in 0 .. n /\ n - (n - k) = k
    OBVIOUS
  <2>2. n - k \in H
    BY <1>3, <2>1
  <2>3. QED
    BY <2>1, <2>2
<1>5. QED
  BY <1>4

\* A recursive function has the values its equations say: f begins with start,
\* and step leads from each value to the next.
Runs(f, n, V, start, step) ==
  /\ f \in [0 .. n -> V] /\ f[0] = start
  /\ \A k \in 1 .. n : f[k] = step[<<k, f[k - 1]>>]

\* A function defined by recursion along 1 .. n exists.
LEMMA Recursion ==
  ASSUME NEW n \in Nat, NEW V, NEW start \in V,
         NEW step, step \in [(1 .. n) \X V -> V]
  PROVE  \E f : Runs(f, n, V, start, step)
<1> DEFINE Rec(f, m) == /\ f \in [0 .. m -> V] /\ f[0] = start
                        /\ \A k \in 1 .. m : f[k] = step[<<k, f[k - 1]>>]
           G == {m \in 0 .. n : \E f : Rec(f, m)}
<1>1. 0 \in G
  <2>1. Rec([k \in 0 .. 0 |-> start], 0)
    OBVIOUS
  <2> HIDE DEF Rec
  <2>2. QED
    BY <2>1
<1>2. ASSUME NEW m \in 1 .. n, m - 1 \in G PROVE m \in G
  <2>1. PICK f : Rec(f, m - 1)
    <3> HIDE DEF Rec
    <3> QED
      BY <1>2
  <2> DEFINE g == [k \in 0 .. m |->
                     IF k = m THEN step[<<m, f[m - 1]>>] ELSE f[k]]
  <2>2. f \in [0 .. m - 1 -> V] /\ m - 1 \in 0 .. m - 1
    BY <2>1
  <2>3. f[m - 1] \in V /\ step[<<m, f[m - 1]>>] \in V
    BY <2>2
  <2>4. g \in [0 .. m -> V]
    BY <2>2, <2>3
  <2>5. g[0] = start
    BY <2>1
  <2>6. ASSUME NEW k \in 1 .. m PROVE g[k] = step[<<k, g[k - 1]>>]
    <3>1. k - 1 \in 0 .. m /\ k - 1 # m /\ k \in 0 .. m
      OBVIOUS
    <3>2. g[k - 1] = f[k - 1]
      BY <3>1
    <3>3. CASE k = m
      BY <3>1, <3>2, <3>3
    <3>4. CASE k # m
      <4>1. k \in 1 .. m - 1
        BY <3>4
      <4>2. f[k] = step[<<k, f[k - 1]>>]
        BY <2>1, <4>1
      <4>3. QED
        BY <3>1, <3>2, <3>4, <4>2
    <3>5. QED
      BY <3>3, <3>4
  <2>7. Rec(g, m)
    <3> HIDE DEF g
    <3> QED
      BY <2>4, <2>5, <2>6
  <2> HIDE DEF Rec, g
  <2>8. QED
    BY <2>7
<1>3. \A m \in 0 .. n : m \in G
  <2> HIDE DEF G
  <2> QED
    BY <1>1, <1>2, Climb
<1>4. n \in G
  BY <1>3
<1>5. QED
  BY <1>4 DEF Runs

Accumulates(v, start, times, plus) ==
  /\ v \in [0 .. Len(times) -> Int] /\ v[0] = start
  /\ \A k \in 1 .. Len(times) : v[k] = v[k - 1] * times[k] + plus[k]

\* What a loop over axes computes obeys its equations.
LEMMA AccumulatedIs ==
  ASSUME NEW start \in Int, NEW times \in Seq(Int),
         NEW plus, \A k \in 1 .. Len(times) : plus[k] \in Int
  PROVE  Accumulates(Accumulated(start, times, plus), start, times, plus)
<1> DEFINE n == Len(times)
           Def(f) == f = [k \in 0 .. n |-> IF k = 0 THEN start
                                           ELSE f[k - 1] * times[k] + plus[k]]
           step == [p \in (1 .. n) \X Int |-> p[2] * times[p[1]] + plus[p[1]]]
           v == Accumulated(start, times, plus)
<1>1. n \in Nat
  OBVIOUS
<1>2. step \in [(1 .. n) \X Int -> Int]
  OBVIOUS
<1>3. PICK f : Runs(f, n, Int, start, step)
  <2> HIDE DEF n, step
  <2> QED
    BY <1>1, <1>2, Recursion
<1>a. f \in [0 .. n -> Int] /\ f[0] = start
      /\ \A k \in 1 .. n : f[k] = step[<<k, f[k - 1]>>]
  <2> HIDE DEF n, step
  <2> QED
    BY <1>3 DEF Runs
<1>4. ASSUME NEW k \in 1 .. n PROVE f[k] = f[k - 1] * times[k] + plus[k]
  <2>1. f[k - 1] \in Int
    BY <1>a
  <2>2. step[<<k, f[k - 1]>>] = f[k - 1] * times[k] + plus[k]
    BY <2>1
  <2>3. QED
    BY <1>a, <2>2
<1>5. Def(f)
  BY <1>a, <1>4
<1>6. v = CHOOSE g : Def(g)
  BY DEF Accumulated
<1>7. Def(v)
  <2> HIDE DEF Def, v
  <2> QED
    BY <1>5, <1>6
<1> HIDE DEF v, step
<1>8. /\ DOMAIN v = 0 .. n /\ v[0] = start
      /\ \A k \in 1 .. n : v[k] = v[k - 1] * times[k] + plus[k]
      /\ v = [k \in 0 .. n |-> v[k]]
  <2> HIDE DEF n
  <2>1. v = [k \in 0 .. n |-> IF k = 0 THEN start
                               ELSE v[k - 1] * times[k] + plus[k]]
    BY <1>7
  <2>2. DOMAIN v = 0 .. n
    BY <2>1
  <2>3. v = [k \in 0 .. n |-> v[k]]
    BY <2>1
  <2>4. v[0] = start
    BY <1>1, <2>1
  <2>5. ASSUME NEW k \in 1 .. n
        PROVE  v[k] = v[k - 1] * times[k] + plus[k]
    <3>1. k \in 0 .. n /\ k # 0
      BY <1>1
    <3>2. QED
      BY <2>1, <3>1, Zenon
  <2>6. QED
    BY <2>2, <2>3, <2>4, <2>5
<1> HIDE DEF Def
<1>9. \A k \in 0 .. n : k \in {j \in 0 .. n : v[j] \in Int}
  <2> DEFINE G == {j \in 0 .. n : v[j] \in Int}
  <2>1. 0 \in G
    BY <1>8
  <2>2. ASSUME NEW k \in 1 .. n, k - 1 \in G PROVE k \in G
    <3>1. times[k] \in Int /\ plus[k] \in Int /\ v[k - 1] \in Int
      BY <2>2
    <3>2. \A a, b, c \in Int : a * b + c \in Int
      OBVIOUS
    <3>3. v[k] \in Int
      <4>1. v[k] = v[k - 1] * times[k] + plus[k]
        BY <1>8
      <4> HIDE DEF n
      <4>2. QED
        BY <3>1, <3>2, <4>1
    <3>4. QED
      BY <3>3
  <2> HIDE DEF G, n
  <2>3. \A k \in 0 .. n : k \in G
    BY <1>1, <2>1, <2>2, Climb
  <2>4. QED
    BY <2>3 DEF G
<1>10. v \in [0 .. n -> Int]
  BY <1>8, <1>9
<1>11. QED
  BY <1>8, <1>10 DEF v, Accumulates

\* What a division leaves.
LEMMA Division ==
  ASSUME NEW a \in Nat, NEW b \in Nat \ {0}
  PROVE  /\ a \div b \in Nat /\ a % b \in 0 .. b - 1
         /\ a = b * (a \div b) + (a % b)
OBVIOUS

\* A product is smaller when a factor is.
LEMMA SmallerProduct ==
  ASSUME NEW a \in Int, NEW b \in Int, NEW c \in Nat \ {0}, c * a < c * b
  PROVE  a < b
<1> SUFFICES ASSUME b <= a PROVE c * b <= c * a
  OBVIOUS
<1>1. PICK d \in Nat : a = b + d
  BY a - b \in Nat
<1>2. c * a = c * b + c * d /\ c * d \in Nat
  BY <1>1
<1>3. QED
  BY <1>2

\* A quotient is the only number between whose multiples the dividend lies.
LEMMA Quotient ==
  ASSUME NEW a \in Nat, NEW b \in Nat \ {0}, NEW q \in Nat,
         b * q <= a, a < b * (q + 1)
  PROVE  q = a \div b /\ a % b = a - b * q
<1> DEFINE d == a \div b
<1>1. d \in Nat /\ b * d <= a /\ a < b * (d + 1)
  BY Division
<1>2. b * q < b * (d + 1) /\ b * d < b * (q + 1)
  BY <1>1
<1> HIDE DEF d
<1>3. q < d + 1 /\ d < q + 1
  BY <1>1, <1>2, SmallerProduct
<1>4. q = d
  BY <1>1, <1>3
<1>5. QED
  BY <1>4, Division DEF d

\* A greatest element of a non-empty finite sequence of integers, and the

-----------------------------------------------------------------------------
(* The loops over axes.                                                    *)

Lengths == Seq(Nat \ {0})
Digits(s, e) == \A a \in DOMAIN s : e[a] \in 0 .. s[a] - 1

\* Naturals multiply to a natural.
LEMMA Times ==
  ASSUME NEW a \in Nat, NEW b \in Nat
  PROVE  a * b \in Nat
OBVIOUS

LEMMA TimesPositive ==
  ASSUME NEW a \in Nat \ {0}, NEW b \in Nat \ {0}
  PROVE  a * b \in Nat \ {0} /\ a <= a * b
<1>1. PICK c \in Nat : b = c + 1
  BY b - 1 \in Nat
<1>2. a * b = a * c + a /\ a * c \in Nat
  BY <1>1
<1>3. QED
  BY <1>2

\* The products of the first lengths.
LEMMA ProductsIs ==
  ASSUME NEW s \in Lengths
  PROVE  /\ Products(s) \in [0 .. Len(s) -> Nat \ {0}]
         /\ Products(s)[0] = 1
         /\ \A k \in 1 .. Len(s) :
              Products(s)[k] = Products(s)[k - 1] * s[k]
<1> DEFINE n == Len(s)
           v == Products(s)
           none == [a \in DOMAIN s |-> 0]
<1>1. n \in Nat /\ DOMAIN s = 1 .. n /\ s \in Seq(Int)
  BY DEF Lengths
<1>2. \A k \in 1 .. n : s[k] \in Nat \ {0} /\ none[k] = 0
  BY <1>1 DEF Lengths
<1>3. /\ v \in [0 .. n -> Int] /\ v[0] = 1
      /\ \A k \in 1 .. n : v[k] = v[k - 1] * s[k] + none[k]
  <2>1. \A k \in 1 .. n : none[k] \in Int
    BY <1>2
  <2>2. s \in Seq(Int) /\ 1 \in Int /\ n = Len(s)
    BY <1>1
  <2>3. v = Accumulated(1, s, none)
    BY DEF Products, none
  <2> HIDE DEF none, n, v
  <2>4. \A k \in 1 .. Len(s) : none[k] \in Int
    BY <2>1, <2>2
  <2>5. Accumulates(v, 1, s, none)
    BY <2>2, <2>3, <2>4, AccumulatedIs
  <2>6. QED
    BY <2>2, <2>5 DEF Accumulates
<1> HIDE DEF v, none
<1>4. \A k \in 1 .. n : v[k] = v[k - 1] * s[k]
  <2> TAKE k \in 1 .. n
  <2>1. v[k - 1] \in Int /\ s[k] \in Int /\ none[k] = 0
    <3>1. k - 1 \in 0 .. n
      BY <1>1
    <3> HIDE DEF n
    <3>2. v[k - 1] \in Int
      BY <1>3, <3>1
    <3>3. QED
      BY <1>2, <3>2
  <2>2. \A a, b \in Int : a * b + 0 = a * b
    OBVIOUS
  <2>3. QED
    BY <1>3, <2>1, <2>2
<1>5. \A k \in 0 .. n : v[k] \in Nat \ {0}
  <2> DEFINE G == {k \in 0 .. n : v[k] \in Nat \ {0}}
  <2>1. 0 \in G
    BY <1>1, <1>3
  <2>2. ASSUME NEW k \in 1 .. n, k - 1 \in G PROVE k \in G
    <3>1. v[k - 1] \in Nat \ {0} /\ s[k] \in Nat \ {0}
      BY <1>2, <2>2
    <3>2. v[k - 1] * s[k] \in Nat \ {0}
      BY <3>1, TimesPositive
    <3>3. QED
      BY <1>4, <3>2
  <2> HIDE DEF G
  <2>3. \A k \in 0 .. n : k \in G
    BY <1>1, <2>1, <2>2, Climb
  <2>4. QED
    BY <2>3 DEF G
<1>6. QED
  BY <1>3, <1>4, <1>5 DEF v

\* The number of a cell, digit by digit.
Counts(s, e) == Accumulated(0, s, e)

\* The numbers of an element among those of the first axes.
LEMMA CountsIs ==
  ASSUME NEW s \in Lengths, NEW e, Digits(s, e)
  PROVE  /\ Counts(s, e) \in [0 .. Len(s) -> Nat]
         /\ Counts(s, e)[0] = 0
         /\ \A k \in 1 .. Len(s) :
              Counts(s, e)[k] = Counts(s, e)[k - 1] * s[k] + e[k]
<1> DEFINE n == Len(s)
           v == Counts(s, e)
<1>1. n \in Nat /\ DOMAIN s = 1 .. n /\ s \in Seq(Int)
  BY DEF Lengths
<1>2. \A k \in 1 .. n : s[k] \in Nat \ {0} /\ e[k] \in Nat
  BY <1>1 DEF Lengths, Digits
<1>3. /\ v \in [0 .. n -> Int] /\ v[0] = 0
      /\ \A k \in 1 .. n : v[k] = v[k - 1] * s[k] + e[k]
  <2>1. \A k \in 1 .. n : e[k] \in Int
    BY <1>2
  <2>2. v = Accumulated(0, s, e)
    BY DEF Counts
  <2> HIDE DEF v
  <2>3. Accumulates(v, 0, s, e)
    BY <1>1, <2>1, <2>2, AccumulatedIs
  <2>4. QED
    BY <2>3 DEF Accumulates
<1> HIDE DEF v
<1>4. \A k \in 0 .. n : v[k] \in Nat
  <2> DEFINE G == {k \in 0 .. n : v[k] \in Nat}
  <2>1. 0 \in G
    BY <1>1, <1>3
  <2>2. ASSUME NEW k \in 1 .. n, k - 1 \in G PROVE k \in G
    <3>1. v[k - 1] \in Nat /\ s[k] \in Nat /\ e[k] \in Nat
      BY <1>2, <2>2
    <3>2. v[k - 1] * s[k] \in Nat
      BY <3>1, Times
    <3>3. v[k] \in Nat
      BY <1>3, <3>1, <3>2
    <3>4. QED
      BY <3>3
  <2> HIDE DEF G
  <2>3. \A k \in 0 .. n : k \in G
    BY <1>1, <2>1, <2>2, Climb
  <2>4. QED
    BY <2>3 DEF G
<1>5. QED
  BY <1>3, <1>4 DEF v

\* How far a cell is from the beginning.
Way(s, t, e) ==
  Accumulated(0, [a \in DOMAIN s |-> 1],
              [a \in DOMAIN s |-> IF s[a] = 1 THEN 0 ELSE e[a] * t[a]])

\* The distance that getOffset() sums up, axis by axis.
LEMMA WayIs ==
  ASSUME NEW s \in Lengths, NEW t \in Seq(Int), Len(t) = Len(s),
         NEW e, Digits(s, e), NEW base \in Int
  PROVE  /\ Way(s, t, e) \in [0 .. Len(s) -> Int]
         /\ Way(s, t, e)[0] = 0
         /\ \A k \in 1 .. Len(s) :
              Way(s, t, e)[k] = Way(s, t, e)[k - 1] + e[k] * t[k]
         /\ Offset(base, s, t, e) = base + Way(s, t, e)[Len(s)]
<1> DEFINE n == Len(s)
           ones == [a \in DOMAIN s |-> 1]
           plus == [a \in DOMAIN s |-> IF s[a] = 1 THEN 0 ELSE e[a] * t[a]]
           v == Accumulated(0, ones, plus)
           w == Accumulated(base, ones, plus)
<1>1. /\ n \in Nat /\ DOMAIN s = 1 .. n /\ ones \in Seq(Int)
      /\ Len(ones) = n
  <2>1. n \in Nat /\ DOMAIN s = 1 .. n
    BY DEF Lengths
  <2>2. QED
    BY <2>1
<1>2. \A k \in 1 .. n : /\ s[k] \in Nat \ {0} /\ e[k] \in 0 .. s[k] - 1
                        /\ t[k] \in Int
  BY <1>1 DEF Lengths, Digits
<1>3. \A k \in 1 .. n : plus[k] = e[k] * t[k] /\ plus[k] \in Int
                        /\ ones[k] = 1
  <2> TAKE k \in 1 .. n
  <2>1. e[k] \in Int /\ t[k] \in Int
    BY <1>2
  <2>2. e[k] * t[k] \in Int /\ 0 * t[k] = 0
    BY <2>1
  <2>3. s[k] = 1 => e[k] = 0
    BY <1>2
  <2>4. QED
    BY <1>1, <2>2, <2>3
<1>4. /\ v \in [0 .. n -> Int] /\ v[0] = 0
      /\ \A k \in 1 .. n : v[k] = v[k - 1] * ones[k] + plus[k]
  <2> HIDE DEF ones, plus
  <2>1. Accumulates(v, 0, ones, plus)
    BY <1>1, <1>3, AccumulatedIs
  <2> HIDE DEF v, n
  <2>2. QED
    BY <1>1, <2>1 DEF Accumulates
<1>5. /\ w \in [0 .. n -> Int] /\ w[0] = base
      /\ \A k \in 1 .. n : w[k] = w[k - 1] * ones[k] + plus[k]
  <2> HIDE DEF ones, plus
  <2>1. Accumulates(w, base, ones, plus)
    BY <1>1, <1>3, AccumulatedIs
  <2> HIDE DEF w, n
  <2>2. QED
    BY <1>1, <2>1 DEF Accumulates
<1>6. v = Way(s, t, e)
  BY DEF Way
<1>7. w[n] = Offset(base, s, t, e)
  BY DEF Offset
<1> HIDE DEF v, w, plus, ones
<1>8. \A k \in 1 .. n : /\ v[k] = v[k - 1] + e[k] * t[k]
                        /\ w[k] = w[k - 1] + e[k] * t[k]
  <2> TAKE k \in 1 .. n
  <2>0. k - 1 \in 0 .. n
    BY <1>1
  <2>1. v[k - 1] \in Int /\ w[k - 1] \in Int /\ plus[k] \in Int
        /\ ones[k] = 1 /\ plus[k] = e[k] * t[k]
    BY <1>3, <1>4, <1>5, <2>0, Zenon
  <2>2. \A a, b \in Int : a * 1 + b = a + b
    OBVIOUS
  <2>3. v[k] = v[k - 1] + plus[k] /\ w[k] = w[k - 1] + plus[k]
    BY <1>4, <1>5, <2>1, <2>2
  <2>4. QED
    BY <2>1, <2>3
<1>9. \A k \in 0 .. n : k \in {j \in 0 .. n : w[j] = base + v[j]}
  <2> DEFINE G == {j \in 0 .. n : w[j] = base + v[j]}
  <2>1. 0 \in G
    BY <1>1, <1>4, <1>5
  <2>2. ASSUME NEW k \in 1 .. n, k - 1 \in G PROVE k \in G
    <3>0. k - 1 \in 0 .. n
      BY <1>1
    <3>1. v[k - 1] \in Int /\ plus[k] \in Int /\ plus[k] = e[k] * t[k]
      BY <1>3, <1>4, <3>0, Zenon
    <3>2. w[k - 1] = base + v[k - 1]
      BY <2>2
    <3>3. w[k] = w[k - 1] + plus[k] /\ v[k] = v[k - 1] + plus[k]
      BY <1>8, <3>1
    <3>4. w[k] = base + v[k]
      BY <3>1, <3>2, <3>3
    <3>5. QED
      BY <3>4
  <2> HIDE DEF G
  <2>3. \A k \in 0 .. n : k \in G
    BY <1>1, <2>1, <2>2, Climb
  <2>4. QED
    BY <2>3 DEF G
<1>10. n \in 0 .. n
  BY <1>1
<1>11. QED
  BY <1>4, <1>6, <1>7, <1>8, <1>9, <1>10

\* What no step changes stays the same.
LEMMA Idle ==
  ASSUME NEW n \in Nat, NEW v, NEW a \in 0 .. n, NEW b \in 0 .. n, a <= b,
         \A k \in a + 1 .. b : v[k] = v[k - 1]
  PROVE  v[b] = v[a]
<1> DEFINE G == {j \in 0 .. b - a : v[a + j] = v[a]}
<1>1. 0 \in G
  OBVIOUS
<1>2. ASSUME NEW j \in 1 .. b - a, j - 1 \in G PROVE j \in G
  <2>1. a + j \in a + 1 .. b /\ (a + j) - 1 = a + (j - 1) /\ j \in 0 .. b - a
    OBVIOUS
  <2>2. v[a + j] = v[(a + j) - 1]
    BY <2>1
  <2>3. v[a + (j - 1)] = v[a]
    BY <1>2
  <2>4. v[a + j] = v[a]
    BY <2>1, <2>2, <2>3
  <2>5. QED
    BY <2>1, <2>4
<1>3. b - a \in Nat /\ b - a \in 0 .. b - a /\ a + (b - a) = b
  OBVIOUS
<1> HIDE DEF G
<1>4. \A j \in 0 .. b - a : j \in G
  BY <1>1, <1>2, <1>3, Climb
<1>5. QED
  BY <1>3, <1>4 DEF G

\* A sequence read from its end.
LEMMA ReverseIs ==
  ASSUME NEW V, NEW s \in Seq(V)
  PROVE  /\ Seqs!Reverse(s) \in Seq(V) /\ Len(Seqs!Reverse(s)) = Len(s)
         /\ \A k \in 1 .. Len(s) : Seqs!Reverse(s)[k] = s[Len(s) - k + 1]
<1>1. Seqs!Reverse(s) = [k \in 1 .. Len(s) |-> s[Len(s) - k + 1]]
  BY DEF Seqs!Reverse
<1>2. \A k \in 1 .. Len(s) : Len(s) - k + 1 \in 1 .. Len(s)
  OBVIOUS
<1>3. QED
  BY <1>1, <1>2

\* A digit less than s before a number less than r.
LEMMA DigitBefore ==
  ASSUME NEW s \in Nat \ {0}, NEW r \in Nat \ {0},
         NEW e \in 0 .. s - 1, NEW i \in 0 .. r - 1
  PROVE  e * r + i \in 0 .. r * s - 1
<1>1. PICK d \in Nat : s = e + d + 1
  BY (s - e) - 1 \in Nat
<1>2. e * r \in Nat /\ d * r \in Nat
  BY <1>1, Times
<1>3. r * s = e * r + d * r + r
  BY <1>1
<1>4. QED
  BY <1>2, <1>3

\* The number of an element is less than the number of elements.
LEMMA CountsBound ==
  ASSUME NEW s \in Lengths, NEW e, Digits(s, e)
  PROVE  \A k \in 0 .. Len(s) : Counts(s, e)[k] < Products(s)[k]
<1> DEFINE n == Len(s)
           v == Counts(s, e)
           w == Products(s)
           G == {k \in 0 .. n : v[k] < w[k]}
<1>1. /\ n \in Nat
      /\ \A k \in 1 .. n : s[k] \in Nat \ {0} /\ e[k] \in 0 .. s[k] - 1
  BY DEF Lengths, Digits
<1>2. /\ v \in [0 .. n -> Nat] /\ v[0] = 0
      /\ \A k \in 1 .. n : v[k] = v[k - 1] * s[k] + e[k]
  BY CountsIs
<1>3. /\ w \in [0 .. n -> Nat \ {0}] /\ w[0] = 1
      /\ \A k \in 1 .. n : w[k] = w[k - 1] * s[k]
  BY ProductsIs
<1> HIDE DEF v, w
<1>4. 0 \in G
  <2>1. 0 \in 0 .. n
    BY <1>1
  <2>2. v[0] < w[0]
    BY <1>2, <1>3
  <2>3. QED
    BY <2>1, <2>2
<1>5. ASSUME NEW k \in 1 .. n, k - 1 \in G PROVE k \in G
  <2>1. k - 1 \in 0 .. n /\ k \in 0 .. n
    BY <1>1
  <2>2. /\ v[k - 1] \in Nat /\ w[k - 1] \in Nat \ {0}
        /\ v[k - 1] \in 0 .. w[k - 1] - 1
    <3>1. v[k - 1] \in Nat /\ w[k - 1] \in Nat \ {0}
      BY <1>2, <1>3, <2>1
    <3>2. v[k - 1] < w[k - 1]
      BY <1>5
    <3> HIDE DEF G
    <3>3. QED
      BY <3>1, <3>2
  <2>3. s[k] \in Nat \ {0} /\ e[k] \in 0 .. s[k] - 1
    BY <1>1
  <2>4. v[k - 1] * s[k] + e[k] \in 0 .. s[k] * w[k - 1] - 1
    BY <2>2, <2>3, DigitBefore
  <2>5. s[k] * w[k - 1] = w[k - 1] * s[k]
    BY <2>2, <2>3
  <2>6. v[k] \in 0 .. w[k] - 1
    BY <1>2, <1>3, <2>4, <2>5
  <2>7. v[k] < w[k]
    <3>1. v[k] \in Nat /\ w[k] \in Nat
      BY <1>2, <1>3, <2>1
    <3>2. QED
      BY <2>6, <3>1
  <2>8. QED
    BY <2>1, <2>7
<1>6. \A k \in 0 .. n : k \in G
  <2> HIDE DEF G
  <2> QED
    BY <1>1, <1>4, <1>5, Climb
<1>7. QED
  BY <1>6 DEF v, w

\* The coordinates of the cell with a number are the digits of that number.
LEMMA CoordinatesAre ==
  ASSUME NEW s \in Lengths, NEW e, Digits(s, e)
  PROVE  \A a \in 1 .. Len(s) :
           CCoordinates(s, Counts(s, e)[Len(s)])[a] = e[a]
<1> DEFINE n == Len(s)
           v == Counts(s, e)
           w == Products(Seqs!Reverse(s))
           Rest(k, r) == r \in 0 .. w[n - k] - 1 /\ v[n] = v[k] * w[n - k] + r
           G == {k \in 0 .. n : \E r : Rest(k, r)}
<1>1. n \in Nat /\ DOMAIN s = 1 .. n
      /\ \A k \in 1 .. n : s[k] \in Nat \ {0} /\ e[k] \in 0 .. s[k] - 1
  BY DEF Lengths, Digits
<1>2. /\ v \in [0 .. n -> Nat] /\ v[0] = 0
      /\ \A k \in 1 .. n : v[k] = v[k - 1] * s[k] + e[k]
  BY CountsIs
<1>3. /\ Seqs!Reverse(s) \in Lengths /\ Len(Seqs!Reverse(s)) = n
      /\ \A k \in 1 .. n : Seqs!Reverse(s)[k] = s[n - k + 1]
  BY ReverseIs DEF Lengths
<1>4. /\ w \in [0 .. n -> Nat \ {0}] /\ w[0] = 1
      /\ \A k \in 1 .. n : w[k] = w[k - 1] * s[n - k + 1]
  <2>1. /\ w \in [0 .. n -> Nat \ {0}] /\ w[0] = 1
        /\ \A k \in 1 .. n : w[k] = w[k - 1] * Seqs!Reverse(s)[k]
    BY <1>3, ProductsIs
  <2> HIDE DEF w, n
  <2>2. QED
    BY <1>3, <2>1
<1> HIDE DEF v, w
<1>5. n \in G
  <2>1. n \in 0 .. n /\ n - n = 0 /\ v[n] \in Nat
    BY <1>1, <1>2
  <2>2. 0 \in 0 .. w[n - n] - 1 /\ v[n] = v[n] * w[n - n] + 0
    BY <1>4, <2>1
  <2>3. QED
    BY <2>1, <2>2
<1>6. ASSUME NEW k \in 1 .. n, k \in G PROVE k - 1 \in G
  <2>1. k - 1 \in 0 .. n /\ n - k \in 0 .. n /\ n - (k - 1) \in 1 .. n
        /\ (n - (k - 1)) - 1 = n - k /\ n - (n - (k - 1)) + 1 = k
    BY <1>1
  <2>2. PICK r : Rest(k, r)
    BY <1>6
  <2>3. /\ v[k - 1] \in Nat /\ w[n - k] \in Nat \ {0} /\ s[k] \in Nat \ {0}
        /\ e[k] \in 0 .. s[k] - 1 /\ r \in 0 .. w[n - k] - 1
    BY <1>1, <1>2, <1>4, <2>1, <2>2
  <2>4. w[n - (k - 1)] = w[n - k] * s[k]
    BY <1>4, <2>1
  <2>5. v[n] = (v[k - 1] * s[k] + e[k]) * w[n - k] + r
    BY <1>2, <2>2
  <2>6. v[n] = v[k - 1] * (w[n - k] * s[k]) + (e[k] * w[n - k] + r)
    <3>1. \A p, q, x, y, z \in Int :
            (p * q + x) * y + z = p * (y * q) + (x * y + z)
      <4> TAKE p, q, x, y, z \in Int
      <4>1. (p * q + x) * y = (p * q) * y + x * y
        OBVIOUS
      <4>2. (p * q) * y = p * (y * q)
        OBVIOUS
      <4>3. (p * q) * y \in Int /\ x * y \in Int
        OBVIOUS
      <4>4. QED
        BY <4>1, <4>2, <4>3
    <3>2. v[k - 1] \in Int /\ s[k] \in Int /\ e[k] \in Int
          /\ w[n - k] \in Int /\ r \in Int
      BY <2>3
    <3>3. (v[k - 1] * s[k] + e[k]) * w[n - k] + r
            = v[k - 1] * (w[n - k] * s[k]) + (e[k] * w[n - k] + r)
      <4> DEFINE p == v[k - 1]
                 q == s[k]
                 x == e[k]
                 y == w[n - k]
      <4>1. p \in Int /\ q \in Int /\ x \in Int /\ y \in Int /\ r \in Int
        BY <3>2
      <4> HIDE DEF p, q, x, y
      <4>2. (p * q + x) * y + r = p * (y * q) + (x * y + r)
        BY ONLY <3>1, <4>1
      <4>3. QED
        BY <4>2 DEF p, q, x, y
    <3>4. QED
      BY <2>5, <3>3, Zenon
  <2>7. e[k] * w[n - k] + r \in 0 .. w[n - k] * s[k] - 1
    BY <2>3, DigitBefore
  <2>8. Rest(k - 1, e[k] * w[n - k] + r)
    BY <2>4, <2>6, <2>7
  <2> HIDE DEF Rest
  <2>9. QED
    BY <2>1, <2>8
<1>7. \A k \in 0 .. n : k \in G
  <2> HIDE DEF G
  <2> QED
    BY <1>1, <1>5, <1>6, Descend
<1>8. ASSUME NEW a \in 1 .. n
      PROVE  CCoordinates(s, v[n])[a] = e[a]
  <2>1. n - a \in 0 .. n /\ a \in 0 .. n /\ a - 1 \in 0 .. n
    BY <1>1
  <2>2. CStrides(s)[a] = w[n - a]
    BY <1>1 DEF CStrides, w
  <2>3. CCoordinates(s, v[n])[a] = (v[n] \div w[n - a]) % s[a]
    BY <1>1, <2>2 DEF CCoordinates
  <2>4. PICK r : Rest(a, r)
    BY <1>7, <2>1
  <2>5. /\ v[a] \in Nat /\ v[n] \in Nat /\ w[n - a] \in Nat \ {0}
        /\ v[a - 1] \in Nat /\ r \in 0 .. w[n - a] - 1
        /\ s[a] \in Nat \ {0} /\ e[a] \in 0 .. s[a] - 1
    <3>1. n \in 0 .. n
      BY <1>1
    <3>2. v[a] \in Nat /\ v[n] \in Nat /\ v[a - 1] \in Nat
      BY <1>2, <2>1, <3>1
    <3>3. w[n - a] \in Nat \ {0} /\ r \in 0 .. w[n - a] - 1
      BY <1>4, <2>1, <2>4
    <3>4. QED
      BY <1>1, <3>2, <3>3
  <2>6. v[n] = v[a] * w[n - a] + r
    BY <2>4
  <2>7. w[n - a] * v[a] <= v[n] /\ v[n] < w[n - a] * (v[a] + 1)
    <3>1. \A p, q \in Nat : \A z \in 0 .. q - 1 :
            q * p <= p * q + z /\ p * q + z < q * (p + 1)
      <4> TAKE p, q \in Nat
      <4> TAKE z \in 0 .. q - 1
      <4>1. p * q = q * p /\ q * (p + 1) = q * p + q /\ q * p \in Nat
        OBVIOUS
      <4>2. QED
        BY <4>1
    <3>2. v[a] \in Nat /\ w[n - a] \in Nat /\ r \in 0 .. w[n - a] - 1
      BY <2>5
    <3>3. QED
      BY <2>6, <3>1, <3>2
  <2>8. v[n] \div w[n - a] = v[a]
    BY <2>5, <2>7, Quotient
  <2>9. v[a] = v[a - 1] * s[a] + e[a]
    BY <1>2
  <2>10. s[a] * v[a - 1] <= v[a] /\ v[a] < s[a] * (v[a - 1] + 1)
         /\ v[a] - s[a] * v[a - 1] = e[a]
    <3>1. \A p, q \in Nat : \A z \in 0 .. q - 1 :
            /\ q * p <= p * q + z /\ p * q + z < q * (p + 1)
            /\ (p * q + z) - q * p = z
      <4> TAKE p, q \in Nat
      <4> TAKE z \in 0 .. q - 1
      <4>1. p * q = q * p /\ q * (p + 1) = q * p + q /\ q * p \in Nat
        OBVIOUS
      <4>2. QED
        BY <4>1
    <3>2. v[a - 1] \in Nat /\ s[a] \in Nat /\ e[a] \in 0 .. s[a] - 1
      BY <2>5
    <3>3. QED
      BY <2>9, <3>1, <3>2
  <2>11. v[a] % s[a] = v[a] - s[a] * v[a - 1]
    BY <2>5, <2>10, Quotient
  <2>12. v[a] % s[a] = e[a]
    BY <2>10, <2>11
  <2>13. QED
    BY <2>3, <2>8, <2>12
<1>9. QED
  BY <1>8 DEF v

\* What a loop over the coordinates of an element reads.
LEMMA Reading ==
  ASSUME NEW s \in Lengths, NEW t \in Seq(Int), Len(t) = Len(s),
         NEW e, Digits(s, e), NEW base \in Int
  PROVE  Offset(base, s, t, CCoordinates(s, Counts(s, e)[Len(s)]))
           = base + Way(s, t, e)[Len(s)]
<1> DEFINE c == CCoordinates(s, Counts(s, e)[Len(s)])
<1>1. DOMAIN s = 1 .. Len(s)
  BY DEF Lengths
<1>2. \A a \in 1 .. Len(s) : c[a] = e[a]
  BY CoordinatesAre
<1> HIDE DEF c
<1>3. Way(s, t, c) = Way(s, t, e)
  <2>1. [a \in DOMAIN s |-> IF s[a] = 1 THEN 0 ELSE c[a] * t[a]]
          = [a \in DOMAIN s |-> IF s[a] = 1 THEN 0 ELSE e[a] * t[a]]
    BY <1>1, <1>2
  <2>2. QED
    BY <2>1 DEF Way
<1>4. Digits(s, c)
  BY <1>1, <1>2 DEF Digits
<1>5. Offset(base, s, t, c) = base + Way(s, t, c)[Len(s)]
  BY <1>4, WayIs
<1>6. QED
  BY <1>3, <1>5 DEF c

\* Products only grow, and stay the same only where the lengths are one.
LEMMA ProductsGrow ==
  ASSUME NEW s \in Lengths, NEW k \in 0 .. Len(s), NEW l \in k .. Len(s)
  PROVE  /\ Products(s)[k] <= Products(s)[l]
         /\ Products(s)[k] = Products(s)[l]
              => \A j \in k + 1 .. l : s[j] = 1
<1> DEFINE n == Len(s)
           v == Products(s)
<1>1. n \in Nat /\ \A j \in 1 .. n : s[j] \in Nat \ {0}
  BY DEF Lengths
<1>2. /\ v \in [0 .. n -> Nat \ {0}]
      /\ \A j \in 1 .. n : v[j] = v[j - 1] * s[j]
  BY ProductsIs
<1> HIDE DEF v
<1>3. \A j \in 1 .. n : v[j - 1] <= v[j] /\ (v[j - 1] = v[j] => s[j] = 1)
  <2> TAKE j \in 1 .. n
  <2>1. v[j - 1] \in Nat \ {0} /\ s[j] \in Nat \ {0}
    BY <1>1, <1>2
  <2> DEFINE d == s[j] - 1
  <2>2. d \in Nat /\ s[j] = d + 1
    BY <2>1
  <2>3. v[j] = v[j - 1] * d + v[j - 1] /\ v[j - 1] * d \in Nat
    <3>1. \A x, y \in Nat : x * (y + 1) = x * y + x /\ x * y \in Nat
      OBVIOUS
    <3>2. v[j] = v[j - 1] * s[j]
      BY <1>2
    <3> HIDE DEF d
    <3>3. QED
      BY <2>1, <2>2, <3>1, <3>2
  <2>4. d # 0 => v[j - 1] * d \in Nat \ {0}
    BY <2>1, TimesPositive
  <2>5. QED
    BY <2>1, <2>2, <2>3, <2>4
<1>4. ASSUME NEW a \in 0 .. n, NEW b \in a .. n PROVE v[a] <= v[b]
  <2> DEFINE G == {j \in 0 .. b - a : v[a] <= v[a + j]}
  <2>1. b - a \in Nat /\ a \in Nat /\ b <= n
    BY <1>1
  <2>2. 0 \in G
    <3>1. a + 0 = a /\ v[a] \in Nat
      BY <1>2, <2>1
    <3>2. QED
      BY <2>1, <3>1
  <2>3. ASSUME NEW j \in 1 .. b - a, j - 1 \in G PROVE j \in G
    <3>1. j \in 0 .. b - a /\ a + j \in 1 .. n /\ (a + j) - 1 = a + (j - 1)
          /\ a + (j - 1) \in 0 .. n /\ a + j \in 0 .. n
      BY <2>1
    <3>2. v[a + (j - 1)] <= v[a + j] /\ v[a] <= v[a + (j - 1)]
      BY <1>3, <2>3, <3>1
    <3>3. v[a] \in Nat /\ v[a + j] \in Nat /\ v[a + (j - 1)] \in Nat
      BY <1>2, <3>1
    <3>4. QED
      BY <3>1, <3>2, <3>3
  <2> HIDE DEF G
  <2>4. \A j \in 0 .. b - a : j \in G
    BY <2>1, <2>2, <2>3, Climb
  <2>5. b - a \in 0 .. b - a /\ a + (b - a) = b
    BY <2>1
  <2>6. QED
    BY <2>4, <2>5 DEF G
<1>5. ASSUME v[k] = v[l], NEW j \in k + 1 .. l PROVE s[j] = 1
  <2>1. /\ j \in 1 .. n /\ j - 1 \in 0 .. n /\ j \in 0 .. n /\ l \in 0 .. n
        /\ j - 1 \in k .. n /\ l \in j .. n
    BY <1>1
  <2>2. v[k] <= v[j - 1] /\ v[j - 1] <= v[j] /\ v[j] <= v[l]
    BY <1>3, <1>4, <2>1
  <2>3. v[k] \in Nat /\ v[j - 1] \in Nat /\ v[j] \in Nat
    BY <1>2, <2>1
  <2>4. QED
    BY <1>3, <1>5, <2>1, <2>2, <2>3
<1>6. QED
  BY <1>1, <1>4, <1>5 DEF v

\* The order of the lengths does not change their product.
LEMMA ProductOfReverse ==
  ASSUME NEW s \in Lengths
  PROVE  Product(Seqs!Reverse(s)) = Product(s)
<1> DEFINE n == Len(s)
           v == Products(s)
           w == Products(Seqs!Reverse(s))
           G == {k \in 0 .. n : v[k] * w[n - k] = v[n]}
<1>1. n \in Nat /\ \A k \in 1 .. n : s[k] \in Nat \ {0}
  BY DEF Lengths
<1>2. /\ v \in [0 .. n -> Nat \ {0}] /\ v[0] = 1
      /\ \A k \in 1 .. n : v[k] = v[k - 1] * s[k]
  BY ProductsIs
<1>3. /\ Seqs!Reverse(s) \in Lengths /\ Len(Seqs!Reverse(s)) = n
      /\ \A k \in 1 .. n : Seqs!Reverse(s)[k] = s[n - k + 1]
  BY ReverseIs DEF Lengths
<1>4. /\ w \in [0 .. n -> Nat \ {0}] /\ w[0] = 1
      /\ \A k \in 1 .. n : w[k] = w[k - 1] * s[n - k + 1]
  <2>1. /\ w \in [0 .. n -> Nat \ {0}] /\ w[0] = 1
        /\ \A k \in 1 .. n : w[k] = w[k - 1] * Seqs!Reverse(s)[k]
    BY <1>3, ProductsIs
  <2> HIDE DEF w, n
  <2>2. QED
    BY <1>3, <2>1
<1> HIDE DEF v, w
<1>5. n \in G
  <2>1. n \in 0 .. n /\ n - n = 0 /\ v[n] \in Nat
    BY <1>1, <1>2
  <2>2. QED
    BY <1>4, <2>1
<1>6. ASSUME NEW k \in 1 .. n, k \in G PROVE k - 1 \in G
  <2>1. k - 1 \in 0 .. n /\ n - k \in 0 .. n /\ n - (k - 1) \in 1 .. n
        /\ (n - (k - 1)) - 1 = n - k /\ n - (n - (k - 1)) + 1 = k
    BY <1>1
  <2>2. w[n - (k - 1)] = w[n - k] * s[k] /\ v[k] = v[k - 1] * s[k]
    BY <1>2, <1>4, <2>1
  <2>3. v[k - 1] \in Int /\ s[k] \in Int /\ w[n - k] \in Int
    <3>1. s[k] \in Int
      BY <1>1
    <3>2. v[k - 1] \in Nat /\ w[n - k] \in Nat
      BY <1>2, <1>4, <2>1
    <3>3. QED
      BY <3>1, <3>2
  <2>4. \A x, y, z \in Int : (x * y) * z = x * (z * y)
    OBVIOUS
  <2>5. v[k] * w[n - k] = v[k - 1] * w[n - (k - 1)]
    BY <2>2, <2>3, <2>4
  <2>6. QED
    BY <1>6, <2>1, <2>5
<1> HIDE DEF G
<1>7. \A k \in 0 .. n : k \in G
  BY <1>1, <1>5, <1>6, Descend
<1>8. v[0] * w[n - 0] = v[n] /\ n - 0 = n /\ w[n] \in Nat
  BY <1>1, <1>4, <1>7 DEF G
<1>9. w[n] = v[n]
  BY <1>2, <1>8
<1>10. QED
  BY <1>3, <1>9 DEF Product, v, w

-----------------------------------------------------------------------------
(* The axes of a set in order, and what is summed over them.               *)

\* q counts those of the first k axes that are in D, and L lists them.
Lists(L, q, n, D) ==
  /\ L \in Seq(D \intersect (1 .. n)) /\ Len(L) <= n
  /\ q \in [0 .. n -> 0 .. Len(L)] /\ q[0] = 0 /\ q[n] = Len(L)
  /\ \A k \in 1 .. n : /\ k \in D => q[k] = q[k - 1] + 1 /\ L[q[k]] = k
                       /\ k \notin D => q[k] = q[k - 1]

Finds(f, n, D) ==
  /\ f \in [0 .. n -> Seq(D \intersect (1 .. n))] /\ f[0] = <<>>
  /\ \A k \in 1 .. n :
       f[k] = IF k \in D THEN Append(f[k - 1], k) ELSE f[k - 1]

\* The loop that lists the axes of a set obeys its equations.
LEMMA AscendingFinds ==
  ASSUME NEW n \in Nat, NEW D
  PROVE  \E f : Finds(f, n, D) /\ Ascending(n, D) = f[n]
<1> DEFINE V == Seq(D \intersect (1 .. n))
           Next1(k, y) == IF k \in D THEN Append(y, k) ELSE y
           step == [p \in (1 .. n) \X V |-> Next1(p[1], p[2])]
           Def(f) == f = [k \in 0 .. n |->
                            IF k = 0 THEN <<>>
                            ELSE IF k \in D THEN Append(f[k - 1], k)
                            ELSE f[k - 1]]
           v == CHOOSE f : Def(f)
<1>1. <<>> \in V
  OBVIOUS
<1>2. step \in [(1 .. n) \X V -> V]
  <2>1. ASSUME NEW k \in 1 .. n, NEW y \in V PROVE Next1(k, y) \in V
    OBVIOUS
  <2> HIDE DEF V, Next1
  <2>2. QED
    BY <2>1
<1>3. PICK f : Runs(f, n, V, <<>>, step)
  <2> HIDE DEF V, step
  <2> QED
    BY <1>1, <1>2, Recursion
<1>4. f \in [0 .. n -> V] /\ f[0] = <<>>
      /\ \A k \in 1 .. n : f[k] = step[<<k, f[k - 1]>>]
  <2> HIDE DEF V, step
  <2> QED
    BY <1>3 DEF Runs
<1>5. \A k \in 1 .. n : f[k] = Next1(k, f[k - 1])
  <2> TAKE k \in 1 .. n
  <2>1. f[k - 1] \in V /\ f[k] = step[<<k, f[k - 1]>>]
    <3> HIDE DEF V, step
    <3> QED
      BY <1>4
  <2>2. step[<<k, f[k - 1]>>] = Next1(k, f[k - 1])
    <3> HIDE DEF V, Next1
    <3> QED
      BY <2>1
  <2>3. QED
    BY <2>1, <2>2
<1>6. Def(f)
  <2>1. f = [k \in 0 .. n |-> f[k]]
    <3> HIDE DEF V, step
    <3> QED
      BY <1>4
  <2>2. \A k \in 0 .. n :
          f[k] = IF k = 0 THEN <<>>
                 ELSE IF k \in D THEN Append(f[k - 1], k) ELSE f[k - 1]
    <3> TAKE k \in 0 .. n
    <3>1. CASE k = 0
      <4> HIDE DEF V, step
      <4> QED
        BY <1>4, <3>1
    <3>2. CASE k # 0
      <4>1. k \in 1 .. n
        BY <3>2
      <4>2. f[k] = Next1(k, f[k - 1])
        BY <1>5, <4>1
      <4>3. QED
        BY <3>2, <4>2
    <3>3. QED
      BY <3>1, <3>2
  <2>3. QED
    BY <2>1, <2>2, Zenon
<1>7. Def(v)
  <2> HIDE DEF Def
  <2> QED
    BY <1>6
<1>8. Ascending(n, D) = v[n]
  BY DEF Ascending
<1>9. DOMAIN v = 0 .. n /\ v[0] = <<>>
      /\ \A k \in 1 .. n : v[k] = Next1(k, v[k - 1])
  <2> HIDE DEF v
  <2>1. v = [k \in 0 .. n |-> IF k = 0 THEN <<>>
                              ELSE IF k \in D THEN Append(v[k - 1], k)
                              ELSE v[k - 1]]
    BY <1>7
  <2>2. DOMAIN v = 0 .. n /\ 0 \in 0 .. n
    BY <2>1
  <2>3. v[0] = <<>>
    BY <2>1, <2>2, Zenon
  <2>4. ASSUME NEW k \in 1 .. n PROVE v[k] = Next1(k, v[k - 1])
    <3>1. k \in 0 .. n /\ k # 0
      OBVIOUS
    <3>2. QED
      BY <2>1, <3>1, Zenon
  <2>5. QED
    BY <2>2, <2>3, <2>4
<1>10. \A k \in 0 .. n : v[k] = f[k]
  <2> DEFINE G == {k \in 0 .. n : v[k] = f[k]}
  <2>1. 0 \in G
    BY <1>4, <1>9
  <2>2. ASSUME NEW k \in 1 .. n, k - 1 \in G PROVE k \in G
    <3> HIDE DEF Next1, v, V, step
    <3> QED
      BY <1>5, <1>9, <2>2
  <2> HIDE DEF G
  <2>3. \A k \in 0 .. n : k \in G
    BY <2>1, <2>2, Climb
  <2>4. QED
    BY <2>3 DEF G
<1> HIDE DEF v, step
<1>11. Finds(f, n, D)
  BY <1>4, <1>5 DEF Finds
<1>12. QED
  BY <1>8, <1>10, <1>11

\* It lists every axis of the set once.
LEMMA AscendingLists ==
  ASSUME NEW n \in Nat, NEW D
  PROVE  \E q : Lists(Ascending(n, D), q, n, D)
<1> DEFINE V == D \intersect (1 .. n)
           L == Ascending(n, D)
<1>1. PICK f : Finds(f, n, D) /\ L = f[n]
  BY AscendingFinds
<1>2. /\ f \in [0 .. n -> Seq(V)] /\ f[0] = <<>>
      /\ \A k \in 1 .. n :
           f[k] = IF k \in D THEN Append(f[k - 1], k) ELSE f[k - 1]
  BY <1>1 DEF Finds
<1> DEFINE q == [k \in 0 .. n |-> Len(f[k])]
           Prefix(k) == /\ Len(f[k]) <= Len(L)
                        /\ \A j \in 1 .. Len(f[k]) : L[j] = f[k][j]
           G == {k \in 0 .. n : Prefix(k)}
           H == {k \in 0 .. n : Len(f[k]) <= k}
<1>3. L \in Seq(V)
  <2>1. n \in 0 .. n
    OBVIOUS
  <2> HIDE DEF V, L
  <2>2. QED
    BY <1>1, <1>2, <2>1
<1> HIDE DEF L
<1>4. n \in G
  <2>1. Prefix(n)
    BY <1>1, <1>3
  <2> HIDE DEF Prefix
  <2>2. QED
    BY <2>1
<1>5. ASSUME NEW k \in 1 .. n
      PROVE  /\ f[k - 1] \in Seq(V) /\ f[k] \in Seq(V)
             /\ Len(f[k - 1]) \in Nat /\ Len(f[k]) \in Nat
             /\ k \in D => /\ Len(f[k]) = Len(f[k - 1]) + 1
                           /\ f[k][Len(f[k])] = k
             /\ k \notin D => Len(f[k]) = Len(f[k - 1])
             /\ Len(f[k - 1]) <= Len(f[k])
             /\ \A j \in 1 .. Len(f[k - 1]) : f[k][j] = f[k - 1][j]
  <2>1. k - 1 \in 0 .. n /\ k \in 0 .. n
    OBVIOUS
  <2>2. f[k - 1] \in Seq(V) /\ f[k] \in Seq(V)
    <3> HIDE DEF V
    <3> QED
      BY <1>2, <2>1
  <2>3. f[k] = IF k \in D THEN Append(f[k - 1], k) ELSE f[k - 1]
    BY <1>2
  <2> DEFINE g == f[k - 1]
  <2>4. k \in D => /\ Len(Append(g, k)) = Len(g) + 1
                   /\ Append(g, k)[Len(g) + 1] = k
                   /\ \A j \in 1 .. Len(g) : Append(g, k)[j] = g[j]
    <3>1. g \in Seq(V)
      BY <2>2
    <3> HIDE DEF g
    <3>2. QED
      BY <3>1
  <2>5. Len(g) \in Nat
    <3>1. g \in Seq(V)
      BY <2>2
    <3> HIDE DEF g, V
    <3>2. QED
      BY <3>1
  <2>6. CASE k \in D
    BY <2>2, <2>3, <2>4, <2>5, <2>6
  <2>7. CASE k \notin D
    BY <2>2, <2>3, <2>5, <2>7
  <2>8. QED
    BY <2>6, <2>7
<1>6. ASSUME NEW k \in 1 .. n, k \in G PROVE k - 1 \in G
  <2>1. Prefix(k) /\ k - 1 \in 0 .. n
    <3> HIDE DEF Prefix
    <3> QED
      BY <1>6
  <2>2. Len(L) \in Nat
    BY <1>3
  <2>3. Prefix(k - 1)
    <3>1. Len(f[k - 1]) <= Len(L)
      BY <1>5, <2>1, <2>2
    <3>2. ASSUME NEW j \in 1 .. Len(f[k - 1]) PROVE L[j] = f[k - 1][j]
      <4>1. Len(f[k - 1]) \in Nat /\ Len(f[k]) \in Nat
            /\ Len(f[k - 1]) <= Len(f[k])
        BY <1>5
      <4>2. j \in 1 .. Len(f[k])
        BY <4>1
      <4>3. f[k][j] = f[k - 1][j]
        BY <1>5
      <4>4. L[j] = f[k][j]
        BY <2>1, <4>2
      <4>5. QED
        BY <4>3, <4>4
    <3>3. QED
      BY <3>1, <3>2
  <2> HIDE DEF Prefix
  <2>4. QED
    BY <2>1, <2>3
<1>7. \A k \in 0 .. n : Prefix(k)
  <2> HIDE DEF Prefix
  <2>1. \A k \in 1 .. n : k \in G => k - 1 \in G
    BY <1>6
  <2> HIDE DEF G
  <2>2. \A k \in 0 .. n : k \in G
    BY <1>4, <2>1, Descend
  <2>3. QED
    BY <2>2 DEF G
<1>8. \A k \in 0 .. n : Len(f[k]) <= k
  <2>1. 0 \in H
    BY <1>2
  <2>2. ASSUME NEW k \in 1 .. n, k - 1 \in H PROVE k \in H
    <3>1. Len(f[k - 1]) <= k - 1
      BY <2>2
    <3>2. Len(f[k]) \in Nat /\ Len(f[k - 1]) \in Nat
      BY <1>5
    <3>3. Len(f[k]) = Len(f[k - 1]) + 1 \/ Len(f[k]) = Len(f[k - 1])
      BY <1>5, Zenon
    <3>4. QED
      BY <3>1, <3>2, <3>3
  <2> HIDE DEF H
  <2>3. \A k \in 0 .. n : k \in H
    BY <2>1, <2>2, Climb
  <2>4. QED
    BY <2>3 DEF H
<1>9. q \in [0 .. n -> 0 .. Len(L)] /\ q[0] = 0 /\ q[n] = Len(L) /\ Len(L) <= n
  <2>1. 0 \in 0 .. n /\ n \in 0 .. n
    OBVIOUS
  <2>2. \A k \in 0 .. n : Len(f[k]) \in 0 .. Len(L)
    <3> TAKE k \in 0 .. n
    <3>1. f[k] \in Seq(V)
      <4> HIDE DEF V
      <4> QED
        BY <1>2
    <3>2. Len(f[k]) \in Nat /\ Len(L) \in Nat /\ Len(f[k]) <= Len(L)
      BY <1>3, <1>7, <3>1
    <3>3. QED
      BY <3>2
  <2>3. q[0] = 0
    BY <1>2, <2>1
  <2>4. QED
    BY <1>1, <1>8, <2>1, <2>2, <2>3
<1>10. ASSUME NEW k \in 1 .. n
       PROVE  /\ k \in D => q[k] = q[k - 1] + 1 /\ L[q[k]] = k
              /\ k \notin D => q[k] = q[k - 1]
  <2>1. k - 1 \in 0 .. n /\ k \in 0 .. n
    OBVIOUS
  <2>2. q[k] = Len(f[k]) /\ q[k - 1] = Len(f[k - 1])
    BY <2>1
  <2>3. k \in D => L[Len(f[k])] = k
    <3> HAVE k \in D
    <3>1. Len(f[k]) \in 1 .. Len(f[k]) /\ f[k][Len(f[k])] = k
      BY <1>5
    <3>2. L[Len(f[k])] = f[k][Len(f[k])]
      BY <1>7, <2>1, <3>1
    <3>3. QED
      BY <3>1, <3>2
  <2>4. QED
    BY <1>5, <2>2, <2>3
<1> HIDE DEF q
<1>11. Lists(L, q, n, D)
  BY <1>3, <1>9, <1>10 DEF Lists
<1>12. QED
  BY <1>11 DEF L

\* There are as many of them as the set has.
LEMMA ListsAll ==
  ASSUME NEW n \in Nat, NEW D \in SUBSET (1 .. n), NEW L, NEW q,
         Lists(L, q, n, D)
  PROVE  IsFiniteSet(D) /\ Cardinality(D) = Len(L)
<1> DEFINE Few(k) == D \intersect (1 .. k)
           G == {k \in 0 .. n : /\ IsFiniteSet(Few(k))
                                /\ Cardinality(Few(k)) = q[k]}
<1>1. /\ L \in Seq(D \intersect (1 .. n)) /\ q \in [0 .. n -> 0 .. Len(L)]
      /\ q[0] = 0 /\ q[n] = Len(L)
      /\ \A k \in 1 .. n : /\ k \in D => q[k] = q[k - 1] + 1
                           /\ k \notin D => q[k] = q[k - 1]
  BY DEF Lists
<1>2. 0 \in G
  <2>1. Few(0) = {}
    OBVIOUS
  <2>2. IsFiniteSet(Few(0)) /\ Cardinality(Few(0)) = 0
    BY <2>1, FS_EmptySet
  <2> HIDE DEF Few
  <2>3. QED
    BY <1>1, <2>2
<1>3. ASSUME NEW k \in 1 .. n, k - 1 \in G PROVE k \in G
  <2>1. IsFiniteSet(Few(k - 1)) /\ Cardinality(Few(k - 1)) = q[k - 1]
        /\ k \in 0 .. n
    <3> HIDE DEF Few
    <3> QED
      BY <1>3
  <2>2. CASE k \in D
    <3>1. Few(k) = Few(k - 1) \union {k} /\ k \notin Few(k - 1)
      BY <2>2
    <3> HIDE DEF Few
    <3>2. /\ IsFiniteSet(Few(k - 1) \union {k})
          /\ Cardinality(Few(k - 1) \union {k}) = Cardinality(Few(k - 1)) + 1
      BY <2>1, <3>1, FS_AddElement
    <3>3. QED
      BY <1>1, <2>1, <2>2, <3>1, <3>2
  <2>3. CASE k \notin D
    <3>1. Few(k) = Few(k - 1)
      BY <2>3
    <3> HIDE DEF Few
    <3>2. QED
      BY <1>1, <2>1, <2>3, <3>1
  <2>4. QED
    BY <2>2, <2>3
<1>4. \A k \in 0 .. n : k \in G
  <2> HIDE DEF G
  <2> QED
    BY <1>2, <1>3, Climb
<1>5. n \in 0 .. n
  OBVIOUS
<1>6. Few(n) = D
  OBVIOUS
<1>7. IsFiniteSet(Few(n)) /\ Cardinality(Few(n)) = q[n]
  <2> HIDE DEF Few
  <2> QED
    BY <1>4, <1>5
<1>8. QED
  BY <1>1, <1>6, <1>7

\* The values at the axes of a list.
LEMMA AlongIs ==
  ASSUME NEW n \in Nat, NEW V, NEW s \in Seq(V), Len(s) = n,
         NEW L \in Seq(1 .. n)
  PROVE  /\ Along(L, s) \in Seq(V) /\ Len(Along(L, s)) = Len(L)
         /\ DOMAIN Along(L, s) = 1 .. Len(L)
         /\ \A j \in 1 .. Len(L) : L[j] \in 1 .. n /\ Along(L, s)[j] = s[L[j]]
<1>1. \A j \in 1 .. Len(L) : L[j] \in 1 .. n
  OBVIOUS
<1>2. \A a \in 1 .. n : s[a] \in V
  OBVIOUS
<1>3. Along(L, s) = [j \in 1 .. Len(L) |-> s[L[j]]] /\ Len(L) \in Nat
  BY DEF Along
<1>4. QED
  BY <1>1, <1>2, <1>3

\* The coordinates along listed axes are coordinates of their lengths.
LEMMA DigitsAlong ==
  ASSUME NEW n \in Nat, NEW s \in Lengths, Len(s) = n, NEW e, Digits(s, e),
         NEW L \in Seq(1 .. n)
  PROVE  /\ Along(L, s) \in Lengths /\ Digits(Along(L, s), Along(L, e))
         /\ Len(Along(L, s)) = Len(L)
         /\ \A j \in 1 .. Len(L) : /\ L[j] \in 1 .. n
                                   /\ Along(L, s)[j] = s[L[j]]
                                   /\ Along(L, e)[j] = e[L[j]]
<1>1. /\ Along(L, s) \in Lengths /\ Len(Along(L, s)) = Len(L)
      /\ DOMAIN Along(L, s) = 1 .. Len(L)
      /\ \A j \in 1 .. Len(L) : L[j] \in 1 .. n /\ Along(L, s)[j] = s[L[j]]
  BY AlongIs DEF Lengths
<1>2. \A j \in 1 .. Len(L) : Along(L, e)[j] = e[L[j]]
  BY DEF Along
<1>3. DOMAIN s = 1 .. n
  BY DEF Lengths
<1>4. Digits(Along(L, s), Along(L, e))
  <2> SUFFICES ASSUME NEW j \in 1 .. Len(L)
               PROVE  Along(L, e)[j] \in 0 .. Along(L, s)[j] - 1
    BY <1>1 DEF Digits
  <2>1. L[j] \in DOMAIN s
    BY <1>1, <1>3
  <2>2. e[L[j]] \in 0 .. s[L[j]] - 1
    BY <2>1 DEF Digits
  <2>3. QED
    BY <1>1, <1>2, <2>2
<1>5. QED
  BY <1>1, <1>2, <1>4

\* What the two functions say of a list of axes.
LEMMA ListsAre ==
  ASSUME NEW n \in Nat, NEW D, NEW L, NEW q, Lists(L, q, n, D)
  PROVE  /\ L \in Seq(1 .. n) /\ Len(L) \in Nat
         /\ \A j \in 1 .. Len(L) : L[j] \in D /\ L[j] \in 1 .. n
         /\ q[0] = 0 /\ q[n] = Len(L)
         /\ \A k \in 0 .. n : q[k] \in 0 .. Len(L)
         /\ \A k \in 1 .. n :
              /\ k \in D => /\ q[k] = q[k - 1] + 1 /\ q[k] \in 1 .. Len(L)
                            /\ L[q[k]] = k
              /\ k \notin D => q[k] = q[k - 1]
<1>1. /\ L \in Seq(D \intersect (1 .. n))
      /\ q \in [0 .. n -> 0 .. Len(L)] /\ q[0] = 0 /\ q[n] = Len(L)
      /\ \A k \in 1 .. n : /\ k \in D => q[k] = q[k - 1] + 1 /\ L[q[k]] = k
                           /\ k \notin D => q[k] = q[k - 1]
  BY DEF Lists
<1>2. \A j \in 1 .. Len(L) : L[j] \in D /\ L[j] \in 1 .. n
  BY <1>1
<1>3. L \in Seq(1 .. n) /\ Len(L) \in Nat
  BY <1>1, <1>2
<1>4. \A k \in 0 .. n : q[k] \in 0 .. Len(L)
  BY <1>1
<1>5. ASSUME NEW k \in 1 .. n, k \in D PROVE q[k] \in 1 .. Len(L)
  <2>1. k - 1 \in 0 .. n /\ k \in 0 .. n
    OBVIOUS
  <2>2. q[k - 1] \in 0 .. Len(L) /\ q[k] \in 0 .. Len(L)
    BY <1>4, <2>1
  <2>3. q[k] = q[k - 1] + 1
    BY <1>1, <1>5
  <2>4. QED
    BY <1>3, <2>2, <2>3
<1>6. QED
  BY <1>1, <1>2, <1>3, <1>4, <1>5

\* A sum over all axes is one over those of a set and one over the others.
LEMMA WaySplits ==
  ASSUME NEW n \in Nat, NEW s \in Lengths, Len(s) = n,
         NEW t \in Seq(Int), Len(t) = n, NEW e, Digits(s, e), NEW D,
         NEW L, NEW q, Lists(L, q, n, D),
         NEW E, \A k \in 1 .. n : k \in E <=> k \notin D,
         NEW M, NEW r, Lists(M, r, n, E)
  PROVE  Way(s, t, e)[n]
           = Way(Along(L, s), Along(L, t), Along(L, e))[Len(L)]
             + Way(Along(M, s), Along(M, t), Along(M, e))[Len(M)]
<1> DEFINE v == Way(s, t, e)
           x == Way(Along(L, s), Along(L, t), Along(L, e))
           y == Way(Along(M, s), Along(M, t), Along(M, e))
           G == {k \in 0 .. n : v[k] = x[q[k]] + y[r[k]]}
<1>1. /\ L \in Seq(1 .. n) /\ Len(L) \in Nat
      /\ q[0] = 0 /\ q[n] = Len(L)
      /\ \A k \in 0 .. n : q[k] \in 0 .. Len(L)
      /\ \A k \in 1 .. n :
           /\ k \in D => /\ q[k] = q[k - 1] + 1 /\ q[k] \in 1 .. Len(L)
                         /\ L[q[k]] = k
           /\ k \notin D => q[k] = q[k - 1]
  BY ListsAre
<1>2. /\ M \in Seq(1 .. n) /\ Len(M) \in Nat
      /\ r[0] = 0 /\ r[n] = Len(M)
      /\ \A k \in 0 .. n : r[k] \in 0 .. Len(M)
      /\ \A k \in 1 .. n :
           /\ k \in E => /\ r[k] = r[k - 1] + 1 /\ r[k] \in 1 .. Len(M)
                         /\ M[r[k]] = k
           /\ k \notin E => r[k] = r[k - 1]
  BY ListsAre
<1>3. /\ v \in [0 .. n -> Int] /\ v[0] = 0
      /\ \A k \in 1 .. n : v[k] = v[k - 1] + e[k] * t[k]
  <2>1. 0 \in Int
    OBVIOUS
  <2>2. QED
    BY <2>1, WayIs
<1>4. ASSUME NEW N \in Seq(1 .. n)
      PROVE  LET z == Way(Along(N, s), Along(N, t), Along(N, e))
             IN  /\ z \in [0 .. Len(N) -> Int] /\ z[0] = 0
                 /\ \A j \in 1 .. Len(N) : z[j] = z[j - 1] + e[N[j]] * t[N[j]]
  <2> DEFINE sN == Along(N, s)
             tN == Along(N, t)
             eN == Along(N, e)
             z == Way(sN, tN, eN)
  <2>1. /\ sN \in Lengths /\ Digits(sN, eN) /\ Len(sN) = Len(N)
        /\ \A j \in 1 .. Len(N) : eN[j] = e[N[j]]
    BY DigitsAlong
  <2>2. /\ tN \in Seq(Int) /\ Len(tN) = Len(N)
        /\ \A j \in 1 .. Len(N) : tN[j] = t[N[j]]
    BY AlongIs
  <2>3. 0 \in Int
    OBVIOUS
  <2> HIDE DEF sN, tN, eN
  <2>a. Len(tN) = Len(sN)
    BY <2>1, <2>2
  <2>4. /\ z \in [0 .. Len(sN) -> Int] /\ z[0] = 0
        /\ \A j \in 1 .. Len(sN) : z[j] = z[j - 1] + eN[j] * tN[j]
    <3>1. sN \in Lengths /\ Digits(sN, eN) /\ tN \in Seq(Int)
      BY <2>1, <2>2
    <3>2. QED
      BY ONLY <2>a, <2>3, <3>1, WayIs
  <2> HIDE DEF z
  <2>5. QED
    BY <2>1, <2>2, <2>4 DEF z, sN, tN, eN
<1>5. /\ x \in [0 .. Len(L) -> Int] /\ x[0] = 0
      /\ \A j \in 1 .. Len(L) : x[j] = x[j - 1] + e[L[j]] * t[L[j]]
  BY <1>1, <1>4
<1>6. /\ y \in [0 .. Len(M) -> Int] /\ y[0] = 0
      /\ \A j \in 1 .. Len(M) : y[j] = y[j - 1] + e[M[j]] * t[M[j]]
  BY <1>2, <1>4
<1> HIDE DEF v, x, y
<1>7. 0 \in G
  BY <1>1, <1>2, <1>3, <1>5, <1>6
<1>8. ASSUME NEW k \in 1 .. n, k - 1 \in G PROVE k \in G
  <2>1. /\ k - 1 \in 0 .. n /\ k \in 0 .. n
        /\ v[k - 1] = x[q[k - 1]] + y[r[k - 1]]
    BY <1>8
  <2>2. /\ q[k - 1] \in 0 .. Len(L) /\ r[k - 1] \in 0 .. Len(M)
    BY <1>1, <1>2, <2>1
  <2>3. x[q[k - 1]] \in Int /\ y[r[k - 1]] \in Int
    BY <1>5, <1>6, <2>2
  <2>4. e[k] * t[k] \in Int
    <3>1. e[k] \in Int /\ t[k] \in Int
      BY DEF Digits, Lengths
    <3>2. QED
      BY <3>1
  <2> DEFINE d == e[k] * t[k]
  <2>5. v[k] = v[k - 1] + d
    BY <1>3
  <2>6. CASE k \in D
    <3>1. /\ q[k] = q[k - 1] + 1 /\ q[k] \in 1 .. Len(L) /\ L[q[k]] = k
          /\ r[k] = r[k - 1]
      BY <1>1, <1>2, <2>6
    <3>2. q[k] - 1 = q[k - 1]
      BY <2>2, <3>1
    <3>3. x[q[k]] = x[q[k - 1]] + d
      BY <1>5, <3>1, <3>2
    <3> HIDE DEF d
    <3>4. v[k] = x[q[k]] + y[r[k]]
      BY <2>1, <2>3, <2>4, <2>5, <3>1, <3>3 DEF d
    <3>5. QED
      BY <2>1, <3>4
  <2>7. CASE k \notin D
    <3>1. /\ r[k] = r[k - 1] + 1 /\ r[k] \in 1 .. Len(M) /\ M[r[k]] = k
          /\ q[k] = q[k - 1]
      BY <1>1, <1>2, <2>7
    <3>2. r[k] - 1 = r[k - 1]
      BY <2>2, <3>1
    <3>3. y[r[k]] = y[r[k - 1]] + d
      BY <1>6, <3>1, <3>2
    <3> HIDE DEF d
    <3>4. v[k] = x[q[k]] + y[r[k]]
      BY <2>1, <2>3, <2>4, <2>5, <3>1, <3>3 DEF d
    <3>5. QED
      BY <2>1, <3>4
  <2>8. QED
    BY <2>6, <2>7
<1> HIDE DEF G
<1>9. \A k \in 0 .. n : k \in G
  BY <1>7, <1>8, Climb
<1>10. n \in G
  BY <1>9
<1>11. v[n] = x[q[n]] + y[r[n]]
  BY <1>10 DEF G
<1>12. QED
  BY <1>1, <1>2, <1>11 DEF v, x, y

\* A product likewise.
LEMMA ProductSplits ==
  ASSUME NEW n \in Nat, NEW s \in Lengths, Len(s) = n, NEW D,
         NEW L, NEW q, Lists(L, q, n, D),
         NEW E, \A k \in 1 .. n : k \in E <=> k \notin D,
         NEW M, NEW r, Lists(M, r, n, E)
  PROVE  Product(s) = Product(Along(L, s)) * Product(Along(M, s))
<1> DEFINE v == Products(s)
           x == Products(Along(L, s))
           y == Products(Along(M, s))
           G == {k \in 0 .. n : v[k] = x[q[k]] * y[r[k]]}
<1>1. /\ L \in Seq(1 .. n) /\ Len(L) \in Nat
      /\ q[0] = 0 /\ q[n] = Len(L)
      /\ \A k \in 0 .. n : q[k] \in 0 .. Len(L)
      /\ \A k \in 1 .. n :
           /\ k \in D => /\ q[k] = q[k - 1] + 1 /\ q[k] \in 1 .. Len(L)
                         /\ L[q[k]] = k
           /\ k \notin D => q[k] = q[k - 1]
  BY ListsAre
<1>2. /\ M \in Seq(1 .. n) /\ Len(M) \in Nat
      /\ r[0] = 0 /\ r[n] = Len(M)
      /\ \A k \in 0 .. n : r[k] \in 0 .. Len(M)
      /\ \A k \in 1 .. n :
           /\ k \in E => /\ r[k] = r[k - 1] + 1 /\ r[k] \in 1 .. Len(M)
                         /\ M[r[k]] = k
           /\ k \notin E => r[k] = r[k - 1]
  BY ListsAre
<1>3. /\ v \in [0 .. n -> Nat \ {0}] /\ v[0] = 1
      /\ \A k \in 1 .. n : v[k] = v[k - 1] * s[k]
  BY ProductsIs
<1>4. ASSUME NEW N \in Seq(1 .. n)
      PROVE  LET z == Products(Along(N, s))
             IN  /\ z \in [0 .. Len(N) -> Nat \ {0}] /\ z[0] = 1
                 /\ \A j \in 1 .. Len(N) : z[j] = z[j - 1] * s[N[j]]
                 /\ Len(Along(N, s)) = Len(N)
  <2> DEFINE sN == Along(N, s)
             z == Products(sN)
  <2>1. /\ sN \in Lengths /\ Len(sN) = Len(N)
        /\ \A j \in 1 .. Len(N) : sN[j] = s[N[j]]
    BY AlongIs DEF Lengths
  <2> HIDE DEF sN
  <2>2. /\ z \in [0 .. Len(sN) -> Nat \ {0}] /\ z[0] = 1
        /\ \A j \in 1 .. Len(sN) : z[j] = z[j - 1] * sN[j]
    BY <2>1, ProductsIs
  <2> HIDE DEF z
  <2>3. QED
    BY <2>1, <2>2 DEF z, sN
<1>5. /\ x \in [0 .. Len(L) -> Nat \ {0}] /\ x[0] = 1
      /\ \A j \in 1 .. Len(L) : x[j] = x[j - 1] * s[L[j]]
      /\ Len(Along(L, s)) = Len(L)
  BY <1>1, <1>4
<1>6. /\ y \in [0 .. Len(M) -> Nat \ {0}] /\ y[0] = 1
      /\ \A j \in 1 .. Len(M) : y[j] = y[j - 1] * s[M[j]]
      /\ Len(Along(M, s)) = Len(M)
  BY <1>2, <1>4
<1>0. \A k \in 1 .. n : s[k] \in Nat \ {0}
  BY DEF Lengths
<1>a. Product(s) = v[n]
  BY DEF Product
<1>b. Product(Along(L, s)) = x[Len(L)] /\ Product(Along(M, s)) = y[Len(M)]
  BY <1>5, <1>6 DEF Product
<1> HIDE DEF v, x, y
<1>7. 0 \in G
  <2>1. v[0] = 1 /\ x[q[0]] = 1 /\ y[r[0]] = 1
    BY <1>1, <1>2, <1>3, <1>5, <1>6
  <2>2. QED
    BY <2>1
<1>8. ASSUME NEW k \in 1 .. n, k - 1 \in G PROVE k \in G
  <2>1. /\ k - 1 \in 0 .. n /\ k \in 0 .. n
        /\ v[k - 1] = x[q[k - 1]] * y[r[k - 1]]
    BY <1>8
  <2>2. /\ q[k - 1] \in 0 .. Len(L) /\ r[k - 1] \in 0 .. Len(M)
    BY <1>1, <1>2, <2>1
  <2>3. x[q[k - 1]] \in Nat /\ y[r[k - 1]] \in Nat /\ s[k] \in Nat
    BY <1>0, <1>5, <1>6, <2>2
  <2>4. \A a, b, c \in Nat : (a * b) * c = (a * c) * b
                             /\ (a * b) * c = a * (b * c)
    OBVIOUS
  <2>5. v[k] = (x[q[k - 1]] * y[r[k - 1]]) * s[k]
    BY <1>3, <2>1
  <2>6. CASE k \in D
    <3>1. /\ q[k] = q[k - 1] + 1 /\ q[k] \in 1 .. Len(L) /\ L[q[k]] = k
          /\ r[k] = r[k - 1]
      BY <1>1, <1>2, <2>6
    <3>2. q[k] - 1 = q[k - 1]
      BY <2>2, <3>1
    <3>3. x[q[k]] = x[q[k - 1]] * s[k]
      BY <1>5, <3>1, <3>2
    <3>4. v[k] = (x[q[k - 1]] * s[k]) * y[r[k - 1]]
      BY <2>3, <2>4, <2>5
    <3>5. v[k] = x[q[k]] * y[r[k]]
      BY <3>1, <3>3, <3>4
    <3>6. QED
      BY <2>1, <3>5
  <2>7. CASE k \notin D
    <3>1. /\ r[k] = r[k - 1] + 1 /\ r[k] \in 1 .. Len(M) /\ M[r[k]] = k
          /\ q[k] = q[k - 1]
      BY <1>1, <1>2, <2>7
    <3>2. r[k] - 1 = r[k - 1]
      BY <2>2, <3>1
    <3>3. y[r[k]] = y[r[k - 1]] * s[k]
      BY <1>6, <3>1, <3>2
    <3>4. v[k] = x[q[k - 1]] * (y[r[k - 1]] * s[k])
      BY <2>3, <2>4, <2>5
    <3>5. v[k] = x[q[k]] * y[r[k]]
      BY <3>1, <3>3, <3>4
    <3>6. QED
      BY <2>1, <3>5
  <2>8. QED
    BY <2>6, <2>7
<1> HIDE DEF G
<1>9. \A k \in 0 .. n : k \in G
  BY <1>7, <1>8, Climb
<1>10. n \in G
  BY <1>9
<1>11. v[n] = x[q[n]] * y[r[n]]
  BY <1>10 DEF G
<1>12. QED
  BY <1>1, <1>2, <1>11, <1>a, <1>b

\* Axes of length one do not count.
Ones(s, a, b) == \A j \in a + 1 .. b : s[j] = 1

\* An axis of length one leads nowhere.
LEMMA OnesAreSilent ==
  ASSUME NEW s \in Lengths, NEW t \in Seq(Int), Len(t) = Len(s),
         NEW e, Digits(s, e),
         NEW a \in 0 .. Len(s), NEW b \in a .. Len(s), Ones(s, a, b)
  PROVE  /\ Way(s, t, e)[b] = Way(s, t, e)[a]
         /\ Counts(s, e)[b] = Counts(s, e)[a]
<1> DEFINE n == Len(s)
           v == Way(s, t, e)
           w == Counts(s, e)
<1>1. /\ n \in Nat
      /\ \A k \in 1 .. n : s[k] \in Nat \ {0} /\ e[k] \in 0 .. s[k] - 1
                                     /\ t[k] \in Int
  <2>1. n \in Nat /\ DOMAIN s = 1 .. n /\ Len(t) = n
    BY DEF Lengths
  <2>2. \A k \in 1 .. n : s[k] \in Nat \ {0} /\ t[k] \in Int
    BY <2>1 DEF Lengths
  <2>3. \A k \in 1 .. n : e[k] \in 0 .. s[k] - 1
    BY <2>1 DEF Digits
  <2>4. QED
    BY <2>1, <2>2, <2>3
<1>2. /\ v \in [0 .. n -> Int]
      /\ \A k \in 1 .. n : v[k] = v[k - 1] + e[k] * t[k]
  <2>1. 0 \in Int
    OBVIOUS
  <2>2. QED
    BY <2>1, WayIs
<1>3. /\ w \in [0 .. n -> Nat]
      /\ \A k \in 1 .. n : w[k] = w[k - 1] * s[k] + e[k]
  BY CountsIs
<1> HIDE DEF v, w
<1>4. ASSUME NEW j \in a + 1 .. b PROVE v[j] = v[j - 1] /\ w[j] = w[j - 1]
  <2>1. j \in 1 .. n /\ j - 1 \in 0 .. n /\ s[j] = 1
    BY <1>1 DEF Ones
  <2>2. e[j] = 0 /\ t[j] \in Int /\ v[j - 1] \in Int /\ w[j - 1] \in Nat
    <3>1. e[j] \in 0 .. 1 - 1 /\ t[j] \in Int
      BY <1>1, <2>1
    <3>2. v[j - 1] \in Int /\ w[j - 1] \in Nat
      BY <1>2, <1>3, <2>1
    <3>3. QED
      BY <3>1, <3>2
  <2>3. v[j] = v[j - 1] + 0 * t[j] /\ w[j] = w[j - 1] * 1 + 0
    BY <1>2, <1>3, <2>1, <2>2
  <2>4. QED
    BY <2>2, <2>3
<1>5. n \in Nat /\ a \in 0 .. n /\ b \in 0 .. n /\ a <= b
  BY <1>1
<1> HIDE DEF n
<1>6. v[b] = v[a]
  BY <1>4, <1>5, Idle
<1>7. w[b] = w[a]
  BY <1>4, <1>5, Idle
<1>8. QED
  BY <1>6, <1>7 DEF v, w

\* The number of a cell among all is its number among those of some axes if the
\* others are of length one.
LEMMA SilentAxes ==
  ASSUME NEW n \in Nat, NEW s \in Lengths, Len(s) = n,
         NEW e, Digits(s, e),
         NEW E, \A k \in 1 .. n : k \notin E => s[k] = 1,
         NEW M, NEW r, Lists(M, r, n, E)
  PROVE  Counts(s, e)[n] = Counts(Along(M, s), Along(M, e))[Len(M)]
<1> DEFINE v == Counts(s, e)
           y == Counts(Along(M, s), Along(M, e))
           G == {k \in 0 .. n : v[k] = y[r[k]]}
<1>1. /\ M \in Seq(1 .. n) /\ Len(M) \in Nat
      /\ r[0] = 0 /\ r[n] = Len(M)
      /\ \A k \in 0 .. n : r[k] \in 0 .. Len(M)
      /\ \A k \in 1 .. n :
           /\ k \in E => /\ r[k] = r[k - 1] + 1 /\ r[k] \in 1 .. Len(M)
                         /\ M[r[k]] = k
           /\ k \notin E => r[k] = r[k - 1]
  BY ListsAre
<1>2. /\ v \in [0 .. n -> Nat] /\ v[0] = 0
      /\ \A k \in 1 .. n : v[k] = v[k - 1] * s[k] + e[k]
  BY CountsIs
<1>3. /\ y \in [0 .. Len(M) -> Nat] /\ y[0] = 0
      /\ \A j \in 1 .. Len(M) : y[j] = y[j - 1] * s[M[j]] + e[M[j]]
  <2> DEFINE sM == Along(M, s)
             eM == Along(M, e)
  <2>1. /\ sM \in Lengths /\ Digits(sM, eM) /\ Len(sM) = Len(M)
        /\ \A j \in 1 .. Len(M) : sM[j] = s[M[j]] /\ eM[j] = e[M[j]]
    BY <1>1, DigitsAlong
  <2>2. y = Counts(sM, eM)
    OBVIOUS
  <2> HIDE DEF sM, eM, y
  <2>3. /\ y \in [0 .. Len(sM) -> Nat] /\ y[0] = 0
        /\ \A j \in 1 .. Len(sM) : y[j] = y[j - 1] * sM[j] + eM[j]
    BY <2>1, <2>2, CountsIs
  <2>4. QED
    BY <2>1, <2>3
<1> HIDE DEF v, y
<1>4. 0 \in G
  BY <1>1, <1>2, <1>3
<1>5. ASSUME NEW k \in 1 .. n, k - 1 \in G PROVE k \in G
  <2>1. k - 1 \in 0 .. n /\ k \in 0 .. n /\ v[k - 1] = y[r[k - 1]]
    BY <1>5
  <2>2. v[k] = v[k - 1] * s[k] + e[k]
    BY <1>2
  <2>3. CASE k \in E
    <3>1. r[k] = r[k - 1] + 1 /\ r[k] \in 1 .. Len(M) /\ M[r[k]] = k
      BY <1>1, <2>3
    <3>2. r[k - 1] \in 0 .. Len(M)
      BY <1>1, <2>1
    <3>3. r[k] - 1 = r[k - 1]
      BY <3>1, <3>2
    <3>4. y[r[k]] = y[r[k - 1]] * s[k] + e[k]
      BY <1>3, <3>1, <3>3
    <3>5. QED
      BY <2>1, <2>2, <3>4
  <2>4. CASE k \notin E
    <3>1. r[k] = r[k - 1] /\ s[k] = 1
      BY <1>1, <2>4
    <3>2. e[k] = 0 /\ v[k - 1] \in Nat
      <4>1. k \in DOMAIN s
        BY DEF Lengths
      <4>2. e[k] \in 0 .. 1 - 1
        BY <3>1, <4>1 DEF Digits
      <4>3. QED
        BY <1>2, <2>1, <4>2
    <3>3. v[k] = v[k - 1] * 1 + 0
      BY <2>2, <3>1, <3>2
    <3>4. QED
      BY <2>1, <3>1, <3>2, <3>3
  <2>5. QED
    BY <2>3, <2>4
<1> HIDE DEF G
<1>6. \A k \in 0 .. n : k \in G
  BY <1>4, <1>5, Climb
<1>7. n \in G
  BY <1>6
<1>8. v[n] = y[r[n]]
  BY <1>7 DEF G
<1>9. QED
  BY <1>1, <1>8 DEF v, y

-----------------------------------------------------------------------------
(* Where a slice begins.                                                   *)

Sliceable(x, D) ==
  /\ IsDescriptor(x) /\ D \subseteq DOMAIN x.shape
  /\ D # {} /\ D # DOMAIN x.shape

\* The number of a cell among those of these axes, and how far they take it.
Nth(L, x, c) == Counts(Along(L, x.shape), Along(L, c))[Len(L)]
Reach(L, x, c) ==
  Way(Along(L, x.shape), Along(L, x.stride), Along(L, c))[Len(L)]

\* The cells are the coordinates.
LEMMA CellsAre ==
  ASSUME NEW s \in Lengths, NEW c \in Cells(s)
  PROVE  Digits(s, c)
<1> SUFFICES ASSUME NEW a \in DOMAIN s PROVE c[a] \in 0 .. s[a] - 1
  BY DEF Digits
<1>1. /\ c \in [DOMAIN s -> UNION {0 .. s[b] - 1 : b \in DOMAIN s}]
      /\ c[a] < s[a]
  BY DEF Cells
<1>2. PICK b \in DOMAIN s : c[a] \in 0 .. s[b] - 1
  BY <1>1
<1>3. s[a] \in Nat /\ s[b] \in Nat
  BY DEF Lengths
<1>4. c[a] \in Nat
  BY <1>2, <1>3
<1>5. QED
  BY <1>1, <1>3, <1>4

\* The parts of a descriptor.
LEMMA DescriptorIs ==
  ASSUME NEW x, IsDescriptor(x)
  PROVE  /\ x.shape \in Lengths /\ x.stride \in Seq(Int)
         /\ Len(x.shape) \in Nat /\ Len(x.shape) > 1
         /\ Len(x.stride) = Len(x.shape)
         /\ DOMAIN x.shape = 1 .. Len(x.shape) /\ x.ews \in Int
         /\ \A a \in 1 .. Len(x.shape) : /\ x.shape[a] \in Nat \ {0}
                                         /\ x.stride[a] \in Nat \ {0}
<1>1. /\ x.shape \in Seq(Nat \ {0}) /\ x.stride \in Seq(Nat \ {0})
      /\ Len(x.shape) > 1 /\ Len(x.stride) = Len(x.shape) /\ x.ews \in Int
  BY DEF IsDescriptor
<1>2. x.stride \in Seq(Int)
  BY <1>1
<1>3. QED
  BY <1>1, <1>2 DEF Lengths

\* The axes asked for and the others are listed, and no axis is in both.
LEMMA ChosenAndOthers ==
  ASSUME NEW x, NEW D, Sliceable(x, D)
  PROVE  /\ \E q : Lists(Chosen(x, D), q, Len(x.shape), D)
         /\ \E r : Lists(Others(x, D), r, Len(x.shape), Axes(x) \ D)
         /\ \A k \in 1 .. Len(x.shape) : k \in Axes(x) \ D <=> k \notin D
<1>1. Len(x.shape) \in Nat /\ DOMAIN x.shape = 1 .. Len(x.shape)
  BY DescriptorIs DEF Sliceable
<1>2. \E q : Lists(Chosen(x, D), q, Len(x.shape), D)
  BY <1>1, AscendingLists DEF Chosen
<1>3. \E r : Lists(Others(x, D), r, Len(x.shape), Axes(x) \ D)
  BY <1>1, AscendingLists DEF Chosen, Others
<1>4. QED
  BY <1>1, <1>2, <1>3 DEF Axes

\* What holds of a list of some of the axes.
AxesListed(L, x, c) ==
  /\ Along(L, x.shape) \in Lengths
  /\ Len(Along(L, x.shape)) = Len(L)
  /\ Along(L, x.stride) \in Seq(Int)
  /\ Len(Along(L, x.stride)) = Len(L)
  /\ Digits(Along(L, x.shape), Along(L, c))
  /\ \A j \in 1 .. Len(L) : /\ L[j] \in 1 .. Len(x.shape)
                            /\ Along(L, x.shape)[j] = x.shape[L[j]]
                            /\ Along(L, x.stride)[j] = x.stride[L[j]]
                            /\ Along(L, c)[j] = c[L[j]]
  /\ Reach(L, x, c) \in Int /\ Nth(L, x, c) \in Nat
  /\ Nth(L, x, c) < Product(Along(L, x.shape))
  /\ Product(Along(L, x.shape)) \in Nat \ {0}

\* What is counted and summed up along listed axes.
LEMMA ListOfAxes ==
  ASSUME NEW x, IsDescriptor(x), NEW c, Digits(x.shape, c),
         NEW L \in Seq(1 .. Len(x.shape))
  PROVE  AxesListed(L, x, c)
<1> DEFINE n == Len(x.shape)
           sL == Along(L, x.shape)
           tL == Along(L, x.stride)
           cL == Along(L, c)
<1>1. /\ x.shape \in Lengths /\ x.stride \in Seq(Int) /\ n \in Nat
      /\ Len(x.stride) = n
  BY DescriptorIs
<1>2. /\ sL \in Lengths /\ Digits(sL, cL) /\ Len(sL) = Len(L)
      /\ \A j \in 1 .. Len(L) : /\ L[j] \in 1 .. n /\ sL[j] = x.shape[L[j]]
                                /\ cL[j] = c[L[j]]
  <2> DEFINE s == x.shape
  <2>1. /\ s \in Lengths /\ Len(s) = n /\ n \in Nat /\ Digits(s, c)
        /\ L \in Seq(1 .. n)
    BY <1>1
  <2> HIDE DEF s, n
  <2>2. /\ Along(L, s) \in Lengths /\ Digits(Along(L, s), cL)
        /\ Len(Along(L, s)) = Len(L)
        /\ \A j \in 1 .. Len(L) : /\ L[j] \in 1 .. n
                                  /\ Along(L, s)[j] = s[L[j]]
                                  /\ cL[j] = c[L[j]]
    BY ONLY <2>1, DigitsAlong
  <2> HIDE DEF cL
  <2>3. QED
    BY <2>2 DEF s
<1>3. /\ tL \in Seq(Int) /\ Len(tL) = Len(L)
      /\ \A j \in 1 .. Len(L) : tL[j] = x.stride[L[j]]
  <2> DEFINE s == x.stride
  <2>1. /\ s \in Seq(Int) /\ Len(s) = n /\ n \in Nat /\ L \in Seq(1 .. n)
    BY <1>1
  <2> HIDE DEF s, n
  <2>2. /\ Along(L, s) \in Seq(Int) /\ Len(Along(L, s)) = Len(L)
        /\ \A j \in 1 .. Len(L) : Along(L, s)[j] = s[L[j]]
    BY ONLY <2>1, AlongIs
  <2>3. QED
    BY <2>2 DEF s
<1>4. Len(L) \in Nat /\ Len(L) \in 0 .. Len(L)
  OBVIOUS
<1>5. Reach(L, x, c) = Way(sL, tL, cL)[Len(L)]
  BY DEF Reach
<1>6. Nth(L, x, c) = Counts(sL, cL)[Len(L)]
  BY DEF Nth
<1>7. Product(sL) = Products(sL)[Len(L)]
  BY <1>2 DEF Product
<1> HIDE DEF sL, tL, cL
<1>8. Way(sL, tL, cL) \in [0 .. Len(L) -> Int]
  <2>1. 0 \in Int /\ Len(tL) = Len(sL)
    BY <1>2, <1>3
  <2>2. Way(sL, tL, cL) \in [0 .. Len(sL) -> Int]
    BY <1>2, <1>3, <2>1, WayIs
  <2>3. QED
    BY <1>2, <2>2
<1>9. Counts(sL, cL) \in [0 .. Len(L) -> Nat]
  <2>1. Counts(sL, cL) \in [0 .. Len(sL) -> Nat]
    BY <1>2, CountsIs
  <2>2. QED
    BY <1>2, <2>1
<1>10. \A k \in 0 .. Len(L) : Counts(sL, cL)[k] < Products(sL)[k]
  <2>1. \A k \in 0 .. Len(sL) : Counts(sL, cL)[k] < Products(sL)[k]
    BY <1>2, CountsBound
  <2>2. QED
    BY <1>2, <2>1
<1>11. Products(sL)[Len(L)] \in Nat \ {0}
  <2>1. Products(sL) \in [0 .. Len(sL) -> Nat \ {0}]
    BY <1>2, ProductsIs
  <2>2. QED
    BY <1>2, <1>4, <2>1
<1>12. Reach(L, x, c) \in Int /\ Nth(L, x, c) \in Nat
  BY <1>4, <1>5, <1>6, <1>8, <1>9
<1>13. Nth(L, x, c) < Product(sL) /\ Product(sL) \in Nat \ {0}
  BY <1>4, <1>6, <1>7, <1>10, <1>11
<1>14. QED
  BY <1>2, <1>3, <1>12, <1>13 DEF sL, tL, cL, AxesListed

\* Axes of length one take a cell nowhere.
LEMMA OnesReachNothing ==
  ASSUME NEW x, IsDescriptor(x), NEW c, Digits(x.shape, c),
         NEW L \in Seq(1 .. Len(x.shape)),
         \A j \in 1 .. Len(L) : x.shape[L[j]] = 1
  PROVE  Reach(L, x, c) = 0 /\ Nth(L, x, c) = 0
<1> DEFINE sL == Along(L, x.shape)
           tL == Along(L, x.stride)
           cL == Along(L, c)
<1>0. /\ sL \in Lengths /\ Len(sL) = Len(L) /\ tL \in Seq(Int)
      /\ Len(tL) = Len(L) /\ Digits(sL, cL)
      /\ \A j \in 1 .. Len(L) : sL[j] = x.shape[L[j]]
  <2>1. AxesListed(L, x, c)
    BY ListOfAxes
  <2>2. QED
    BY <2>1 DEF AxesListed
<1>2. Reach(L, x, c) = Way(sL, tL, cL)[Len(L)]
      /\ Nth(L, x, c) = Counts(sL, cL)[Len(L)]
  BY DEF Reach, Nth
<1> HIDE DEF sL, tL, cL
<1>1. /\ sL \in Lengths /\ Len(sL) = Len(L) /\ tL \in Seq(Int)
      /\ Len(tL) = Len(sL) /\ Digits(sL, cL)
      /\ \A j \in 1 .. Len(L) : sL[j] = 1
  BY <1>0
<1>3. 0 \in 0 .. Len(sL) /\ Len(sL) \in 0 .. Len(sL)
      /\ Ones(sL, 0, Len(sL))
  BY <1>1 DEF Lengths, Ones
<1>4. /\ Way(sL, tL, cL)[Len(sL)] = Way(sL, tL, cL)[0]
      /\ Counts(sL, cL)[Len(sL)] = Counts(sL, cL)[0]
  BY <1>1, <1>3, OnesAreSilent
<1>5. Counts(sL, cL)[0] = 0
  BY <1>1, CountsIs
<1>6. Way(sL, tL, cL)[0] = 0
  <2>1. 0 \in Int
    OBVIOUS
  <2>2. QED
    BY <1>1, <2>1, WayIs
<1>7. QED
  BY <1>1, <1>2, <1>4, <1>5, <1>6

\* Only ones multiply to one.
LEMMA ProductOne ==
  ASSUME NEW s \in Lengths, Product(s) = 1
  PROVE  \A j \in 1 .. Len(s) : s[j] = 1
<1>1. Len(s) \in Nat
  BY DEF Lengths
<1>2. 0 \in 0 .. Len(s) /\ Len(s) \in 0 .. Len(s)
  BY <1>1
<1>3. Products(s)[0] = Products(s)[Len(s)]
  BY ProductsIs DEF Product
<1>4. \A j \in 0 + 1 .. Len(s) : s[j] = 1
  BY <1>2, <1>3, ProductsGrow
<1>5. QED
  BY <1>1, <1>4

\* The slice a cell is in begins as far on as the other axes take the cell.
LEMMA SliceBegins ==
  ASSUME NEW x, NEW D, Sliceable(x, D), EwsIsTrue(x),
         NEW c \in Cells(x.shape)
  PROVE  /\ TadLength(x, D) \in Nat \ {0}
         /\ Nth(Chosen(x, D), x, c) \in 0 .. TadLength(x, D) - 1
         /\ Nth(Others(x, D), x, c) \in 0 .. NumTads(x, D) - 1
         /\ Offset(0, x.shape, x.stride, c)
              = Reach(Chosen(x, D), x, c) + Reach(Others(x, D), x, c)
         /\ Reach(Chosen(x, D), x, c) \in Int
         /\ Reach(Others(x, D), x, c) \in Int
         /\ TadOffset(x, D, Nth(Others(x, D), x, c))
              = Reach(Others(x, D), x, c)
<1> DEFINE n == Len(x.shape)
           L == Chosen(x, D)
           M == Others(x, D)
           sL == Along(L, x.shape)
           sM == Along(M, x.shape)
           i == Nth(M, x, c)
<1>1. /\ IsDescriptor(x) /\ n \in Nat /\ x.shape \in Lengths
      /\ x.stride \in Seq(Int) /\ Len(x.stride) = n
      /\ DOMAIN x.shape = 1 .. n
  BY DescriptorIs DEF Sliceable
<1>2. Digits(x.shape, c)
  BY <1>1, CellsAre
<1>3. PICK q : Lists(L, q, n, D)
  BY ChosenAndOthers
<1>4. PICK r : Lists(M, r, n, Axes(x) \ D)
  BY ChosenAndOthers
<1>5. \A k \in 1 .. n : k \in Axes(x) \ D <=> k \notin D
  BY ChosenAndOthers
<1>6. /\ L \in Seq(1 .. n) /\ Len(L) \in Nat
      /\ \A k \in 1 .. n : k \in D => q[k] \in 1 .. Len(L) /\ L[q[k]] = k
  BY <1>1, <1>3, ListsAre
<1>7. M \in Seq(1 .. n) /\ Len(M) \in Nat
  BY <1>1, <1>4, ListsAre
<1>8. TadLength(x, D) = Product(sL)
  BY DEF TadLength
<1> HIDE DEF L, M
<1>9. /\ sL \in Lengths /\ Len(sL) = Len(L) /\ Reach(L, x, c) \in Int
      /\ Nth(L, x, c) \in Nat /\ Nth(L, x, c) < Product(sL)
      /\ Product(sL) \in Nat \ {0}
      /\ \A j \in 1 .. Len(L) : sL[j] = x.shape[L[j]]
  <2>1. AxesListed(L, x, c)
    BY <1>1, <1>2, <1>6, ListOfAxes
  <2>2. QED
    BY <2>1 DEF AxesListed
<1>10. /\ sM \in Lengths /\ Len(sM) = Len(M) /\ Reach(M, x, c) \in Int
       /\ i \in Nat /\ i < Product(sM)
       /\ Product(sM) \in Nat \ {0}
       /\ \A j \in 1 .. Len(M) : M[j] \in 1 .. n /\ sM[j] = x.shape[M[j]]
  <2>1. AxesListed(M, x, c)
    BY <1>1, <1>2, <1>7, ListOfAxes
  <2>2. QED
    BY <2>1 DEF AxesListed
<1>11. Product(x.shape) = Product(sL) * Product(sM)
  BY <1>1, <1>3, <1>4, <1>5, ProductSplits
<1>12. NumTads(x, D) = Product(sM)
  <2>1. NumTads(x, D) = Product(x.shape) \div Product(sL)
    BY <1>8 DEF NumTads
  <2> DEFINE a == Product(sL)
             b == Product(sM)
  <2>2. a \in Nat \ {0} /\ b \in Nat \ {0}
    BY <1>9, <1>10
  <2> HIDE DEF a, b
  <2>3. a * b \in Nat /\ a * b <= a * b /\ a * b < a * (b + 1)
    BY <2>2
  <2>4. b = (a * b) \div a
    BY <2>2, <2>3, Quotient
  <2>5. QED
    BY <1>11, <2>1, <2>4 DEF a, b
<1>13. Offset(0, x.shape, x.stride, c) = Reach(L, x, c) + Reach(M, x, c)
  <2>1. Offset(0, x.shape, x.stride, c) = 0 + Way(x.shape, x.stride, c)[n]
    BY <1>1, <1>2, WayIs
  <2>2. Way(x.shape, x.stride, c)[n] = Reach(L, x, c) + Reach(M, x, c)
    BY <1>1, <1>2, <1>3, <1>4, <1>5, WaySplits DEF Reach
  <2>3. QED
    BY <1>9, <1>10, <2>1, <2>2
<1>14. ASSUME WholeThing(x, D)
       PROVE  \/ \A j \in 1 .. Len(M) : x.shape[M[j]] = 1
              \/ x.ews = 1 /\ Product(sL) = 1
  <2>1. CASE IsVector(x.shape)
    <3>1. x.shape = <<1, 1>>
      BY <1>14, <2>1 DEF WholeThing, IsScalar
    <3>2. \A k \in 1 .. 2 : <<1, 1>>[k] = 1
      OBVIOUS
    <3>3. n = 2
      BY <3>1
    <3>4. \A k \in 1 .. n : x.shape[k] = 1
      BY <3>1, <3>2, <3>3
    <3>5. QED
      BY <1>10, <3>4
  <2>2. CASE ~ IsVector(x.shape) /\ NumTads(x, D) = 1
    <3>1. \A j \in 1 .. Len(M) : sM[j] = 1
      BY <1>10, <1>12, <2>2, ProductOne
    <3>2. QED
      BY <1>10, <3>1
  <2>3. CASE NumTads(x, D) = Product(x.shape) /\ x.ews = 1
    <3>1. Product(sM) = Product(sL) * Product(sM)
      BY <1>11, <1>12, <2>3
    <3>2. \A a, b \in Nat \ {0} : b = a * b => a = 1
      <4> TAKE a, b \in Nat \ {0}
      <4> DEFINE d == a - 1
      <4>1. d \in Nat /\ a = d + 1
        OBVIOUS
      <4>2. a * b = d * b + b /\ d * b \in Nat
        <5> HIDE DEF d
        <5> QED
          BY <4>1
      <4>3. d # 0 => d * b \in Nat \ {0}
        BY <4>1, TimesPositive
      <4> HIDE DEF d
      <4>4. QED
        BY <4>1, <4>2, <4>3
    <3>3. Product(sL) = 1
      BY <1>9, <1>10, <3>1, <3>2
    <3>4. QED
      BY <2>3, <3>3
  <2>4. QED
    BY <1>14, <2>1, <2>2, <2>3 DEF WholeThing
<1>15. TadOffset(x, D, i) = Reach(M, x, c)
  <2>1. CASE WholeThing(x, D) /\ \A j \in 1 .. Len(M) : x.shape[M[j]] = 1
    <3>1. Reach(M, x, c) = 0 /\ i = 0
      <4>1. /\ IsDescriptor(x) /\ Digits(x.shape, c)
            /\ M \in Seq(1 .. Len(x.shape))
            /\ \A j \in 1 .. Len(M) : x.shape[M[j]] = 1
        BY <1>1, <1>2, <1>7, <2>1
      <4>2. QED
        BY ONLY <4>1, OnesReachNothing
    <3> HIDE DEF i
    <3>2. TadOffset(x, D, i) = i
      BY <2>1 DEF TadOffset
    <3>3. QED
      BY <3>1, <3>2
  <2>2. CASE WholeThing(x, D) /\ x.ews = 1 /\ Product(sL) = 1
    <3>1. TadOffset(x, D, i) = i
      BY <2>2 DEF TadOffset
    <3>2. \A j \in 1 .. Len(L) : x.shape[L[j]] = 1
      <4>1. \A j \in 1 .. Len(sL) : sL[j] = 1
        BY <1>9, <2>2, ProductOne
      <4>2. QED
        BY <1>9, <4>1
    <3>3. Reach(L, x, c) = 0
      <4> HIDE DEF sL, sM, i
      <4>1. /\ IsDescriptor(x) /\ Digits(x.shape, c)
            /\ L \in Seq(1 .. Len(x.shape))
            /\ \A j \in 1 .. Len(L) : x.shape[L[j]] = 1
        BY <1>1, <1>2, <1>6, <3>2
      <4>2. QED
        BY ONLY <4>1, OnesReachNothing
    <3>4. \A k \in 1 .. n : k \in D => x.shape[k] = 1
      BY <1>6, <3>2
    <3>5. Counts(x.shape, c)[n] = i
      <4> DEFINE E == Axes(x) \ D
      <4>1. \A k \in 1 .. n : k \notin E => x.shape[k] = 1
        BY <1>5, <3>4
      <4>2. Lists(M, r, n, E)
        BY <1>4
      <4> HIDE DEF E
      <4>3. Counts(x.shape, c)[n] = Counts(sM, Along(M, c))[Len(M)]
        BY <1>1, <1>2, <4>1, <4>2, SilentAxes
      <4>4. QED
        BY <4>3 DEF Nth
    <3>6. Offset(0, x.shape, x.stride, c) = 1 * i
      <4>1. Accumulated(0, x.shape, c)[n] = i
        BY <3>5 DEF Counts
      <4> HIDE DEF i
      <4>2. QED
        BY <2>2, <4>1 DEF EwsIsTrue
    <3> HIDE DEF i
    <3>7. QED
      BY <1>10, <1>13, <3>1, <3>3, <3>6
  <2>3. CASE ~ WholeThing(x, D)
    <3> DEFINE tM == Along(M, x.stride)
               cM == Along(M, c)
    <3>1. TadOffset(x, D, i) = Offset(0, sM, tM, CCoordinates(sM, i))
      BY <2>3 DEF TadOffset, M
    <3>2. /\ sM \in Lengths /\ tM \in Seq(Int) /\ Len(tM) = Len(sM)
          /\ Digits(sM, cM) /\ Len(sM) = Len(M)
      <4>1. AxesListed(M, x, c)
        BY <1>1, <1>2, <1>7, ListOfAxes
      <4>2. QED
        BY <4>1 DEF AxesListed
    <3>3. /\ i = Counts(sM, cM)[Len(sM)]
          /\ Reach(M, x, c) = Way(sM, tM, cM)[Len(sM)]
      BY <3>2 DEF Nth, Reach
    <3> HIDE DEF i, sM, tM, cM
    <3>4. Offset(0, sM, tM, CCoordinates(sM, i)) = 0 + Way(sM, tM, cM)[Len(sM)]
      BY <3>2, <3>3, Reading
    <3>5. QED
      BY <1>10, <3>1, <3>3, <3>4
  <2>4. QED
    BY <1>14, <2>1, <2>2, <2>3
<1>16. QED
  <2>1. i \in 0 .. NumTads(x, D) - 1
    BY <1>10, <1>12
  <2>2. Nth(L, x, c) \in 0 .. TadLength(x, D) - 1
    BY <1>8, <1>9
  <2> HIDE DEF sL, sM
  <2>3. QED
    BY <1>8, <1>9, <1>10, <1>13, <1>15, <2>1, <2>2 DEF L, M

-----------------------------------------------------------------------------
(* What the descriptor of a slice reads.                                   *)

\* A shape with one long axis at most, the last: the elements are a row.
LEMMA RowIsRead ==
  ASSUME NEW s \in Lengths, NEW t \in Seq(Int), Len(t) = Len(s), Len(s) > 0,
         \A j \in 1 .. Len(s) - 1 : s[j] = 1,
         NEW v \in 0 .. s[Len(s)] - 1, NEW base \in Int
  PROVE  Offset(base, s, t, CCoordinates(s, v)) = base + v * t[Len(s)]
<1> DEFINE n == Len(s)
           e == [j \in 1 .. n |-> IF j = n THEN v ELSE 0]
           w == Way(s, t, e)
           u == Counts(s, e)
<1>1. /\ n \in Nat \ {0} /\ DOMAIN s = 1 .. n /\ n - 1 \in 0 .. n
      /\ n \in 1 .. n /\ 0 \in 0 .. n /\ n - 1 \in 0 .. n - 1
      /\ \A j \in 1 .. n : s[j] \in Nat \ {0} /\ t[j] \in Int
  BY DEF Lengths
<1>2. Digits(s, e)
  <2> SUFFICES ASSUME NEW j \in 1 .. n PROVE e[j] \in 0 .. s[j] - 1
    BY <1>1 DEF Digits
  <2>1. s[j] \in Nat \ {0}
    BY <1>1
  <2>2. QED
    BY <2>1
<1>3. e[n] = v
  BY <1>1
<1> HIDE DEF e
<1>4. /\ w \in [0 .. n -> Int] /\ w[0] = 0
      /\ w[n] = w[n - 1] + e[n] * t[n]
  <2>1. \A k \in 1 .. n : w[k] = w[k - 1] + e[k] * t[k]
    BY <1>2, WayIs
  <2>2. w \in [0 .. n -> Int] /\ w[0] = 0
    BY <1>2, WayIs
  <2>3. QED
    BY <1>1, <2>1, <2>2
<1>5. /\ u[0] = 0 /\ u[n] = u[n - 1] * s[n] + e[n]
  <2>1. u[0] = 0 /\ \A k \in 1 .. n : u[k] = u[k - 1] * s[k] + e[k]
    BY <1>2, CountsIs
  <2>2. QED
    BY <1>1, <2>1
<1>6. w[n - 1] = w[0] /\ u[n - 1] = u[0]
  <2>1. 0 \in 0 .. Len(s) /\ n - 1 \in 0 .. Len(s) /\ Ones(s, 0, n - 1)
    BY <1>1 DEF Ones
  <2> HIDE DEF n
  <2>2. QED
    BY <1>2, <2>1, OnesAreSilent
<1>7. Offset(base, s, t, CCoordinates(s, u[n])) = base + w[n]
  BY <1>2, Reading
<1> HIDE DEF w, u
<1>8. v \in Int /\ t[n] \in Int /\ s[n] \in Nat
  BY <1>1
<1>9. w[n] = 0 + v * t[n] /\ u[n] = 0 * s[n] + v
  BY <1>3, <1>4, <1>5, <1>6
<1>10. \A a \in Int, b \in Nat : 0 + a = a /\ 0 * b + a = a
  OBVIOUS
<1>11. v * t[n] \in Int
  BY <1>8
<1>12. w[n] = v * t[n] /\ u[n] = v
  BY <1>8, <1>9, <1>10, <1>11
<1>13. QED
  BY <1>7, <1>12

\* If all but the first of the axes of a list are of length one.
LEMMA FirstOfList ==
  ASSUME NEW x, IsDescriptor(x), NEW c, Digits(x.shape, c),
         NEW L \in Seq(1 .. Len(x.shape)), Len(L) > 0,
         \A j \in 2 .. Len(L) : x.shape[L[j]] = 1
  PROVE  /\ Nth(L, x, c) = c[L[1]]
         /\ Reach(L, x, c) = c[L[1]] * x.stride[L[1]]
         /\ c[L[1]] \in 0 .. x.shape[L[1]] - 1
<1> DEFINE s == Along(L, x.shape)
           t == Along(L, x.stride)
           e == Along(L, c)
           w == Way(s, t, e)
           u == Counts(s, e)
<1>0. AxesListed(L, x, c)
  BY ListOfAxes
<1>1. /\ s \in Lengths /\ Len(s) = Len(L) /\ t \in Seq(Int)
      /\ Len(t) = Len(s) /\ Digits(s, e)
      /\ \A j \in 1 .. Len(L) : /\ L[j] \in 1 .. Len(x.shape)
                                /\ s[j] = x.shape[L[j]]
                                /\ t[j] = x.stride[L[j]] /\ e[j] = c[L[j]]
  BY <1>0 DEF AxesListed
<1>2. Nth(L, x, c) = u[Len(L)] /\ Reach(L, x, c) = w[Len(L)]
  BY DEF Nth, Reach
<1> HIDE DEF s, t, e
<1>3. /\ Len(s) \in Nat /\ 1 \in 1 .. Len(s) /\ 1 \in 0 .. Len(s)
      /\ Len(s) \in 1 .. Len(s) /\ DOMAIN s = 1 .. Len(s)
      /\ \A j \in 1 + 1 .. Len(s) : s[j] = 1
  <2>1. Len(s) \in Nat /\ DOMAIN s = 1 .. Len(s) /\ Len(s) > 0
    BY <1>1 DEF Lengths
  <2>2. \A j \in 1 + 1 .. Len(s) : s[j] = 1
    BY <1>1, <2>1
  <2>3. QED
    BY <2>1, <2>2
<1>4. w[Len(s)] = w[1] /\ u[Len(s)] = u[1]
  <2> DEFINE a == 1
             b == Len(s)
  <2>1. /\ s \in Lengths /\ t \in Seq(Int) /\ Len(t) = Len(s) /\ Digits(s, e)
        /\ a \in 0 .. Len(s) /\ b \in a .. Len(s)
        /\ Ones(s, a, b)
    BY <1>1, <1>3 DEF Ones
  <2> HIDE DEF a, b
  <2>2. Way(s, t, e)[b] = Way(s, t, e)[a] /\ Counts(s, e)[b] = Counts(s, e)[a]
    BY ONLY <2>1, OnesAreSilent
  <2>3. QED
    BY <2>2 DEF a, b
<1>5. w[0] = 0 /\ w[1] = w[1 - 1] + e[1] * t[1]
  <2>1. 0 \in Int
    OBVIOUS
  <2>2. w[0] = 0 /\ \A k \in 1 .. Len(s) : w[k] = w[k - 1] + e[k] * t[k]
    BY <1>1, <2>1, WayIs
  <2>3. QED
    BY <1>3, <2>2
<1>6. u[0] = 0 /\ u[1] = u[1 - 1] * s[1] + e[1]
  <2>1. u[0] = 0 /\ \A k \in 1 .. Len(s) : u[k] = u[k - 1] * s[k] + e[k]
    BY <1>1, CountsIs
  <2>2. QED
    BY <1>3, <2>1
<1>7. e[1] \in 0 .. s[1] - 1 /\ s[1] \in Nat /\ t[1] \in Int
  <2>1. 1 \in DOMAIN s /\ 1 \in 1 .. Len(t)
    BY <1>1, <1>3
  <2>2. e[1] \in 0 .. s[1] - 1
    BY <1>1, <2>1 DEF Digits
  <2>3. s[1] \in Nat
    BY <1>1, <2>1 DEF Lengths
  <2>4. t[1] \in Int
    BY <1>1, <2>1
  <2>5. QED
    BY <2>2, <2>3, <2>4
<1> HIDE DEF w, u
<1>8. w[1] = e[1] * t[1] /\ u[1] = e[1]
  <2>1. e[1] * t[1] \in Int /\ 0 * s[1] = 0 /\ e[1] \in Int
    BY <1>7
  <2>2. QED
    BY <1>5, <1>6, <2>1
<1>9. QED
  BY <1>1, <1>2, <1>3, <1>4, <1>7, <1>8

\* The axes of a list, and axes of length one behind them.
LEMMA ListIsRead ==
  ASSUME NEW x, IsDescriptor(x), NEW c, Digits(x.shape, c),
         NEW L \in Seq(1 .. Len(x.shape)),
         NEW s \in Lengths, NEW t \in Seq(Int), Len(t) = Len(s),
         Len(L) <= Len(s),
         \A j \in 1 .. Len(L) : s[j] = x.shape[L[j]] /\ t[j] = x.stride[L[j]],
         \A j \in Len(L) + 1 .. Len(s) : s[j] = 1,
         NEW base \in Int
  PROVE  Offset(base, s, t, CCoordinates(s, Nth(L, x, c)))
           = base + Reach(L, x, c)
<1> DEFINE n == Len(s)
           d == Len(L)
           sL == Along(L, x.shape)
           tL == Along(L, x.stride)
           cL == Along(L, c)
           e == [j \in 1 .. n |-> IF j <= d THEN cL[j] ELSE 0]
           w == Way(s, t, e)
           u == Counts(s, e)
           wL == Way(sL, tL, cL)
           uL == Counts(sL, cL)
           G == {k \in 0 .. d : w[k] = wL[k] /\ u[k] = uL[k]}
<1>0. AxesListed(L, x, c)
  BY ListOfAxes
<1>1. /\ sL \in Lengths /\ Len(sL) = d /\ tL \in Seq(Int)
      /\ Len(tL) = Len(sL) /\ Digits(sL, cL)
      /\ \A j \in 1 .. d : /\ sL[j] = x.shape[L[j]]
                           /\ tL[j] = x.stride[L[j]]
  BY <1>0 DEF AxesListed
<1>2. Nth(L, x, c) = uL[d] /\ Reach(L, x, c) = wL[d]
  BY DEF Nth, Reach
<1> HIDE DEF sL, tL, cL
<1>3. /\ n \in Nat /\ d \in Nat /\ d <= n /\ DOMAIN s = 1 .. n
      /\ DOMAIN sL = 1 .. d
      /\ \A j \in 1 .. n : s[j] \in Nat \ {0}
      /\ d \in 0 .. n /\ n \in d .. n
  BY <1>1 DEF Lengths
<1>4. \A j \in 1 .. d : /\ j \in 1 .. n /\ sL[j] = s[j]
                        /\ tL[j] = t[j] /\ e[j] = cL[j]
  <2> TAKE j \in 1 .. d
  <2>1. sL[j] = s[j] /\ tL[j] = t[j]
    BY <1>1
  <2>2. j \in 1 .. n /\ j <= d
    <3> HIDE DEF n, d
    <3> QED
      BY <1>3
  <2>3. QED
    BY <2>1, <2>2
<1>5. Digits(s, e)
  <2> SUFFICES ASSUME NEW j \in 1 .. n PROVE e[j] \in 0 .. s[j] - 1
    BY <1>3 DEF Digits
  <2>1. CASE j <= d
    <3>1. j \in 1 .. d
      BY <1>3, <2>1
    <3>2. cL[j] \in 0 .. sL[j] - 1
      BY <1>1, <1>3, <3>1 DEF Digits
    <3>3. QED
      BY <1>4, <3>1, <3>2
  <2>2. CASE ~ (j <= d)
    <3>1. s[j] \in Nat \ {0} /\ e[j] = 0
      BY <1>3, <2>2
    <3>2. QED
      BY <3>1
  <2>3. QED
    BY <2>1, <2>2
<1> HIDE DEF e, n, d
<1>6. /\ w[0] = 0 /\ \A k \in 1 .. n : w[k] = w[k - 1] + e[k] * t[k]
      /\ Offset(base, s, t, CCoordinates(s, u[n])) = base + w[n]
  <2>1. w[0] = 0 /\ \A k \in 1 .. n : w[k] = w[k - 1] + e[k] * t[k]
    BY <1>5, WayIs DEF n
  <2>2. Offset(base, s, t, CCoordinates(s, u[n])) = base + w[n]
    BY <1>5, Reading DEF n
  <2>3. QED
    BY <2>1, <2>2
<1>7. u[0] = 0 /\ \A k \in 1 .. n : u[k] = u[k - 1] * s[k] + e[k]
  BY <1>5, CountsIs DEF n
<1>8. wL[0] = 0 /\ \A k \in 1 .. d : wL[k] = wL[k - 1] + cL[k] * tL[k]
  <2>1. 0 \in Int
    OBVIOUS
  <2>2. /\ wL[0] = 0
        /\ \A k \in 1 .. Len(sL) : wL[k] = wL[k - 1] + cL[k] * tL[k]
    <3>1. /\ sL \in Lengths /\ tL \in Seq(Int) /\ Len(tL) = Len(sL)
          /\ Digits(sL, cL)
      BY <1>1
    <3>2. /\ Way(sL, tL, cL)[0] = 0
          /\ \A k \in 1 .. Len(sL) :
               Way(sL, tL, cL)[k] = Way(sL, tL, cL)[k - 1] + cL[k] * tL[k]
      BY ONLY <2>1, <3>1, WayIs
    <3>3. QED
      BY <3>2
  <2>3. Len(sL) = d
    BY <1>1
  <2> HIDE DEF wL
  <2>4. QED
    BY <2>2, <2>3
<1>9. uL[0] = 0 /\ \A k \in 1 .. d : uL[k] = uL[k - 1] * sL[k] + cL[k]
  <2>1. /\ uL[0] = 0
        /\ \A k \in 1 .. Len(sL) : uL[k] = uL[k - 1] * sL[k] + cL[k]
    <3>1. sL \in Lengths /\ Digits(sL, cL) /\ uL = Counts(sL, cL)
      BY <1>1
    <3> HIDE DEF uL
    <3>2. QED
      BY ONLY <3>1, CountsIs
  <2>2. Len(sL) = d
    BY <1>1
  <2> HIDE DEF uL
  <2>3. QED
    BY <2>1, <2>2
<1>10. w[n] = w[d] /\ u[n] = u[d]
  <2>1. Ones(s, d, n)
    BY DEF d, n, Ones
  <2>2. d \in 0 .. Len(s) /\ n \in d .. Len(s)
    BY <1>3 DEF n
  <2>3. QED
    BY <1>5, <2>1, <2>2, OnesAreSilent
<1> HIDE DEF w, u, wL, uL
<1>11. 0 \in G
  BY <1>3, <1>6, <1>7, <1>8, <1>9
<1>12. ASSUME NEW k \in 1 .. d, k - 1 \in G PROVE k \in G
  <2>1. k \in 0 .. d /\ w[k - 1] = wL[k - 1] /\ u[k - 1] = uL[k - 1]
    BY <1>3, <1>12
  <2>2. w[k] = w[k - 1] + e[k] * t[k] /\ u[k] = u[k - 1] * s[k] + e[k]
    BY <1>4, <1>6, <1>7
  <2>3. wL[k] = w[k - 1] + e[k] * t[k] /\ uL[k] = u[k - 1] * s[k] + e[k]
    BY <1>4, <1>8, <1>9, <2>1
  <2>4. QED
    BY <2>1, <2>2, <2>3
<1> HIDE DEF G
<1>13. \A k \in 0 .. d : k \in G
  BY <1>3, <1>11, <1>12, Climb
<1>14. d \in G
  BY <1>3, <1>13
<1>15. w[d] = wL[d] /\ u[d] = uL[d]
  BY <1>14 DEF G
<1>16. QED
  BY <1>2, <1>6, <1>10, <1>15

-----------------------------------------------------------------------------
(* Axes are cut off.                                                       *)

Suffix(s, k) == [j \in 1 .. Len(s) - k |-> s[j + k]]

\* An array after its first k axes are cut off; two axes are left always.
Cut(S, T, k) ==
  IF k < Len(S) - 1 THEN Described(Suffix(S, k), Suffix(T, k), -1)
  ELSE Described(<<1, S[Len(S)]>>, <<1, T[Len(S)]>>, T[Len(S)])

\* Two of a kind: the lengths and the strides of the same axes.
Paired(S, T) == S \in Lengths /\ T \in Lengths /\ Len(T) = Len(S) /\ Len(S) > 1

\* The values from the one after k on.
LEMMA SuffixIs ==
  ASSUME NEW s \in Lengths, NEW k \in 0 .. Len(s)
  PROVE  /\ Suffix(s, k) \in Lengths /\ Len(Suffix(s, k)) = Len(s) - k
         /\ \A j \in 1 .. Len(s) - k : Suffix(s, k)[j] = s[j + k]
         /\ k < Len(s) => Tail(Suffix(s, k)) = Suffix(s, k + 1)
<1> DEFINE n == Len(s)
           u == Suffix(s, k)
<1>1. n \in Nat /\ \A j \in 1 .. n : s[j] \in Nat \ {0}
  BY DEF Lengths
<1>2. \A j \in 1 .. n - k : j + k \in 1 .. n
  BY <1>1
<1>3. u = [j \in 1 .. n - k |-> s[j + k]] /\ n - k \in Nat
  BY <1>1 DEF Suffix
<1>4. /\ u \in Seq(Nat \ {0}) /\ Len(u) = n - k
      /\ \A j \in 1 .. n - k : u[j] = s[j + k]
  BY <1>1, <1>2, <1>3
<1>5. ASSUME k < n PROVE Tail(u) = Suffix(s, k + 1)
  <2> HIDE DEF u, n
  <2>1. Tail(u) = [j \in 1 .. Len(u) - 1 |-> u[j + 1]]
    BY <1>3, <1>4, <1>5
  <2>2. Len(u) - 1 = n - (k + 1)
    BY <1>1, <1>4
  <2>3. \A j \in 1 .. n - (k + 1) : u[j + 1] = s[j + (k + 1)]
    <3> TAKE j \in 1 .. n - (k + 1)
    <3>1. j + 1 \in 1 .. n - k /\ (j + 1) + k = j + (k + 1)
      BY <1>1
    <3>2. QED
      BY <1>4, <3>1
  <2>4. Suffix(s, k + 1) = [j \in 1 .. n - (k + 1) |-> s[j + (k + 1)]]
    BY DEF Suffix, n
  <2>5. QED
    BY <2>1, <2>2, <2>3, <2>4
<1>6. QED
  BY <1>4, <1>5 DEF Lengths

\* The descriptor left when k axes are cut off; of a single axis a row is
\* made.
LEMMA CutIs ==
  ASSUME NEW S, NEW T, Paired(S, T), NEW k \in 0 .. Len(S) - 1
  PROVE  /\ k < Len(S) - 1 =>
              LET y == Cut(S, T, k)
              IN  /\ y.shape = Suffix(S, k) /\ y.stride = Suffix(T, k)
                  /\ y.ews = -1
         /\ k = Len(S) - 1 =>
              LET y == Cut(S, T, k)
              IN  /\ y.shape = <<1, S[Len(S)]>> /\ y.stride = <<1, T[Len(S)]>>
                  /\ y.ews = T[Len(S)]
<1>1. Len(S) \in Nat
  BY DEF Paired, Lengths
<1>2. CASE k < Len(S) - 1
  BY <1>1, <1>2 DEF Cut, Described
<1>3. CASE k = Len(S) - 1
  <2>1. ~ (k < Len(S) - 1)
    BY <1>1, <1>3
  <2>2. QED
    BY <1>3, <2>1 DEF Cut, Described
<1>4. QED
  BY <1>2, <1>3

\* Slice() cuts one axis more.
LEMMA CutNext ==
  ASSUME NEW S, NEW T, Paired(S, T)
  PROVE  /\ Cut(S, T, 0) = Described(S, T, -1)
         /\ \A k \in 0 .. Len(S) - 2 :
              Slice(Cut(S, T, k)) = Cut(S, T, k + 1)
<1> DEFINE n == Len(S)
<1>1. /\ S \in Lengths /\ T \in Lengths /\ Len(T) = n /\ n \in Nat /\ n > 1
  BY DEF Paired, Lengths
<1>2. Cut(S, T, 0) = Described(S, T, -1)
  <2>1. \A s \in Lengths : Suffix(s, 0) = s
    <3> TAKE s \in Lengths
    <3>1. s = [j \in 1 .. Len(s) |-> s[j]] /\ Len(s) \in Nat
      BY DEF Lengths
    <3>2. \A j \in 1 .. Len(s) : s[j + 0] = s[j]
      BY <3>1
    <3>3. Len(s) - 0 = Len(s)
      BY <3>1
    <3>4. QED
      BY <3>1, <3>2, <3>3 DEF Suffix
  <2>2. 0 < n - 1
    BY <1>1
  <2>3. QED
    BY <1>1, <2>1, <2>2 DEF Cut
<1>3. ASSUME NEW k \in 0 .. n - 2
      PROVE  Slice(Cut(S, T, k)) = Cut(S, T, k + 1)
  <2> DEFINE y == Cut(S, T, k)
  <2>1. k < n - 1 /\ k \in 0 .. n - 1 /\ k < n /\ k \in 0 .. n
    BY <1>1
  <2>2. y.shape = Suffix(S, k) /\ y.stride = Suffix(T, k) /\ y.ews = -1
    BY <2>1, CutIs
  <2>3. /\ Len(Suffix(S, k)) = n - k
        /\ Tail(Suffix(S, k)) = Suffix(S, k + 1)
        /\ \A j \in 1 .. n - k : Suffix(S, k)[j] = S[j + k]
    BY <1>1, <2>1, SuffixIs
  <2>4. /\ Tail(Suffix(T, k)) = Suffix(T, k + 1)
        /\ \A j \in 1 .. n - k : Suffix(T, k)[j] = T[j + k]
    BY <1>1, <2>1, SuffixIs
  <2> HIDE DEF y
  <2>5. CASE k = n - 2
    <3>1. n - k = 2 /\ 2 \in 1 .. n - k /\ 2 + k = n /\ ~ (k + 1 < n - 1)
      BY <1>1, <2>5
    <3>2. y.shape[2] = S[n] /\ y.stride[2] = T[n] /\ Len(y.shape) = 2
      BY <2>2, <2>3, <2>4, <3>1
    <3>3. Slice(y) = Described(<<1, S[n]>>, <<1, T[n]>>, T[n])
      BY <3>2 DEF Slice
    <3>4. Cut(S, T, k + 1) = Described(<<1, S[n]>>, <<1, T[n]>>, T[n])
      BY <3>1 DEF Cut
    <3>5. QED
      BY <3>3, <3>4 DEF y
  <2>6. CASE k # n - 2
    <3>1. Len(y.shape) # 2 /\ k + 1 < n - 1
      BY <1>1, <2>2, <2>3, <2>6
    <3>2. Slice(y) = Described(Suffix(S, k + 1), Suffix(T, k + 1), -1)
      BY <2>2, <2>3, <2>4, <3>1 DEF Slice
    <3>3. Cut(S, T, k + 1) = Described(Suffix(S, k + 1), Suffix(T, k + 1), -1)
      BY <3>1 DEF Cut
    <3>4. QED
      BY <3>2, <3>3 DEF y
  <2>7. QED
    BY <2>5, <2>6
<1>4. QED
  BY <1>2, <1>3

\* What is left of the product is a product from the other end.
LEMMA CutProduct ==
  ASSUME NEW S, NEW T, Paired(S, T), NEW k \in 0 .. Len(S) - 1
  PROVE  Product(Cut(S, T, k).shape) = Products(Seqs!Reverse(S))[Len(S) - k]
<1> DEFINE n == Len(S)
           w == Products(Seqs!Reverse(S))
<1>1. /\ S \in Lengths /\ n \in Nat /\ n > 1
      /\ \A j \in 1 .. n : S[j] \in Nat \ {0}
  BY DEF Paired, Lengths
<1>2. /\ Seqs!Reverse(S) \in Lengths /\ Len(Seqs!Reverse(S)) = n
      /\ \A j \in 1 .. n : Seqs!Reverse(S)[j] = S[n - j + 1]
  BY <1>1, ReverseIs DEF Lengths
<1>3. /\ w \in [0 .. n -> Nat \ {0}] /\ w[0] = 1
      /\ \A j \in 1 .. n : w[j] = w[j - 1] * S[n - j + 1]
  <2>1. /\ w \in [0 .. n -> Nat \ {0}] /\ w[0] = 1
        /\ \A j \in 1 .. n : w[j] = w[j - 1] * Seqs!Reverse(S)[j]
    BY <1>2, ProductsIs
  <2> HIDE DEF w, n
  <2>2. QED
    BY <1>2, <2>1
<1>4. CASE k < n - 1
  <2> DEFINE u == Suffix(S, k)
             m == n - k
             v == Products(Seqs!Reverse(u))
             G == {j \in 0 .. m : v[j] = w[j]}
  <2>1. /\ u \in Lengths /\ Len(u) = m /\ m \in Nat
        /\ \A j \in 1 .. m : u[j] = S[j + k]
    <3>1. k \in 0 .. n /\ m \in Nat
      BY <1>1
    <3>2. QED
      BY <1>1, <3>1, SuffixIs
  <2>2. Product(Cut(S, T, k).shape) = Product(u)
    BY <1>4, CutIs
  <2> HIDE DEF u
  <2>3. /\ Seqs!Reverse(u) \in Lengths /\ Len(Seqs!Reverse(u)) = m
        /\ \A j \in 1 .. m : Seqs!Reverse(u)[j] = u[m - j + 1]
    <3> HIDE DEF m
    <3> QED
      BY <2>1, ReverseIs DEF Lengths
  <2>4. Product(u) = v[m]
    <3>1. Product(Seqs!Reverse(u)) = Product(u)
      BY <2>1, ProductOfReverse
    <3>2. QED
      BY <2>3, <3>1 DEF Product
  <2>5. /\ v[0] = 1 /\ \A j \in 1 .. m : v[j] = v[j - 1] * Seqs!Reverse(u)[j]
    BY <2>3, ProductsIs
  <2> HIDE DEF v, w
  <2>6. ASSUME NEW j \in 1 .. m PROVE Seqs!Reverse(u)[j] = S[n - j + 1]
    <3>1. m - j + 1 \in 1 .. m /\ (m - j + 1) + k = n - j + 1
      BY <1>1
    <3>2. QED
      BY <2>1, <2>3, <3>1
  <2>7. 0 \in G
    BY <1>3, <2>1, <2>5
  <2>8. ASSUME NEW j \in 1 .. m, j - 1 \in G PROVE j \in G
    <3>1. j \in 1 .. n /\ j \in 0 .. m /\ v[j - 1] = w[j - 1]
      BY <1>1, <2>8
    <3>2. v[j] = v[j - 1] * S[n - j + 1] /\ w[j] = w[j - 1] * S[n - j + 1]
      BY <1>3, <2>5, <2>6, <3>1
    <3>3. QED
      BY <3>1, <3>2
  <2> HIDE DEF G, m
  <2>9. \A j \in 0 .. m : j \in G
    BY <2>1, <2>7, <2>8, Climb
  <2>10. m \in G
    BY <2>1, <2>9
  <2>11. v[m] = w[m]
    BY <2>10 DEF G
  <2>12. QED
    BY <2>2, <2>4, <2>11 DEF m, w
<1>5. CASE k = n - 1
  <2> DEFINE u == <<1, S[n]>>
             v == Products(u)
  <2>1. Product(Cut(S, T, k).shape) = Product(u)
    BY <1>5, CutIs
  <2>2. S[n] \in Nat \ {0}
    BY <1>1
  <2>3. u \in Lengths /\ Len(u) = 2 /\ u[1] = 1 /\ u[2] = S[n]
    BY <2>2 DEF Lengths
  <2> HIDE DEF u
  <2>4. v[0] = 1 /\ v[1] = v[1 - 1] * u[1] /\ v[2] = v[2 - 1] * u[2]
    <3>1. v[0] = 1 /\ \A j \in 1 .. 2 : v[j] = v[j - 1] * u[j]
      BY <2>3, ProductsIs
    <3>2. QED
      BY <3>1
  <2>5. Product(u) = v[2]
    BY <2>3 DEF Product
  <2> HIDE DEF v, w
  <2>6. v[2] = S[n]
    BY <2>2, <2>3, <2>4
  <2>7. n - k = 1 /\ w[1] = w[0] * S[n]
    <3>1. n - k = 1 /\ 1 \in 1 .. n /\ n - 1 + 1 = n /\ 1 - 1 = 0
      BY <1>1, <1>5
    <3>2. w[1] = w[1 - 1] * S[n - 1 + 1]
      BY <1>3, <3>1
    <3>3. QED
      BY <3>1, <3>2
  <2>8. w[1] = S[n]
    BY <1>3, <2>2, <2>7
  <2>9. QED
    BY <2>1, <2>5, <2>6, <2>7, <2>8 DEF w
<1>6. QED
  BY <1>1, <1>4, <1>5

-----------------------------------------------------------------------------
(* The axes of a slice moved to the end, the last of them first.           *)

\* The lists of a set and of its complement have every axis between them.
LEMMA ListsShare ==
  ASSUME NEW n \in Nat, NEW D, NEW L, NEW q, Lists(L, q, n, D),
         NEW E, \A k \in 1 .. n : k \in E <=> k \notin D,
         NEW M, NEW r, Lists(M, r, n, E)
  PROVE  Len(L) + Len(M) = n
<1> DEFINE G == {k \in 0 .. n : q[k] + r[k] = k}
<1>1. /\ q[0] = 0 /\ q[n] = Len(L)
      /\ \A k \in 1 .. n : /\ k \in D => q[k] = q[k - 1] + 1
                           /\ k \notin D => q[k] = q[k - 1]
      /\ \A k \in 0 .. n : q[k] \in Int
  BY DEF Lists
<1>2. /\ r[0] = 0 /\ r[n] = Len(M)
      /\ \A k \in 1 .. n : /\ k \in E => r[k] = r[k - 1] + 1
                           /\ k \notin E => r[k] = r[k - 1]
      /\ \A k \in 0 .. n : r[k] \in Int
  BY DEF Lists
<1>3. 0 \in G
  BY <1>1, <1>2
<1>4. ASSUME NEW k \in 1 .. n, k - 1 \in G PROVE k \in G
  <2>1. k \in 0 .. n /\ k - 1 \in 0 .. n
    OBVIOUS
  <2>2. q[k - 1] \in Int /\ r[k - 1] \in Int /\ q[k - 1] + r[k - 1] = k - 1
    BY <1>1, <1>2, <1>4, <2>1
  <2>3. CASE k \in D
    BY <1>1, <1>2, <2>1, <2>2, <2>3
  <2>4. CASE k \notin D
    <3>1. k \in E
      BY <2>4
    <3>2. r[k] = r[k - 1] + 1 /\ q[k] = q[k - 1]
      BY <1>1, <1>2, <2>4, <3>1
    <3>3. QED
      BY <2>1, <2>2, <3>2
  <2>5. QED
    BY <2>3, <2>4
<1> HIDE DEF G
<1>5. \A k \in 0 .. n : k \in G
  BY <1>3, <1>4, Climb
<1>6. n \in G
  BY <1>5
<1>7. QED
  BY <1>1, <1>2, <1>6 DEF G

\* The second part of a concatenation.
LEMMA Joined ==
  ASSUME NEW V, NEW A \in Seq(V), NEW B \in Seq(V)
  PROVE  /\ Len(A \o B) = Len(A) + Len(B)
         /\ \A j \in 1 .. Len(B) : (A \o B)[Len(A) + j] = B[j]
OBVIOUS

MovedAxes(x, D) == Others(x, D) \o Seqs!Reverse(Chosen(x, D))

\* S and T are the lengths and strides of the moved axes.
Moved(x, D, S, T) ==
  /\ Paired(S, T) /\ Len(S) = Len(x.shape)
  /\ Len(Others(x, D)) \in Nat \ {0} /\ Len(Chosen(x, D)) \in Nat \ {0}
  /\ Len(Chosen(x, D)) + Len(Others(x, D)) = Len(S)
  /\ \A j \in 1 .. Len(Chosen(x, D)) :
       /\ S[Len(S) - j + 1] = x.shape[Chosen(x, D)[j]]
       /\ T[Len(S) - j + 1] = x.stride[Chosen(x, D)[j]]
  /\ Chosen(x, D) \in Seq(1 .. Len(x.shape))
  /\ Cardinality(D) = Len(Chosen(x, D))
  /\ Len(Chosen(x, D)) = 1 => D = {Chosen(x, D)[1]}
  /\ Permuted(x, MovedAxes(x, D)) = Described(S, T, -1)

\* The permutation of the array that the cutting begins with.
LEMMA MovedIs ==
  ASSUME NEW x, NEW D, Sliceable(x, D)
  PROVE  Moved(x, D, Along(MovedAxes(x, D), x.shape),
               Along(MovedAxes(x, D), x.stride))
<1> DEFINE n == Len(x.shape)
           L == Chosen(x, D)
           M == Others(x, D)
           d == Len(L)
           m == Len(M)
           R == Seqs!Reverse(L)
           P == M \o R
           S == Along(P, x.shape)
           T == Along(P, x.stride)
<1>1. /\ IsDescriptor(x) /\ n \in Nat /\ n > 1 /\ x.shape \in Lengths
      /\ x.stride \in Seq(Nat \ {0}) /\ Len(x.stride) = n
      /\ DOMAIN x.shape = 1 .. n
      /\ D \in SUBSET (1 .. n) /\ D # {} /\ D # 1 .. n
  BY DescriptorIs DEF Sliceable, IsDescriptor
<1>2. PICK q : Lists(L, q, n, D)
  BY ChosenAndOthers
<1>3. PICK r : Lists(M, r, n, Axes(x) \ D)
  BY ChosenAndOthers
<1>4. \A k \in 1 .. n : k \in Axes(x) \ D <=> k \notin D
  BY ChosenAndOthers
<1>5. d + m = n
  BY <1>1, <1>2, <1>3, <1>4, ListsShare
<1>6. Cardinality(D) = d
  BY <1>1, <1>2, ListsAll
<1>7. /\ L \in Seq(1 .. n) /\ d \in Nat
      /\ \A j \in 1 .. d : L[j] \in D
      /\ \A k \in 1 .. n : k \in D => q[k] \in 1 .. d /\ L[q[k]] = k
  BY <1>1, <1>2, ListsAre
<1>8. /\ M \in Seq(1 .. n) /\ m \in Nat
      /\ \A k \in 1 .. n : k \in Axes(x) \ D => r[k] \in 1 .. m
  BY <1>1, <1>3, ListsAre
<1>9. Permuted(x, P) = Described(S, T, -1)
  BY DEF Permuted
<1>10. P = MovedAxes(x, D)
  BY DEF MovedAxes
<1> HIDE DEF L, M
<1>11. d # 0 /\ m # 0
  <2>1. PICK k \in 1 .. n : k \in D
    BY <1>1
  <2>2. PICK l \in 1 .. n : l \notin D
    BY <1>1
  <2>3. q[k] \in 1 .. d /\ r[l] \in 1 .. m
    BY <1>4, <1>7, <1>8, <2>1, <2>2
  <2>4. QED
    BY <1>7, <1>8, <2>3
<1>12. d = 1 => D = {L[1]}
  <2> HAVE d = 1
  <2>1. L[1] \in D
    BY <1>7
  <2>2. ASSUME NEW k \in D PROVE k = L[1]
    <3>1. q[k] \in 1 .. 1 /\ L[q[k]] = k
      BY <1>1, <1>7
    <3>2. q[k] = 1
      BY <3>1
    <3>3. QED
      BY <3>1, <3>2
  <2>3. QED
    BY <2>1, <2>2
<1>13. /\ R \in Seq(1 .. n) /\ Len(R) = d
       /\ \A j \in 1 .. d : R[j] = L[d - j + 1]
  BY <1>7, ReverseIs
<1> HIDE DEF R
<1>14. /\ P \in Seq(1 .. n) /\ Len(P) = n
       /\ \A j \in 1 .. d : P[m + j] = R[j]
  <2>1. Len(R) = d /\ Len(M) = m /\ R \in Seq(1 .. n) /\ M \in Seq(1 .. n)
        /\ d \in Nat /\ m \in Nat
    BY <1>7, <1>8, <1>13
  <2>2. P \in Seq(1 .. n)
    BY <2>1
  <2>3. Len(P) = Len(M) + Len(R) /\ \A j \in 1 .. Len(R) : P[Len(M) + j] = R[j]
    BY <2>1, Joined
  <2> HIDE DEF d, m
  <2>4. Len(P) = m + d /\ \A j \in 1 .. d : P[m + j] = R[j]
    BY <2>1, <2>3
  <2>5. QED
    BY <1>5, <2>1, <2>2, <2>4
<1> HIDE DEF P
<1>15. /\ S \in Lengths /\ Len(S) = n
       /\ \A j \in 1 .. n : S[j] = x.shape[P[j]]
  <2>1. x.shape \in Seq(Nat \ {0}) /\ Len(x.shape) = n /\ n \in Nat
    BY <1>1 DEF Lengths
  <2>2. /\ S \in Seq(Nat \ {0}) /\ Len(S) = Len(P)
        /\ \A j \in 1 .. Len(P) : S[j] = x.shape[P[j]]
    <3> DEFINE s == x.shape
    <3>1. s \in Seq(Nat \ {0}) /\ Len(s) = n /\ n \in Nat /\ P \in Seq(1 .. n)
      BY <1>14, <2>1
    <3> HIDE DEF n, s
    <3>2. /\ Along(P, s) \in Seq(Nat \ {0}) /\ Len(Along(P, s)) = Len(P)
          /\ \A j \in 1 .. Len(P) : Along(P, s)[j] = s[P[j]]
      BY ONLY <3>1, AlongIs
    <3>3. QED
      BY <3>2 DEF s
  <2> HIDE DEF S
  <2>3. QED
    BY <1>14, <2>2 DEF Lengths
<1>16. /\ T \in Lengths /\ Len(T) = n
       /\ \A j \in 1 .. n : T[j] = x.stride[P[j]]
  <2>1. /\ T \in Seq(Nat \ {0}) /\ Len(T) = Len(P)
        /\ \A j \in 1 .. Len(P) : T[j] = x.stride[P[j]]
    <3> DEFINE s == x.stride
    <3>1. s \in Seq(Nat \ {0}) /\ Len(s) = n /\ n \in Nat /\ P \in Seq(1 .. n)
      BY <1>1, <1>14
    <3> HIDE DEF n, s
    <3>2. /\ Along(P, s) \in Seq(Nat \ {0}) /\ Len(Along(P, s)) = Len(P)
          /\ \A j \in 1 .. Len(P) : Along(P, s)[j] = s[P[j]]
      BY ONLY <3>1, AlongIs
    <3>3. QED
      BY <3>2 DEF s
  <2> HIDE DEF T
  <2>2. QED
    BY <1>14, <2>1 DEF Lengths
<1> HIDE DEF S, T
<1>17. ASSUME NEW j \in 1 .. d
       PROVE  /\ S[n - j + 1] = x.shape[L[j]]
              /\ T[n - j + 1] = x.stride[L[j]]
  <2>1. /\ d - j + 1 \in 1 .. d /\ m + (d - j + 1) = n - j + 1
        /\ n - j + 1 \in 1 .. n /\ d - (d - j + 1) + 1 = j
    <3> HIDE DEF n, d, m
    <3> QED
      BY <1>1, <1>5, <1>7, <1>8
  <2>2. P[n - j + 1] = R[d - j + 1] /\ R[d - j + 1] = L[j]
    <3> HIDE DEF n, d, m
    <3> QED
      BY <1>13, <1>14, <2>1
  <2>3. QED
    BY <1>15, <1>16, <2>1, <2>2
<1>18. Paired(S, T)
  BY <1>1, <1>15, <1>16 DEF Paired
<1>19. Moved(x, D, S, T)
  <2> HIDE DEF d, m
  <2>1. Len(L) \in Nat \ {0} /\ Len(M) \in Nat \ {0}
    BY <1>7, <1>8, <1>11 DEF d, m
  <2>2. \A j \in 1 .. Len(L) : /\ S[Len(S) - j + 1] = x.shape[L[j]]
                               /\ T[Len(S) - j + 1] = x.stride[L[j]]
    BY <1>15, <1>17 DEF d
  <2>3. Len(L) + Len(M) = Len(S)
    BY <1>5, <1>15 DEF d, m
  <2>4. QED
    BY <1>6, <1>7, <1>9, <1>10, <1>12, <1>15, <1>18, <2>1, <2>2, <2>3
       DEF Moved, L, M, d
<1>20. QED
  BY <1>10, <1>19 DEF S, T

\* The chosen axes have a product, and the others that are not cut off yet are
\* of length one when nothing more is left.
LEMMA CutsOfMoved ==
  ASSUME NEW x, NEW D, IsDescriptor(x), NEW S, NEW T, Moved(x, D, S, T)
  PROVE  LET m == Len(Others(x, D))
             n == TadLength(x, D)
         IN  /\ Product(Cut(S, T, m).shape) = n
             /\ \A k \in 1 .. m :
                  /\ n <= Product(Cut(S, T, k).shape)
                  /\ Product(Cut(S, T, k).shape) \in Nat /\ n \in Nat
                  /\ Product(Cut(S, T, k).shape) = n
                       => \A j \in k + 1 .. m : S[j] = 1
<1> DEFINE l == Len(S)
           L == Chosen(x, D)
           m == Len(Others(x, D))
           d == Len(L)
           R == Seqs!Reverse(S)
           w == Products(R)
           sL == Along(L, x.shape)
           v == Products(sL)
           G == {j \in 0 .. d : w[j] = v[j]}
<1>1. /\ Paired(S, T) /\ m \in Nat \ {0} /\ d \in Nat \ {0} /\ d + m = l
      /\ L \in Seq(1 .. Len(x.shape))
      /\ \A j \in 1 .. d : S[l - j + 1] = x.shape[L[j]]
  BY DEF Moved
<1>2. S \in Lengths /\ l \in Nat /\ l > 1
  BY <1>1 DEF Paired
<1>3. /\ x.shape \in Lengths /\ Len(x.shape) \in Nat
  BY DescriptorIs
<1>4. /\ sL \in Lengths /\ Len(sL) = d
      /\ \A j \in 1 .. d : sL[j] = x.shape[L[j]]
  <2> DEFINE s == x.shape
             p == Len(s)
  <2>1. /\ s \in Seq(Nat \ {0}) /\ Len(s) = p /\ p \in Nat
        /\ L \in Seq(1 .. p)
    BY <1>1, <1>3 DEF Lengths
  <2> HIDE DEF s, p, L
  <2>2. /\ Along(L, s) \in Seq(Nat \ {0}) /\ Len(Along(L, s)) = Len(L)
        /\ \A j \in 1 .. Len(L) : Along(L, s)[j] = s[L[j]]
    BY ONLY <2>1, AlongIs
  <2>3. QED
    BY <2>2 DEF s, Lengths
<1>5. TadLength(x, D) = v[d]
  BY <1>4 DEF TadLength, Product
<1>6. /\ v[0] = 1 /\ \A j \in 1 .. d : v[j] = v[j - 1] * sL[j]
  BY <1>4, ProductsIs
<1> HIDE DEF v, sL, L
<1>7. /\ R \in Lengths /\ Len(R) = l
      /\ \A j \in 1 .. l : R[j] = S[l - j + 1]
  BY <1>2, ReverseIs DEF Lengths
<1> HIDE DEF R
<1>8. /\ w \in [0 .. l -> Nat \ {0}] /\ w[0] = 1
      /\ \A j \in 1 .. l : w[j] = w[j - 1] * R[j]
  <2> HIDE DEF l
  <2> QED
    BY <1>7, ProductsIs
<1> HIDE DEF d, m, l
<1>9. 0 \in G
  BY <1>1, <1>6, <1>8
<1>10. ASSUME NEW j \in 1 .. d, j - 1 \in G PROVE j \in G
  <2>1. j \in 0 .. d /\ j \in 1 .. l /\ w[j - 1] = v[j - 1]
    BY <1>1, <1>2, <1>10
  <2>2. R[j] = x.shape[L[j]] /\ sL[j] = x.shape[L[j]]
    BY <1>1, <1>4, <1>7, <2>1
  <2>3. QED
    BY <1>6, <1>8, <2>1, <2>2
<1>11. w[d] = v[d]
  <2> HIDE DEF G
  <2>1. \A j \in 0 .. d : j \in G
    BY <1>1, <1>9, <1>10, Climb
  <2>2. d \in G
    BY <1>1, <2>1
  <2>3. QED
    BY <2>2 DEF G
<1>12. ASSUME NEW k \in 1 .. m
       PROVE  Product(Cut(S, T, k).shape) = w[l - k]
  <2>1. k \in 0 .. Len(S) - 1
    BY <1>1, <1>2 DEF l
  <2>2. QED
    BY <1>1, <2>1, CutProduct DEF l, w, R
<1>13. Product(Cut(S, T, m).shape) = v[d]
  <2>1. m \in 1 .. m /\ l - m = d
    BY <1>1
  <2>2. QED
    BY <1>11, <1>12, <2>1
<1>14. ASSUME NEW k \in 1 .. m
       PROVE  /\ v[d] <= w[l - k] /\ w[l - k] \in Nat /\ v[d] \in Nat
              /\ w[l - k] = v[d] => \A j \in k + 1 .. m : S[j] = 1
  <2>1. d \in 0 .. l /\ l - k \in d .. l /\ l - k \in 0 .. l
    BY <1>1, <1>2
  <2>2. /\ w[d] <= w[l - k]
        /\ w[d] = w[l - k] => \A j \in d + 1 .. l - k : R[j] = 1
    <3>1. d \in 0 .. Len(R) /\ l - k \in d .. Len(R)
      BY <1>7, <2>1
    <3>2. QED
      BY <1>7, <3>1, ProductsGrow DEF w
  <2>3. w[d] \in Nat /\ w[l - k] \in Nat
    BY <1>8, <2>1
  <2>4. ASSUME w[l - k] = v[d], NEW j \in k + 1 .. m PROVE S[j] = 1
    <3>1. l - j + 1 \in d + 1 .. l - k /\ l - j + 1 \in 1 .. l
          /\ l - (l - j + 1) + 1 = j
      BY <1>1, <1>2
    <3>2. R[l - j + 1] = 1
      BY <1>11, <2>2, <2>4, <3>1
    <3>3. QED
      BY <1>7, <3>1, <3>2
  <2>5. QED
    BY <1>11, <2>2, <2>3, <2>4
<1>15. QED
  BY <1>5, <1>12, <1>13, <1>14 DEF m

\* CutTo() ends at such a cut.
LEMMA CutToIs ==
  ASSUME NEW x, NEW D, IsDescriptor(x), NEW S, NEW T, Moved(x, D, S, T)
  PROVE  \E k \in 1 .. Len(Others(x, D)) :
           /\ CutTo(Cut(S, T, 1), TadLength(x, D)) = Cut(S, T, k)
           /\ Product(Cut(S, T, k).shape) = TadLength(x, D)
<1> DEFINE m == Len(Others(x, D))
           n == TadLength(x, D)
           C(k) == Cut(S, T, k)
           z == Len(C(1).shape)
           V == {C(k) : k \in 1 .. m}
           After(y) == IF Product(y.shape) > n THEN Slice(y) ELSE y
           step == [p \in (1 .. z) \X V |-> After(p[2])]
           Def(f) == f = [j \in 0 .. z |->
                            IF j = 0 THEN C(1)
                            ELSE LET y == f[j - 1]
                                 IN  IF Product(y.shape) > n THEN Slice(y)
                                     ELSE y]
           v == CHOOSE f : Def(f)
           At(j, k) == /\ v[j] = C(k)
                       /\ Product(C(k).shape) = n \/ k = j + 1
           G == {j \in 0 .. z : \E k \in 1 .. m : At(j, k)}
<1>1. /\ Paired(S, T) /\ Len(S) \in Nat /\ Len(S) > 1
      /\ m \in Nat \ {0} /\ m <= Len(S) - 1
  <2>1. /\ Paired(S, T) /\ m \in Nat \ {0}
        /\ Len(Chosen(x, D)) \in Nat \ {0}
        /\ Len(Chosen(x, D)) + m = Len(S)
    BY DEF Moved
  <2>2. QED
    BY <2>1 DEF Paired
<1>2. /\ Product(C(m).shape) = n /\ n \in Nat
      /\ \A k \in 1 .. m : Product(C(k).shape) \in Nat
                           /\ n <= Product(C(k).shape)
  <2>1. m \in 1 .. m
    BY <1>1
  <2>2. QED
    BY <2>1, CutsOfMoved
<1>3. ASSUME NEW k \in 1 .. m, Product(C(k).shape) # n
      PROVE  k + 1 \in 1 .. m /\ After(C(k)) = C(k + 1)
  <2>1. k # m
    BY <1>2, <1>3
  <2>2. k + 1 \in 1 .. m /\ k \in 0 .. Len(S) - 2
    BY <1>1, <2>1
  <2>3. Slice(C(k)) = C(k + 1)
    BY <1>1, <2>2, CutNext
  <2>4. Product(C(k).shape) > n
    BY <1>2, <1>3
  <2>5. QED
    BY <2>2, <2>3, <2>4
<1>4. ASSUME NEW k \in 1 .. m, Product(C(k).shape) = n
      PROVE  After(C(k)) = C(k)
  BY <1>2, <1>4
<1>5. z \in Nat /\ m <= z
  <2>1. 1 \in 0 .. Len(S) - 1
    BY <1>1
  <2>2. CASE 1 < Len(S) - 1
    <3>1. C(1).shape = Suffix(S, 1)
      BY <1>1, <2>1, <2>2, CutIs
    <3>2. S \in Lengths /\ 1 \in 0 .. Len(S)
      BY <1>1 DEF Paired
    <3>3. Len(Suffix(S, 1)) = Len(S) - 1
      BY <3>2, SuffixIs
    <3> HIDE DEF C
    <3>4. QED
      BY <1>1, <3>1, <3>3
  <2>3. CASE ~ (1 < Len(S) - 1)
    <3>1. 1 = Len(S) - 1
      <4>1. Len(S) \in Nat /\ Len(S) > 1
        BY <1>1
      <4>2. \A l \in Nat : l > 1 /\ ~ (1 < l - 1) => 1 = l - 1
        OBVIOUS
      <4>3. QED
        BY <2>3, <4>1, <4>2
    <3>2. C(1).shape = <<1, S[Len(S)]>>
      BY <1>1, <2>1, <3>1, CutIs
    <3>a. Len(<<1, S[Len(S)]>>) = 2
      OBVIOUS
    <3> HIDE DEF C
    <3>3. z = 2
      BY <3>2, <3>a
    <3>4. QED
      BY <1>1, <3>1, <3>3
  <2>4. QED
    BY <2>2, <2>3
<1> HIDE DEF C, z, n, m
<1>6. C(1) \in V
  BY <1>1
<1>7. step \in [(1 .. z) \X V -> V]
  <2>1. ASSUME NEW y \in V PROVE After(y) \in V
    <3>1. PICK k \in 1 .. m : y = C(k)
      OBVIOUS
    <3> HIDE DEF After
    <3>2. CASE Product(C(k).shape) = n
      BY <1>4, <3>1, <3>2
    <3>3. CASE Product(C(k).shape) # n
      BY <1>3, <3>1, <3>3
    <3>4. QED
      BY <3>2, <3>3
  <2> HIDE DEF V, After
  <2>2. QED
    BY <2>1
<1>8. PICK f : Runs(f, z, V, C(1), step)
  <2> HIDE DEF V, step
  <2> QED
    BY <1>5, <1>6, <1>7, Recursion
<1>9. /\ f \in [0 .. z -> V] /\ f[0] = C(1)
      /\ \A j \in 1 .. z : f[j] = step[<<j, f[j - 1]>>]
  <2> HIDE DEF V, step
  <2> QED
    BY <1>8 DEF Runs
<1>10. \A j \in 1 .. z : f[j] = After(f[j - 1])
  <2> TAKE j \in 1 .. z
  <2>1. f[j - 1] \in V /\ f[j] = step[<<j, f[j - 1]>>]
    <3> HIDE DEF V, step
    <3> QED
      BY <1>5, <1>9
  <2>2. step[<<j, f[j - 1]>>] = After(f[j - 1])
    <3> HIDE DEF V, After
    <3> QED
      BY <2>1
  <2>3. QED
    BY <2>1, <2>2
<1>11. Def(f)
  <2>1. f = [j \in 0 .. z |-> f[j]]
    <3> HIDE DEF V, step
    <3> QED
      BY <1>9
  <2>2. \A j \in 0 .. z :
          f[j] = IF j = 0 THEN C(1)
                 ELSE LET y == f[j - 1]
                      IN  IF Product(y.shape) > n THEN Slice(y) ELSE y
    <3> TAKE j \in 0 .. z
    <3>1. CASE j = 0
      <4> HIDE DEF V, step
      <4> QED
        BY <1>9, <3>1
    <3>2. CASE j # 0
      <4>1. j \in 1 .. z
        BY <1>5, <3>2
      <4>2. f[j] = After(f[j - 1])
        BY <1>10, <4>1
      <4>3. QED
        BY <3>2, <4>2
    <3>3. QED
      BY <3>1, <3>2
  <2>3. QED
    BY <2>1, <2>2, Zenon
<1>12. Def(v)
  <2> HIDE DEF Def
  <2> QED
    BY <1>11
<1>13. CutTo(C(1), n) = v[z]
  BY DEF CutTo, z
<1> HIDE DEF v
<1>14. v[0] = C(1) /\ \A j \in 1 .. z : v[j] = After(v[j - 1])
  <2>1. 0 \in 0 .. z
    BY <1>5
  <2>2. v[0] = C(1)
    BY <1>12, <2>1, Zenon
  <2>3. ASSUME NEW j \in 1 .. z PROVE v[j] = After(v[j - 1])
    <3>1. j \in 0 .. z /\ j # 0
      BY <1>5
    <3>2. QED
      BY <1>12, <3>1, Zenon
  <2>4. QED
    BY <2>2, <2>3
<1> HIDE DEF Def, After, V, step
<1>15. 0 \in G
  <2>1. 1 \in 1 .. m /\ At(0, 1)
    BY <1>1, <1>14
  <2> HIDE DEF At
  <2>2. QED
    BY <1>5, <2>1
<1>16. ASSUME NEW j \in 1 .. z, j - 1 \in G PROVE j \in G
  <2>1. PICK k \in 1 .. m : At(j - 1, k)
    <3> HIDE DEF At
    <3> QED
      BY <1>16
  <2>2. v[j] = After(C(k))
    BY <1>14, <2>1
  <2>3. CASE Product(C(k).shape) = n
    <3>1. At(j, k)
      BY <1>4, <2>2, <2>3
    <3> HIDE DEF At
    <3>2. QED
      BY <1>5, <3>1
  <2>4. CASE Product(C(k).shape) # n
    <3>1. k = (j - 1) + 1
      BY <2>1, <2>4
    <3>2. k + 1 \in 1 .. m /\ v[j] = C(k + 1)
      BY <1>3, <2>2, <2>4
    <3>3. k + 1 = j + 1
      BY <1>5, <3>1
    <3>4. At(j, k + 1)
      BY <3>2, <3>3
    <3> HIDE DEF At
    <3>5. QED
      BY <1>5, <3>2, <3>4
  <2>5. QED
    BY <2>3, <2>4
<1>17. \A j \in 0 .. z : j \in G
  <2> HIDE DEF G
  <2> QED
    BY <1>5, <1>15, <1>16, Climb
<1>18. PICK k \in 1 .. m : At(z, k)
  <2>1. z \in G
    BY <1>5, <1>17
  <2> HIDE DEF At
  <2>2. QED
    BY <2>1
<1>19. k # z + 1
  BY <1>1, <1>5
<1>20. v[z] = C(k) /\ Product(C(k).shape) = n
  BY <1>18, <1>19
<1>21. QED
  BY <1>13, <1>20 DEF C, n, m

\* To cut off an axis of length one leaves the product.
LEMMA CutOfOne ==
  ASSUME NEW S, NEW T, Paired(S, T), NEW k \in 0 .. Len(S) - 2, S[k + 1] = 1
  PROVE  Product(Cut(S, T, k).shape) = Product(Cut(S, T, k + 1).shape)
<1> DEFINE n == Len(S)
           R == Seqs!Reverse(S)
           w == Products(R)
<1>1. S \in Lengths /\ n \in Nat /\ n > 1
  BY DEF Paired, Lengths
<1>2. R \in Lengths /\ Len(R) = n /\ \A j \in 1 .. n : R[j] = S[n - j + 1]
  BY <1>1, ReverseIs DEF Lengths
<1>3. /\ k \in 0 .. n - 1 /\ k + 1 \in 0 .. n - 1 /\ n - k \in 1 .. n
      /\ (n - k) - 1 = n - (k + 1) /\ n - (n - k) + 1 = k + 1
      /\ n - (k + 1) \in 0 .. n
  BY <1>1
<1>4. /\ Product(Cut(S, T, k).shape) = w[n - k]
      /\ Product(Cut(S, T, k + 1).shape) = w[n - (k + 1)]
  BY <1>3, CutProduct
<1>5. /\ w[n - k] = w[(n - k) - 1] * R[n - k]
      /\ w[n - (k + 1)] \in Nat
  <2> HIDE DEF R, n
  <2>1. /\ w \in [0 .. Len(R) -> Nat \ {0}]
        /\ \A j \in 1 .. Len(R) : w[j] = w[j - 1] * R[j]
    BY <1>2, ProductsIs
  <2> HIDE DEF w
  <2>2. QED
    BY <1>2, <1>3, <2>1
<1>6. R[n - k] = 1
  BY <1>2, <1>3
<1> HIDE DEF w, R
<1>7. QED
  BY <1>3, <1>4, <1>5, <1>6

\* The way the axes are cut off does not matter.
Sorted(x, D, S, T, k) ==
  \/ /\ FromSlices(x, D) = Cut(S, T, k)
     /\ \A j \in 2 .. Len(Chosen(x, D)) : x.shape[Chosen(x, D)[j]] = 1
  \/ FromSlices(x, D) = Reversed(Cut(S, T, k)) /\ k <= Len(S) - 2

\* Each of the three ways ends at such a cut, put back in order or not as
\* Sorted says.
LEMMA FromSlicesIs ==
  ASSUME NEW x, NEW D, IsDescriptor(x), NEW S, NEW T, Moved(x, D, S, T),
         ~ \E a \in D : D = {a} /\ x.shape[a] = 1
  PROVE  \E k \in 1 .. Len(Others(x, D)) :
           /\ Product(Cut(S, T, k).shape) = TadLength(x, D)
           /\ Sorted(x, D, S, T, k)
<1> DEFINE L == Chosen(x, D)
           d == Len(L)
           m == Len(Others(x, D))
           l == Len(S)
           n == TadLength(x, D)
           C(k) == Cut(S, T, k)
           first == C(1)
           InOrderOf(y) == IF Cardinality(D) > 1 THEN Reversed(y) ELSE y
           Is(y, k) == \/ /\ y = C(k)
                          /\ \A j \in 2 .. d : x.shape[L[j]] = 1
                       \/ y = Reversed(C(k)) /\ k <= l - 2
           Right(y) == \E k \in 1 .. m : Product(C(k).shape) = n /\ Is(y, k)
<1>1. /\ Paired(S, T) /\ m \in Nat \ {0} /\ d \in Nat \ {0} /\ d + m = l
      /\ \A j \in 1 .. d : S[l - j + 1] = x.shape[L[j]]
      /\ Cardinality(D) = d
      /\ d = 1 => D = {L[1]}
      /\ Permuted(x, MovedAxes(x, D)) = Described(S, T, -1)
  BY DEF Moved
<1>2. S \in Lengths /\ l \in Nat /\ l > 1
  BY <1>1 DEF Paired
<1>3. Product(C(m).shape) = n
  BY CutsOfMoved
<1>4. first = Slice(Permuted(x, MovedAxes(x, D)))
  <2>1. 0 \in 0 .. Len(S) - 2 /\ 0 + 1 = 1
    BY <1>2
  <2>2. Slice(Cut(S, T, 0)) = Cut(S, T, 0 + 1)
    BY <1>1, <2>1, CutNext
  <2>3. Cut(S, T, 0) = Described(S, T, -1)
    BY <1>1, CutNext
  <2>4. QED
    BY <1>1, <2>1, <2>2, <2>3
<1>5. FromSlices(x, D)
        = IF IsVector(first.shape) \/ Product(first.shape) = n
          THEN InOrderOf(first)
          ELSE IF Product(Tail(first.shape)) = n
          THEN LET y == Slice(first)
               IN  IF IsVector(y.shape) /\ y.shape[1] = 1 THEN y
                   ELSE Reversed(y)
          ELSE InOrderOf(CutTo(first, n))
  <2> HIDE DEF C, n
  <2> QED
    BY <1>4 DEF FromSlices, MovedAxes, n
<1>6. /\ l \in Nat /\ l > 1 /\ m \in Nat /\ m # 0 /\ d \in Nat /\ d # 0
      /\ d + m = l
  BY <1>1, <1>2
<1>a. /\ 1 \in 1 .. m /\ m \in 1 .. m /\ 1 \in 1 .. d
      /\ \A j \in 1 .. d : S[l - j + 1] = x.shape[L[j]]
  <2>1. \A j \in 1 .. d : S[l - j + 1] = x.shape[L[j]]
    BY <1>1
  <2> HIDE DEF l, d, m, L
  <2>2. QED
    BY <1>6, <2>1
<1>b. l >= 3 => /\ first.shape = Suffix(S, 1)
                /\ Len(Suffix(S, 1)) = l - 1
                /\ \A j \in 1 .. l - 1 : Suffix(S, 1)[j] = S[j + 1]
                /\ Tail(Suffix(S, 1)) = Suffix(S, 2)
                /\ Slice(first) = C(2)
  <2> HAVE l >= 3
  <2>1. /\ 1 \in 0 .. l - 1 /\ 1 < l - 1 /\ 1 \in 0 .. l /\ 1 < l
        /\ 1 \in 0 .. l - 2 /\ 1 + 1 = 2
    <3> HIDE DEF l
    <3> QED
      BY <1>6
  <2>2. first.shape = Suffix(S, 1)
    BY <1>1, <2>1, CutIs
  <2>3. Slice(C(1)) = C(1 + 1)
    BY <1>1, <2>1, CutNext
  <2>4. /\ Len(Suffix(S, 1)) = l - 1
        /\ \A j \in 1 .. l - 1 : Suffix(S, 1)[j] = S[j + 1]
        /\ Tail(Suffix(S, 1)) = Suffix(S, 1 + 1)
    BY <1>2, <2>1, SuffixIs
  <2> HIDE DEF C
  <2>5. QED
    BY <2>1, <2>2, <2>3, <2>4
<1>c. \A k \in 0 .. l - 1 :
        C(k).shape = IF k < l - 1 THEN Suffix(S, k) ELSE <<1, S[l]>>
  <2> TAKE k \in 0 .. l - 1
  <2>1. k < l - 1 \/ k = l - 1
    <3> HIDE DEF l
    <3> QED
      BY <1>6
  <2>2. CASE k < l - 1
    BY <1>1, <2>2, CutIs
  <2>3. CASE k = l - 1
    <3>1. C(k).shape = <<1, S[l]>> /\ ~ (k < l - 1)
      <4>1. ~ (k < l - 1)
        <5> HIDE DEF l
        <5> QED
          BY <1>6, <2>3
      <4>2. QED
        BY <1>1, <2>3, <4>1, CutIs
    <3> HIDE DEF C, l
    <3>2. QED
      BY <3>1
  <2> HIDE DEF C, l
  <2>4. QED
    BY <2>1, <2>2, <2>3
<1>d. \A k \in 0 .. l : /\ Len(Suffix(S, k)) = l - k
                        /\ \A j \in 1 .. l - k : Suffix(S, k)[j] = S[j + k]
  BY <1>2, SuffixIs
<1>e. \A k \in 0 .. l - 2 :
        S[k + 1] = 1 => Product(C(k).shape) = Product(C(k + 1).shape)
  BY <1>1, CutOfOne
<1>f. d = 1 => D = {L[1]} /\ S[l] # 1
  <2> HAVE d = 1
  <2>1. D = {L[1]} /\ S[l - 1 + 1] = x.shape[L[1]]
    BY <1>1, <1>a
  <2>2. l - 1 + 1 = l
    <3> HIDE DEF l
    <3> QED
      BY <1>6
  <2>3. QED
    BY <2>1, <2>2
<1>g. d > 1 <=> Cardinality(D) > 1
  BY <1>1
<1> HIDE DEF l, d, m, C, n, L
<1>h. ASSUME NEW k \in 1 .. m, Product(C(k).shape) = n
      PROVE  Right(InOrderOf(C(k)))
  <2>1. Is(InOrderOf(C(k)), k)
    <3>1. CASE d > 1
      <4>1. k <= l - 2
        BY <1>6, <3>1
      <4>2. QED
        BY <1>g, <3>1, <4>1
    <3>2. CASE ~ (d > 1)
      <4>1. \A j \in 2 .. d : FALSE
        BY <1>6, <3>2
      <4>2. QED
        BY <1>g, <3>2, <4>1
    <3>3. QED
      BY <3>1, <3>2
  <2> HIDE DEF Is, InOrderOf
  <2>2. QED
    BY <1>h, <2>1
<1>9. ASSUME IsVector(first.shape) \/ Product(first.shape) = n
      PROVE  Right(FromSlices(x, D))
  <2>1. Product(first.shape) = n
    <3>1. CASE m = 1
      BY <1>3, <3>1
    <3>2. CASE m # 1 /\ IsVector(first.shape)
      <4>1. l >= 3
        BY <1>6, <3>2
      <4>2. Len(Suffix(S, 1)) = 2
        BY <1>b, <3>2, <4>1 DEF IsVector
      <4>3. l = 3 /\ m = 2 /\ d = 1
        BY <1>6, <1>b, <3>2, <4>1, <4>2
      <4>4. first.shape[1] = S[2] /\ first.shape[2] = S[3]
        <5>1. 1 \in 1 .. l - 1 /\ 2 \in 1 .. l - 1 /\ 1 + 1 = 2 /\ 2 + 1 = 3
          BY <4>3
        <5>2. QED
          BY <1>b, <4>1, <5>1
      <4>5. S[2] = 1
        BY <1>f, <3>2, <4>3, <4>4 DEF IsVector
      <4>6. 1 \in 0 .. l - 2 /\ 1 + 1 = 2
        BY <4>3
      <4>7. Product(C(1).shape) = Product(C(2).shape)
        BY <1>e, <4>5, <4>6
      <4>8. QED
        BY <1>3, <4>3, <4>7
    <3>3. QED
      BY <1>9, <3>1, <3>2
  <2>2. Right(InOrderOf(first))
    <3> HIDE DEF Right, InOrderOf
    <3> QED
      BY <1>a, <1>h, <2>1
  <2>3. FromSlices(x, D) = InOrderOf(first)
    BY <1>5, <1>9
  <2> HIDE DEF Right, InOrderOf
  <2>4. QED
    BY <2>2, <2>3
<1>10. ASSUME ~ (IsVector(first.shape) \/ Product(first.shape) = n),
              Product(Tail(first.shape)) = n
       PROVE  Right(FromSlices(x, D))
  <2>1. m # 1
    BY <1>3, <1>10
  <2>2. l >= 3 /\ 2 \in 1 .. m /\ 2 \in 0 .. l - 1 /\ 2 \in 0 .. l
    BY <1>6, <2>1
  <2>3. FromSlices(x, D) = IF IsVector(C(2).shape) /\ C(2).shape[1] = 1
                           THEN C(2) ELSE Reversed(C(2))
    <3> HIDE DEF InOrderOf
    <3> QED
      BY <1>5, <1>b, <1>10, <2>2
  <2>4. Product(C(2).shape) = n /\ Is(FromSlices(x, D), 2)
    <3>1. CASE l = 3
      <4>1. m = 2 /\ d = 1
        BY <1>6, <2>1, <3>1
      <4>2. C(2).shape = <<1, S[l]>>
        BY <1>c, <2>2, <3>1
      <4>3. Len(<<1, S[l]>>) = 2 /\ <<1, S[l]>>[1] = 1
        OBVIOUS
      <4>4. IsVector(C(2).shape) /\ C(2).shape[1] = 1
        BY <4>2, <4>3 DEF IsVector
      <4>5. FromSlices(x, D) = C(2) /\ \A j \in 2 .. d : FALSE
        BY <2>3, <4>1, <4>4
      <4>6. Product(C(2).shape) = n
        BY <1>3, <4>1
      <4>7. QED
        BY <4>5, <4>6
    <3>2. CASE l # 3
      <4>1. 2 < l - 1 /\ 2 <= l - 2
        BY <1>6, <2>2, <3>2
      <4>2. C(2).shape = Suffix(S, 2)
        BY <1>c, <2>2, <4>1
      <4>3. Product(C(2).shape) = n
        BY <1>b, <1>10, <2>2, <4>2
      <4>4. CASE IsVector(C(2).shape) /\ C(2).shape[1] = 1
        <5>1. /\ Len(Suffix(S, 2)) = l - 2
              /\ \A j \in 1 .. l - 2 : Suffix(S, 2)[j] = S[j + 2]
          BY <1>d, <2>2
        <5>2. Len(Suffix(S, 2)) = 2
          BY <4>2, <4>4 DEF IsVector
        <5>a. l - 2 = 2
          BY <5>1, <5>2
        <5>3. l = 4
          BY <1>6, <5>a
        <5>4. 1 \in 1 .. l - 2 /\ 1 + 2 = 3
          BY <5>3
        <5>5. S[3] = 1
          BY <4>2, <4>4, <5>1, <5>4
        <5>6. ASSUME NEW j \in 2 .. d PROVE x.shape[L[j]] = 1
          <6>1. j \in 1 .. d /\ l - j + 1 = 3
            BY <1>6, <2>1, <5>3
          <6>2. QED
            BY <1>a, <5>5, <6>1
        <5>7. QED
          BY <2>3, <4>3, <4>4, <5>6
      <4>5. CASE ~ (IsVector(C(2).shape) /\ C(2).shape[1] = 1)
        BY <2>3, <4>1, <4>3, <4>5
      <4>6. QED
        BY <4>4, <4>5
    <3>3. QED
      BY <3>1, <3>2
  <2> HIDE DEF Is
  <2>5. QED
    BY <2>2, <2>4
<1>11. ASSUME ~ (IsVector(first.shape) \/ Product(first.shape) = n),
              Product(Tail(first.shape)) # n
       PROVE  Right(FromSlices(x, D))
  <2>1. PICK k \in 1 .. m : CutTo(C(1), n) = C(k) /\ Product(C(k).shape) = n
    BY CutToIs DEF C, n, m
  <2>2. Right(InOrderOf(C(k)))
    <3> HIDE DEF Right, InOrderOf
    <3> QED
      BY <1>h, <2>1
  <2>3. FromSlices(x, D) = InOrderOf(C(k))
    <3> HIDE DEF InOrderOf
    <3> QED
      BY <1>5, <1>11, <2>1
  <2> HIDE DEF Right, InOrderOf
  <2>4. QED
    BY <2>2, <2>3
<1>12. Right(FromSlices(x, D))
  <2> HIDE DEF Right
  <2> QED
    BY <1>9, <1>10, <1>11
<1>13. PICK k \in 1 .. m : Product(C(k).shape) = n /\ Is(FromSlices(x, D), k)
  <2> HIDE DEF Is
  <2> QED
    BY <1>12
<1>14. Sorted(x, D, S, T, k)
  BY <1>13 DEF Sorted, C, d, l, L
<1>15. QED
  BY <1>13, <1>14 DEF m, C, n

-----------------------------------------------------------------------------
(* What is read through the descriptor that all slices share.              *)

\* Element k of the slice at base; few: there is one slice only.
ReadAt(y, base, few, k) ==
  IF y.ews > 0 /\ (few \/ IsVector(y.shape)) THEN base + k * y.ews
  ELSE Offset(base, y.shape, y.stride, CCoordinates(y.shape, k))

\* An array with its axes in the opposite order.
LEMMA ReversedIs ==
  ASSUME NEW y, y.shape \in Lengths, y.stride \in Lengths,
         Len(y.stride) = Len(y.shape)
  PROVE  LET z == Reversed(y)
             n == Len(y.shape)
         IN  /\ z.shape \in Lengths /\ z.stride \in Lengths
             /\ Len(z.shape) = n /\ Len(z.stride) = n
             /\ z.ews = -1
             /\ \A j \in 1 .. n : /\ z.shape[j] = y.shape[n - j + 1]
                                  /\ z.stride[j] = y.stride[n - j + 1]
<1> DEFINE n == Len(y.shape)
           I == [a \in 1 .. n |-> a]
           P == Seqs!Reverse(I)
           s == y.shape
           t == y.stride
<1>1. n \in Nat /\ Axes(y) = 1 .. n /\ Len(t) = n
  BY DEF Lengths, Axes
<1>2. I \in Seq(1 .. n) /\ Len(I) = n /\ \A j \in 1 .. n : I[j] = j
  BY <1>1
<1>3. Reversed(y) = Described(Along(P, s), Along(P, t), -1)
  BY <1>1 DEF Reversed, Permuted
<1> HIDE DEF I
<1>4. /\ P \in Seq(1 .. n) /\ Len(P) = n
      /\ \A j \in 1 .. n : P[j] = I[n - j + 1]
  <2> HIDE DEF n
  <2>1. /\ P \in Seq(1 .. n) /\ Len(P) = Len(I)
        /\ \A j \in 1 .. Len(I) : P[j] = I[Len(I) - j + 1]
    BY <1>2, ReverseIs
  <2> HIDE DEF P
  <2>2. QED
    BY <1>2, <2>1
<1> HIDE DEF P
<1>5. \A j \in 1 .. n : P[j] = n - j + 1
  <2> TAKE j \in 1 .. n
  <2>1. n - j + 1 \in 1 .. n
    BY <1>1
  <2>2. QED
    BY <1>2, <1>4, <2>1
<1>6. /\ s \in Seq(Nat \ {0}) /\ t \in Seq(Nat \ {0})
      /\ Len(s) = n /\ Len(t) = n /\ n \in Nat /\ P \in Seq(1 .. n)
  BY <1>1, <1>4 DEF Lengths
<1> DEFINE Read(r) ==
             /\ Along(P, r) \in Seq(Nat \ {0}) /\ Len(Along(P, r)) = Len(P)
             /\ \A j \in 1 .. Len(P) : Along(P, r)[j] = r[P[j]]
<1>7. ASSUME NEW r \in Seq(Nat \ {0}), Len(r) = n PROVE Read(r)
  <2>1. n \in Nat /\ P \in Seq(1 .. n)
    BY <1>6
  <2> HIDE DEF n, P
  <2>2. QED
    BY ONLY <1>7, <2>1, AlongIs
<1> HIDE DEF n, s, t, Read
<1>8. Read(s)
  BY ONLY <1>6, <1>7
<1>9. Read(t)
  BY ONLY <1>6, <1>7
<1>10. LET z == Reversed(y)
      IN  /\ z.shape = Along(P, s) /\ z.stride = Along(P, t) /\ z.ews = -1
  BY <1>3 DEF Described
<1>11. QED
  BY <1>4, <1>5, <1>8, <1>9, <1>10 DEF Lengths, Read, n, s, t

\* A row is read by its one distance, or along its last axis.
LEMMA RowReads ==
  ASSUME NEW y, y.shape \in Lengths, y.stride \in Lengths,
         Len(y.stride) = Len(y.shape), Len(y.shape) > 0,
         \A j \in 1 .. Len(y.shape) - 1 : y.shape[j] = 1,
         y.ews > 0 => y.ews = y.stride[Len(y.shape)],
         NEW v \in 0 .. y.shape[Len(y.shape)] - 1, NEW base \in Int, NEW few
  PROVE  ReadAt(y, base, few, v) = base + v * y.stride[Len(y.shape)]
<1>1. y.stride \in Seq(Int)
  BY DEF Lengths
<1>2. Offset(base, y.shape, y.stride, CCoordinates(y.shape, v))
        = base + v * y.stride[Len(y.shape)]
  BY <1>1, RowIsRead
<1>3. QED
  BY <1>2 DEF ReadAt

\* The first of the chosen axes, when the others are of length one.
LEMMA FirstChosen ==
  ASSUME NEW x, NEW D, Sliceable(x, D), NEW c \in Cells(x.shape),
         NEW a, a = Chosen(x, D)[1],
         \A j \in 2 .. Len(Chosen(x, D)) : x.shape[Chosen(x, D)[j]] = 1
  PROVE  /\ Nth(Chosen(x, D), x, c) = c[a]
         /\ Reach(Chosen(x, D), x, c) = c[a] * x.stride[a]
         /\ c[a] \in 0 .. x.shape[a] - 1
         /\ a \in 1 .. Len(x.shape)
<1> DEFINE L == Chosen(x, D)
<1>1. IsDescriptor(x) /\ Digits(x.shape, c)
  BY DescriptorIs, CellsAre DEF Sliceable
<1>2. L \in Seq(1 .. Len(x.shape)) /\ Len(L) > 0
  <2>1. L \in Seq(1 .. Len(x.shape)) /\ Len(L) \in Nat \ {0}
    BY MovedIs DEF Moved
  <2> HIDE DEF L
  <2>2. QED
    BY <2>1
<1>3. a \in 1 .. Len(x.shape)
  <2> HIDE DEF L
  <2>1. L[1] \in 1 .. Len(x.shape)
    BY <1>2
  <2>2. QED
    BY <2>1 DEF L
<1>4. \A j \in 2 .. Len(L) : x.shape[L[j]] = 1
  OBVIOUS
<1>5. L[1] = a
  OBVIOUS
<1> HIDE DEF L
<1>6. /\ Nth(L, x, c) = c[L[1]]
      /\ Reach(L, x, c) = c[L[1]] * x.stride[L[1]]
      /\ c[L[1]] \in 0 .. x.shape[L[1]] - 1
  BY <1>1, <1>2, <1>4, FirstOfList
<1>7. QED
  BY <1>3, <1>5, <1>6 DEF L

\* One chosen axis.
LEMMA OneChosen ==
  ASSUME NEW x, NEW a, Sliceable(x, {a})
  PROVE  Chosen(x, {a})[1] = a /\ Len(Chosen(x, {a})) = 1
<1>1. PICK S, T : Moved(x, {a}, S, T)
  BY MovedIs
<1>2. /\ Cardinality({a}) = Len(Chosen(x, {a}))
      /\ Len(Chosen(x, {a})) = 1 => {a} = {Chosen(x, {a})[1]}
  BY ONLY <1>1 DEF Moved
<1>3. Cardinality({a}) = 1
  BY FS_Singleton
<1>4. QED
  BY <1>2, <1>3

\* The elements of a slice, if its axes are cut out of the moved array.
LEMMA CutReads ==
  ASSUME NEW x, NEW D, Sliceable(x, D), NEW c \in Cells(x.shape),
         ~ \E a \in D : D = {a} /\ x.shape[a] = 1,
         NEW base \in Int, NEW few
  PROVE  ReadAt(FromSlices(x, D), base, few, Nth(Chosen(x, D), x, c))
           = base + Reach(Chosen(x, D), x, c)
<1> DEFINE S == Along(MovedAxes(x, D), x.shape)
           T == Along(MovedAxes(x, D), x.stride)
           L == Chosen(x, D)
           d == Len(L)
           m == Len(Others(x, D))
           l == Len(S)
           y == FromSlices(x, D)
           v == Nth(L, x, c)
<1>1. IsDescriptor(x) /\ Digits(x.shape, c) /\ Moved(x, D, S, T)
  BY DescriptorIs, CellsAre, MovedIs DEF Sliceable
<1> HIDE DEF S, T
<1>2. /\ S \in Lengths /\ T \in Lengths /\ Len(T) = l /\ Paired(S, T)
      /\ l \in Nat /\ l > 1 /\ d \in Nat \ {0} /\ m \in Nat \ {0}
      /\ d + m = l /\ L \in Seq(1 .. Len(x.shape))
  BY <1>1 DEF Moved, Paired, Lengths
<1>3. \A j \in 1 .. d : /\ S[l - j + 1] = x.shape[L[j]]
                        /\ T[l - j + 1] = x.stride[L[j]]
  BY <1>1 DEF Moved
<1>4. PICK k \in 1 .. m : /\ Product(Cut(S, T, k).shape) = TadLength(x, D)
                          /\ Sorted(x, D, S, T, k)
  BY <1>1, FromSlicesIs
<1>5. \A j \in k + 1 .. m : S[j] = 1
  BY <1>1, <1>4, CutsOfMoved
<1>6. k \in 0 .. l - 1 /\ (k < l - 1 \/ k = l - 1) /\ 1 \in 1 .. d
      /\ l - 1 + 1 = l /\ k \in 0 .. l /\ l \in 1 .. l
  <2> HIDE DEF l, d, m
  <2> QED
    BY <1>2
<1>7. /\ k < l - 1 => LET z == Cut(S, T, k)
                      IN  /\ z.shape = Suffix(S, k) /\ z.stride = Suffix(T, k)
                          /\ z.ews = -1
      /\ k = l - 1 => LET z == Cut(S, T, k)
                      IN  /\ z.shape = <<1, S[l]>> /\ z.stride = <<1, T[l]>>
                          /\ z.ews = T[l]
  BY <1>2, <1>6, CutIs
<1>8. /\ Suffix(S, k) \in Lengths /\ Len(Suffix(S, k)) = l - k
      /\ \A j \in 1 .. l - k : Suffix(S, k)[j] = S[j + k]
      /\ Suffix(T, k) \in Lengths /\ Len(Suffix(T, k)) = l - k
      /\ \A j \in 1 .. l - k : Suffix(T, k)[j] = T[j + k]
  <2>1. k \in 0 .. Len(S) /\ k \in 0 .. Len(T)
    BY <1>2, <1>6
  <2>2. /\ Suffix(S, k) \in Lengths /\ Len(Suffix(S, k)) = l - k
        /\ \A j \in 1 .. l - k : Suffix(S, k)[j] = S[j + k]
    BY <1>2, <2>1, SuffixIs
  <2>3. /\ Suffix(T, k) \in Lengths /\ Len(Suffix(T, k)) = Len(T) - k
        /\ \A j \in 1 .. Len(T) - k : Suffix(T, k)[j] = T[j + k]
    BY <1>2, <2>1, SuffixIs
  <2> HIDE DEF l
  <2>4. QED
    BY <1>2, <2>2, <2>3
<1>9. S[l] = x.shape[L[1]] /\ T[l] = x.stride[L[1]]
  <2>1. S[l - 1 + 1] = x.shape[L[1]] /\ T[l - 1 + 1] = x.stride[L[1]]
    BY <1>3, <1>6
  <2> HIDE DEF l, d, L
  <2>2. QED
    BY <1>6, <2>1
<1>10. CASE /\ y = Cut(S, T, k)
            /\ \A j \in 2 .. d : x.shape[L[j]] = 1
  <2> DEFINE a == L[1]
  <2>1. /\ v = c[a] /\ Reach(L, x, c) = c[a] * x.stride[a]
        /\ c[a] \in 0 .. x.shape[a] - 1
    BY <1>10, FirstChosen
  <2> HIDE DEF a, v, y, l, d, m
  <2>2. /\ y.shape \in Lengths /\ y.stride \in Lengths
        /\ Len(y.stride) = Len(y.shape) /\ Len(y.shape) > 0
        /\ \A j \in 1 .. Len(y.shape) - 1 : y.shape[j] = 1
        /\ y.ews > 0 => y.ews = y.stride[Len(y.shape)]
        /\ y.shape[Len(y.shape)] = S[l] /\ y.stride[Len(y.shape)] = T[l]
    <3>1. CASE k < l - 1
      <4>1. /\ y.shape = Suffix(S, k) /\ y.stride = Suffix(T, k)
            /\ y.ews = -1 /\ Len(y.shape) = l - k
        BY <1>7, <1>8, <1>10, <3>1
      <4>2. \A j \in 1 .. l - k - 1 : S[j + k] = 1
        <5> TAKE j \in 1 .. l - k - 1
        <5>1. CASE j + k <= m
          <6>1. j + k \in k + 1 .. m
            BY <1>2, <1>6, <5>1
          <6>2. QED
            BY <1>5, <6>1
        <5>2. CASE ~ (j + k <= m)
          <6> DEFINE i == l - (j + k) + 1
          <6>1. i \in 2 .. d /\ i \in 1 .. d /\ l - i + 1 = j + k
            BY <1>2, <1>6, <5>2
          <6> HIDE DEF i
          <6>2. x.shape[L[i]] = 1 /\ S[l - i + 1] = x.shape[L[i]]
            BY <1>3, <1>10, <6>1
          <6>3. QED
            BY <6>1, <6>2
        <5>3. QED
          BY <5>1, <5>2
      <4>3. \A j \in 1 .. l - k - 1 : Suffix(S, k)[j] = 1
        <5> TAKE j \in 1 .. l - k - 1
        <5>1. j \in 1 .. l - k
          BY <1>6
        <5>2. QED
          BY <1>8, <4>2, <5>1
      <4>4. l - k \in 1 .. l - k /\ l - k + k = l /\ l - k > 0
        BY <1>2, <1>6, <3>1
      <4>5. Suffix(S, k)[l - k] = S[l] /\ Suffix(T, k)[l - k] = T[l]
        BY <1>8, <4>4
      <4>6. ~ (y.ews > 0)
        BY <4>1
      <4>7. QED
        BY <1>8, <4>1, <4>3, <4>4, <4>5, <4>6
    <3>2. CASE k = l - 1
      <4>1. /\ y.shape = <<1, S[l]>> /\ y.stride = <<1, T[l]>>
            /\ y.ews = T[l]
        BY <1>7, <1>10, <3>2
      <4>2. S[l] \in Nat \ {0} /\ T[l] \in Nat \ {0}
        <5>1. \A s \in Lengths : l \in 1 .. Len(s) => s[l] \in Nat \ {0}
          BY DEF Lengths
        <5>2. l \in 1 .. Len(S) /\ l \in 1 .. Len(T)
          BY <1>2, <1>6 DEF l
        <5>3. QED
          BY <1>2, <5>1, <5>2
      <4>3. \A p \in Nat \ {0} :
              /\ <<1, p>> \in Lengths /\ Len(<<1, p>>) = 2
              /\ <<1, p>>[1] = 1 /\ <<1, p>>[2] = p
        BY DEF Lengths
      <4>4. \A j \in 1 .. 2 - 1 : j = 1
        OBVIOUS
      <4>5. QED
        BY <4>1, <4>2, <4>3, <4>4
    <3>3. QED
      BY <1>6, <3>1, <3>2
  <2>3. c[a] \in 0 .. y.shape[Len(y.shape)] - 1
    BY <1>9, <2>1, <2>2 DEF a
  <2>4. ReadAt(y, base, few, c[a]) = base + c[a] * y.stride[Len(y.shape)]
    BY <2>2, <2>3, RowReads
  <2>5. QED
    BY <1>9, <2>1, <2>2, <2>4 DEF a, v, y
<1>11. CASE y = Reversed(Cut(S, T, k)) /\ k <= l - 2
  <2> DEFINE z == Cut(S, T, k)
             e == l - k
  <2>1. k < l - 1 /\ e \in Nat /\ d <= e /\ e <= l
    <3> HIDE DEF l, d, m
    <3> QED
      BY <1>2, <1>6, <1>11
  <2>2. z.shape = Suffix(S, k) /\ z.stride = Suffix(T, k)
    BY <1>7, <2>1
  <2>3. /\ z.shape \in Lengths /\ z.stride \in Lengths
        /\ Len(z.stride) = Len(z.shape) /\ Len(z.shape) = e
    BY <1>8, <2>2
  <2>4. /\ y.shape \in Lengths /\ y.stride \in Lengths
        /\ Len(y.shape) = e /\ Len(y.stride) = e /\ y.ews = -1
        /\ \A j \in 1 .. e : /\ y.shape[j] = z.shape[e - j + 1]
                             /\ y.stride[j] = z.stride[e - j + 1]
    <3>1. LET u == Reversed(z)
          IN  /\ u.shape \in Lengths /\ u.stride \in Lengths
              /\ Len(u.shape) = e /\ Len(u.stride) = e /\ u.ews = -1
              /\ \A j \in 1 .. e : /\ u.shape[j] = z.shape[e - j + 1]
                                   /\ u.stride[j] = z.stride[e - j + 1]
      <4> HIDE DEF e, z
      <4> QED
        BY <2>3, ReversedIs
    <3>2. y = Reversed(z)
      BY <1>11
    <3> HIDE DEF y, z, e
    <3>3. QED
      BY <3>1, <3>2
  <2>5. \A j \in 1 .. e : /\ y.shape[j] = S[l - j + 1]
                          /\ y.stride[j] = T[l - j + 1]
    <3> TAKE j \in 1 .. e
    <3>1. e - j + 1 \in 1 .. l - k /\ (e - j + 1) + k = l - j + 1
      <4>1. \A p, q \in Nat : \A i \in 1 .. p - q :
              /\ (p - q) - i + 1 \in 1 .. p - q
              /\ ((p - q) - i + 1) + q = p - i + 1
        OBVIOUS
      <4> HIDE DEF l, d, m
      <4>2. l \in Nat /\ k \in Nat /\ j \in 1 .. l - k
        BY <1>2
      <4>3. QED
        BY <4>1, <4>2
    <3> HIDE DEF y, z
    <3>2. QED
      BY <1>8, <2>2, <2>4, <3>1
  <2>6. \A j \in 1 .. d : /\ y.shape[j] = x.shape[L[j]]
                          /\ y.stride[j] = x.stride[L[j]]
    <3> TAKE j \in 1 .. d
    <3> HIDE DEF y, z, e, l, d, m, L
    <3>1. j \in 1 .. e
      BY <1>2, <2>1
    <3>2. QED
      BY <1>3, <2>5, <3>1
  <2>7. \A j \in d + 1 .. e : y.shape[j] = 1
    <3> TAKE j \in d + 1 .. e
    <3>1. j \in 1 .. e /\ l - j + 1 \in k + 1 .. m
      <4> HIDE DEF l, d, m
      <4> QED
        BY <1>2, <1>6, <2>1
    <3> HIDE DEF y, z, e, l, d, m
    <3>2. QED
      BY <1>5, <2>5, <3>1
  <2>8. y.stride \in Seq(Int) /\ Len(y.stride) = Len(y.shape)
        /\ Len(L) <= Len(y.shape)
    BY <2>1, <2>4 DEF Lengths
  <2> HIDE DEF y, z, e
  <2>9. Offset(base, y.shape, y.stride, CCoordinates(y.shape, v))
          = base + Reach(L, x, c)
    <3> DEFINE s == y.shape
               t == y.stride
    <3>1. /\ \A j \in 1 .. Len(L) : /\ s[j] = x.shape[L[j]]
                                    /\ t[j] = x.stride[L[j]]
          /\ \A j \in Len(L) + 1 .. Len(s) : s[j] = 1
          /\ s \in Lengths /\ t \in Seq(Int) /\ Len(t) = Len(s)
          /\ Len(L) <= Len(s) /\ base \in Int
          /\ IsDescriptor(x) /\ Digits(x.shape, c)
          /\ L \in Seq(1 .. Len(x.shape))
      BY <1>1, <1>2, <2>4, <2>6, <2>7, <2>8
    <3> HIDE DEF L, d, s, t, l
    <3>2. Offset(base, s, t, CCoordinates(s, Nth(L, x, c)))
            = base + Reach(L, x, c)
      BY ONLY <3>1, ListIsRead
    <3>3. QED
      BY <3>2 DEF s, t
  <2>10. ~ (y.ews > 0)
    BY <2>4
  <2>11. ReadAt(y, base, few, v) = base + Reach(L, x, c)
    BY <2>9, <2>10 DEF ReadAt
  <2>12. QED
    BY <2>11 DEF y
<1>12. QED
  <2> HIDE DEF y, L, l, d
  <2>1. \/ y = Cut(S, T, k) /\ \A j \in 2 .. d : x.shape[L[j]] = 1
        \/ y = Reversed(Cut(S, T, k)) /\ k <= l - 2
    BY <1>4 DEF Sorted, y, L, l, d
  <2>2. QED
    BY <1>10, <1>11, <2>1 DEF y, L, l, d

\* Whatever its own axes, a slice is read in C order through the descriptor
\* that TAD::shapeInfoOnlyShapeAndStride() makes for it.
LEMMA SliceIsRead ==
  ASSUME NEW x, NEW D, Sliceable(x, D), EwsIsTrue(x),
         NEW c \in Cells(x.shape), NEW base \in Int, NEW few
  PROVE  ReadAt(TadOnlyShapeInfo(x, D), base, few, Nth(Chosen(x, D), x, c))
           = base + Reach(Chosen(x, D), x, c)
<1> DEFINE L == Chosen(x, D)
           M == Others(x, D)
           n == Len(x.shape)
           y == TadOnlyShapeInfo(x, D)
           v == Nth(L, x, c)
           r == Reach(L, x, c)
           Column == D = {1} /\ IsVector(x.shape) /\ x.shape[2] = 1
           Row == D = {2} /\ IsVector(x.shape) /\ x.shape[1] = 1
           One == \E a \in D : D = {a} /\ x.shape[a] = 1
<1>1. /\ IsDescriptor(x) /\ x.shape \in Lengths /\ x.stride \in Lengths
      /\ Len(x.stride) = n /\ n \in Nat /\ Digits(x.shape, c)
      /\ x.stride \in Seq(Int) /\ DOMAIN x.shape = 1 .. n
  <2>1. IsDescriptor(x)
    BY DEF Sliceable
  <2>2. x.stride \in Lengths
    BY <2>1 DEF IsDescriptor, Lengths
  <2>3. QED
    BY <2>1, <2>2, DescriptorIs, CellsAre
<1>2. CASE Column
  <2>1. L[1] = 1 /\ Len(L) = 1
    BY <1>2, OneChosen
  <2>2. \A j \in 2 .. Len(L) : x.shape[L[j]] = 1
    BY <2>1
  <2>3. v = c[1] /\ r = c[1] * x.stride[1] /\ c[1] \in 0 .. x.shape[1] - 1
    BY <2>1, <2>2, FirstChosen
  <2>4. y = Reversed(x)
    <3>1. {1} # {2}
      <4>1. 1 \notin {2}
        OBVIOUS
      <4>2. QED
        BY <4>1
    <3>2. QED
      BY <1>2, <3>1 DEF TadOnlyShapeInfo
  <2>5. n = 2
    BY <1>2 DEF IsVector
  <2> HIDE DEF v, r, L, y
  <2>6. /\ y.shape \in Lengths /\ y.stride \in Lengths
        /\ Len(y.shape) = 2 /\ Len(y.stride) = 2 /\ y.ews = -1
        /\ y.shape[1] = x.shape[2] /\ y.shape[2] = x.shape[1]
        /\ y.stride[2] = x.stride[1]
    <3>1. /\ y.shape \in Lengths /\ y.stride \in Lengths
          /\ Len(y.shape) = n /\ Len(y.stride) = n /\ y.ews = -1
          /\ \A j \in 1 .. n : /\ y.shape[j] = x.shape[n - j + 1]
                               /\ y.stride[j] = x.stride[n - j + 1]
      BY <1>1, <2>4, ReversedIs
    <3> HIDE DEF n
    <3>2. 1 \in 1 .. n /\ 2 \in 1 .. n /\ n - 1 + 1 = 2 /\ n - 2 + 1 = 1
      BY <2>5
    <3>3. QED
      BY <2>5, <3>1, <3>2
  <2>7. ReadAt(y, base, few, c[1]) = base + c[1] * y.stride[2]
    <3>1. /\ Len(y.stride) = Len(y.shape) /\ Len(y.shape) > 0
          /\ \A j \in 1 .. Len(y.shape) - 1 : y.shape[j] = 1
          /\ ~ (y.ews > 0)
          /\ c[1] \in 0 .. y.shape[Len(y.shape)] - 1
      <4>1. \A j \in 1 .. 2 - 1 : j = 1
        OBVIOUS
      <4>2. QED
        BY <1>2, <2>3, <2>6, <4>1
    <3>2. ReadAt(y, base, few, c[1]) = base + c[1] * y.stride[Len(y.shape)]
      BY <2>6, <3>1, RowReads
    <3>3. QED
      BY <2>6, <3>2
  <2>8. QED
    BY <2>3, <2>6, <2>7 DEF v, r, L, y
<1>3. CASE Row
  <2>1. L[1] = 2 /\ Len(L) = 1
    BY <1>3, OneChosen
  <2>2. \A j \in 2 .. Len(L) : x.shape[L[j]] = 1
    BY <2>1
  <2>3. v = c[2] /\ r = c[2] * x.stride[2] /\ c[2] \in 0 .. x.shape[2] - 1
    BY <2>1, <2>2, FirstChosen
  <2>4. y = x
    <3>1. {1} # {2}
      <4>1. 1 \notin {2}
        OBVIOUS
      <4>2. QED
        BY <4>1
    <3>2. QED
      BY <1>3, <3>1 DEF TadOnlyShapeInfo
  <2>5. n = 2 /\ IsVector(x.shape)
    BY <1>3 DEF IsVector
  <2>6. CASE x.ews > 0
    <3>1. \A k \in 1 .. n : k \notin D => x.shape[k] = 1
      <4>1. \A k \in 1 .. 2 : k \notin {2} => k = 1
        OBVIOUS
      <4>2. QED
        BY <1>3, <2>5, <4>1
    <3>2. PICK q : Lists(L, q, n, D)
      BY ChosenAndOthers
    <3>3. Counts(x.shape, c)[n] = v
      BY <1>1, <3>1, <3>2, SilentAxes DEF Nth
    <3>4. Reach(M, x, c) = 0
      <4>1. PICK p : Lists(M, p, n, Axes(x) \ D)
        BY ChosenAndOthers
      <4>2. \A k \in 1 .. n : k \in Axes(x) \ D <=> k \notin D
        BY ChosenAndOthers
      <4>3. M \in Seq(1 .. n)
            /\ \A j \in 1 .. Len(M) : M[j] \in Axes(x) \ D /\ M[j] \in 1 .. n
        BY <1>1, <4>1, ListsAre
      <4> HIDE DEF M
      <4>4. \A j \in 1 .. Len(M) : x.shape[M[j]] = 1
        BY <3>1, <4>2, <4>3
      <4>5. QED
        BY <1>1, <4>3, <4>4, OnesReachNothing
    <3>5. Offset(0, x.shape, x.stride, c) = r + 0 /\ r \in Int
      BY <3>4, SliceBegins
    <3>6. Offset(0, x.shape, x.stride, c) = x.ews * v
      <4>1. Accumulated(0, x.shape, c)[n] = v
        BY <3>3 DEF Counts
      <4> HIDE DEF v
      <4>2. QED
        BY <2>6, <4>1 DEF EwsIsTrue
    <3>7. ReadAt(y, base, few, v) = base + v * x.ews
      <4> HIDE DEF v
      <4> QED
        BY <2>4, <2>5, <2>6 DEF ReadAt
    <3>8. v \in Int /\ x.ews \in Int
      BY <1>1, <2>3, DescriptorIs
    <3> HIDE DEF v, r, y
    <3>9. x.ews * v = v * x.ews /\ r = v * x.ews
      BY <3>5, <3>6, <3>8
    <3>10. QED
      BY <3>7, <3>9 DEF v, r, y
  <2>7. CASE ~ (x.ews > 0)
    <3>1. /\ Len(x.shape) > 0
          /\ \A j \in 1 .. Len(x.shape) - 1 : x.shape[j] = 1
          /\ c[2] \in 0 .. x.shape[Len(x.shape)] - 1
      <4>1. \A j \in 1 .. 2 - 1 : j = 1
        OBVIOUS
      <4>2. QED
        BY <1>3, <2>3, <2>5, <4>1
    <3>2. ReadAt(x, base, few, c[2]) = base + c[2] * x.stride[Len(x.shape)]
      BY <1>1, <2>7, <3>1, RowReads
    <3> HIDE DEF v, r, y
    <3>3. QED
      BY <2>3, <2>4, <2>5, <3>2 DEF v, r, y
  <2>8. QED
    BY <2>6, <2>7
<1>4. CASE ~ Column /\ ~ Row /\ One
  <2>1. PICK a \in D : D = {a} /\ x.shape[a] = 1
    BY <1>4
  <2>2. L[1] = a /\ Len(L) = 1
    BY <2>1, OneChosen
  <2>3. \A j \in 2 .. Len(L) : x.shape[L[j]] = 1
    BY <2>2
  <2>4. v = c[a] /\ r = c[a] * x.stride[a] /\ c[a] \in 0 .. 1 - 1
        /\ a \in 1 .. n
    <3> DEFINE b == L[1]
    <3>1. v = c[b] /\ r = c[b] * x.stride[b] /\ c[b] \in 0 .. x.shape[b] - 1
          /\ b \in 1 .. n
      BY <2>3, FirstChosen
    <3> HIDE DEF v, r, L
    <3>2. QED
      BY <2>1, <2>2, <3>1
  <2>5. v = 0 /\ r = 0
    <3>1. x.stride[a] \in Int
      BY <1>1, <2>4
    <3> HIDE DEF v, r
    <3>2. QED
      BY <2>4, <3>1
  <2>6. y = [shape |-> <<1, 1>>, stride |-> <<1, 1>>, ews |-> 1, order |-> "a"]
    BY <1>4 DEF TadOnlyShapeInfo
  <2>7. y.ews = 1 /\ IsVector(y.shape)
    BY <2>6 DEF IsVector
  <2> HIDE DEF y, v, r
  <2>8. ReadAt(y, base, few, v) = base + 0 * 1
    BY <2>5, <2>7 DEF ReadAt
  <2>9. QED
    BY <2>5, <2>8 DEF y, v, r
<1>5. CASE ~ Column /\ ~ Row /\ ~ One
  <2>1. y = FromSlices(x, D)
    BY <1>5 DEF TadOnlyShapeInfo
  <2>2. QED
    BY <1>5, <2>1, CutReads
<1>6. QED
  BY <1>2, <1>3, <1>4, <1>5

-----------------------------------------------------------------------------
(* A reduction.                                                            *)

\* What result i of the call is made of.
Result(i) ==
  [k \in 1 .. TadLength(source, dims) |->
     ReadAt(TadOnlyShapeInfo(source, dims), TadOffset(source, dims, i),
            NumTads(source, dims) = 1, k - 1)]

\* The descriptor and the offsets are made before they are used, the results
\* that nobody computes any more are right, and nobody has begun without the
\* offsets.
ReductionInvariant ==
  /\ along \in TadCalls
  /\ along.kind = "reduce" =>
       LET slices == 0 .. NumTads(source, dims) - 1
       IN  /\ tad \in {NoTad, TadOnlyShapeInfo(source, dims)}
           /\ left \subseteq slices /\ DOMAIN out = slices
           /\ \/ offsets = <<>> /\ left = slices
              \/ /\ offsets = [i \in slices |-> TadOffset(source, dims, i)]
                 /\ tad # NoTad
           /\ \A i \in slices \ left : out[i] = Result(i)

\* A call begins with nothing made and nothing computed.
LEMMA ReductionStarts == TadStart => ReductionInvariant
<1> SUFFICES ASSUME TadStart PROVE ReductionInvariant
  OBVIOUS
<1> QED
  BY DEF TadStart, ReductionInvariant

\* No step of a call leaves the invariant.
LEMMA ReductionSteps ==
  ReductionInvariant /\ [TadNext]_tadVars => ReductionInvariant'
<1> DEFINE slices == 0 .. NumTads(source, dims) - 1
           info == TadOnlyShapeInfo(source, dims)
           begin == [i \in slices |-> TadOffset(source, dims, i)]
           Rest == /\ tad \in {NoTad, info}
                   /\ left \subseteq slices /\ DOMAIN out = slices
                   /\ \/ offsets = <<>> /\ left = slices
                      \/ offsets = begin /\ tad # NoTad
                   /\ \A i \in slices \ left : out[i] = Result(i)
<1> SUFFICES ASSUME ReductionInvariant, [TadNext]_tadVars
             PROVE  ReductionInvariant'
  OBVIOUS
<1>1. along \in TadCalls /\ (along.kind = "reduce" => Rest)
  BY DEF ReductionInvariant
<1>2. along' = along
  BY DEF TadNext, tadVars, CreateTadOnlyShapeInfo, CreateOffsets, ReduceSlice,
         BroadcastSlice
<1>3. /\ slices' = slices /\ info' = info /\ begin' = begin
      /\ \A i : Result(i)' = Result(i)
  BY <1>2 DEF source, dims, Result
<1>4. (along.kind = "reduce" => Rest') => ReductionInvariant'
  <2>1. ASSUME Rest' PROVE ReductionInvariant'
    BY <1>1, <1>2, <2>1 DEF ReductionInvariant
  <2>2. ASSUME along.kind # "reduce" PROVE ReductionInvariant'
    BY <1>1, <1>2, <2>2 DEF ReductionInvariant
  <2>3. QED
    BY <2>1, <2>2
<1> SUFFICES ASSUME along.kind = "reduce" PROVE Rest'
  BY <1>4
<1>5. Rest
  BY <1>1
<1> HIDE DEF slices, info, begin
<1>6. CASE CreateTadOnlyShapeInfo
  <2>1. tad = NoTad /\ tad' = info /\ UNCHANGED <<along, offsets, left, out>>
    BY <1>6 DEF CreateTadOnlyShapeInfo, info
  <2>2. offsets = <<>> /\ left = slices
    BY <1>5, <2>1
  <2>3. QED
    BY <1>3, <1>5, <2>1, <2>2
<1>7. CASE CreateOffsets
  <2>1. /\ tad # NoTad /\ DOMAIN offsets = {}
        /\ offsets' = [i \in left |-> TadOffset(source, dims, i)]
        /\ UNCHANGED <<along, tad, left, out>>
    BY <1>7 DEF CreateOffsets
  <2>2. offsets' = begin
    <3>1. CASE offsets = <<>> /\ left = slices
      BY <2>1, <3>1 DEF begin
    <3>2. CASE offsets = begin
      <4>1. slices = {}
        BY <2>1, <3>2 DEF begin
      <4>2. left = slices
        BY <1>5, <4>1
      <4>3. QED
        BY <2>1, <4>2 DEF begin
    <3>3. QED
      BY <1>5, <3>1, <3>2
  <2>3. QED
    BY <1>3, <1>5, <2>1, <2>2
<1>8. ASSUME NEW i \in left, ReduceSlice(i) PROVE Rest'
  <2> DEFINE Read(j) ==
        IF tad.ews > 0 /\ (NumTads(source, dims) = 1 \/ IsVector(tad.shape))
        THEN offsets[i] + j * tad.ews
        ELSE Offset(offsets[i], tad.shape, tad.stride,
                    CCoordinates(tad.shape, j))
             made == [k \in 1 .. TadLength(source, dims) |-> Read(k - 1)]
  <2>1. /\ DOMAIN offsets # {} /\ out' = [out EXCEPT ![i] = made]
        /\ left' = left \ {i} /\ UNCHANGED <<along, tad, offsets>>
    BY <1>8 DEF ReduceSlice, Begun
  <2>2. offsets = begin /\ tad # NoTad /\ tad = info /\ i \in slices
    <3>1. offsets # <<>>
      BY <2>1
    <3>2. QED
      BY <1>5, <3>1
  <2>3. made = Result(i)
    <3>1. offsets[i] = TadOffset(source, dims, i)
      BY <2>2 DEF begin
    <3>2. \A j : Read(j) = ReadAt(info, TadOffset(source, dims, i),
                                  NumTads(source, dims) = 1, j)
      BY <2>2, <3>1 DEF ReadAt
    <3> HIDE DEF Read
    <3>3. QED
      BY <3>2 DEF Result, info
  <2> HIDE DEF made
  <2>4. /\ DOMAIN out' = slices /\ left' \subseteq slices
        /\ \A j \in slices \ left' : out'[j] = Result(j)
    BY <1>5, <2>1, <2>2, <2>3
  <2>5. QED
    BY <1>3, <2>1, <2>2, <2>4
<1>9. ASSUME NEW i \in left, BroadcastSlice(i) PROVE Rest'
  BY <1>9 DEF BroadcastSlice
<1>10. CASE UNCHANGED tadVars
  BY <1>3, <1>5, <1>10 DEF tadVars
<1>11. QED
  <2> HIDE DEF Rest
  <2> QED
    BY <1>6, <1>7, <1>8, <1>9, <1>10 DEF TadNext

\* The numbers of results and elements are those of the cells.
LEMMA NumberIs ==
  ASSUME NEW axes, NEW c
  PROVE  Number(axes, c) = Nth(axes, source, c)
BY DEF Number, Nth, Counts

\* A result nobody computes any more is made of the elements of its slice.
LEMMA ResultsAreRight ==
  ASSUME ReductionInvariant, along.kind = "reduce", EwsIsTrue(source)
  PROVE  SlicesInOrder
<1>1. Sliceable(source, dims)
  BY TadAssumption DEF ReductionInvariant, Sliceable, source, dims
<1>2. ASSUME NEW c \in Cells(source.shape),
             Number(Others(source, dims), c) \notin left
      PROVE  out[Number(Others(source, dims), c)]
                [Number(Chosen(source, dims), c) + 1]
               = Offset(0, source.shape, source.stride, c)
  <2> DEFINE i == Nth(Others(source, dims), source, c)
             v == Nth(Chosen(source, dims), source, c)
             base == Reach(Others(source, dims), source, c)
             r == Reach(Chosen(source, dims), source, c)
             n == TadLength(source, dims)
             N == NumTads(source, dims)
             info == TadOnlyShapeInfo(source, dims)
             few == N = 1
  <2>1. /\ n \in Nat \ {0} /\ v \in 0 .. n - 1
        /\ i \in 0 .. N - 1 /\ base \in Int /\ r \in Int
        /\ Offset(0, source.shape, source.stride, c) = r + base
        /\ TadOffset(source, dims, i) = base
    BY <1>1, SliceBegins
  <2>2. ReadAt(info, base, few, v) = base + r
    BY <1>1, <2>1, SliceIsRead
  <2>3. /\ i = Number(Others(source, dims), c)
        /\ v = Number(Chosen(source, dims), c)
    BY NumberIs
  <2> HIDE DEF i, v, base, r, n, N, info, few
  <2>4. out[i] = Result(i)
    BY <1>2, <2>1, <2>3 DEF ReductionInvariant, N
  <2>5. Result(i) = [k \in 1 .. n |-> ReadAt(info, base, few, k - 1)]
    BY <2>1 DEF Result, n, info, few, N
  <2>6. v + 1 \in 1 .. n /\ (v + 1) - 1 = v
    BY <2>1
  <2>7. Result(i)[v + 1] = base + r
    <3> DEFINE Read(k) == ReadAt(info, base, few, k)
    <3>1. Result(i) = [k \in 1 .. n |-> Read(k - 1)] /\ Read(v) = base + r
      BY <2>2, <2>5, Zenon
    <3> HIDE DEF Read
    <3>2. QED
      BY <2>6, <3>1
  <2>8. QED
    BY <2>1, <2>3, <2>4, <2>7
<1>3. QED
  BY <1>2 DEF SlicesInOrder

\* Each of the results of a reduction is made of the elements of its own slice,
\* each once and in C order, whichever threads compute the results and
\* whenever, if the arrays' distances between neighbours are true.  (A call with
\* one result is none: SlicesAssumption.)
THEOREM ReductionsAreInOrder ==
  (\A call \in TadCalls : call.kind = "reduce" => EwsIsTrue(call.x))
    => (TadSpec => [](along.kind = "reduce" => SlicesInOrder))
<1> SUFFICES ASSUME \A call \in TadCalls : call.kind = "reduce"
                                             => EwsIsTrue(call.x)
             PROVE  TadSpec => [](along.kind = "reduce" => SlicesInOrder)
  OBVIOUS
<1>1. ReductionInvariant => (along.kind = "reduce" => SlicesInOrder)
  <2> SUFFICES ASSUME ReductionInvariant, along.kind = "reduce"
               PROVE  SlicesInOrder
    OBVIOUS
  <2>1. EwsIsTrue(source)
    BY DEF ReductionInvariant, source
  <2>2. QED
    BY <2>1, ResultsAreRight
<1>2. QED
  BY <1>1, ReductionStarts, ReductionSteps, PTL DEF TadSpec
===============================================================================
