----------------------------- MODULE SumsProofs -----------------------------
(***************************************************************************)
(* Facts about sums, and about recursive functions and induction on 0..n,  *)
(* which the sums and other loops are defined and reasoned about with.     *)
(***************************************************************************)
EXTENDS Sums, WellFoundedInduction, TLAPS

\* A set of naturals has a least element.
LEMMA LeastNat ==
    ASSUME NEW T \in SUBSET Nat, T # {}
    PROVE  \E x \in T : \A y \in T : x <= y
<1> DEFINE R == OpToRel(<, Nat)
<1>1. PICK x \in T : \A y \in T : ~ (<<y, x>> \in R)
  <2>1. IsWellFoundedOn(R, Nat)
    BY NatLessThanWellFounded
  <2> HIDE DEF R
  <2> QED BY <2>1, WFMin
<1>2. ASSUME NEW y \in T PROVE x <= y
  <2>1. ~ (y < x)
    BY <1>1 DEF OpToRel
  <2> QED BY <2>1
<1> QED BY <1>2

\* Induction on 0..n, for a set of numbers.
LEMMA UpTo ==
    ASSUME NEW n \in Nat, NEW T, 0 \in T, \A i \in 1..n : i - 1 \in T => i \in T
    PROVE  0..n \subseteq T
<1> DEFINE R == {i \in 0..n : i \notin T}
<1> SUFFICES ASSUME R # {} PROVE FALSE
  OBVIOUS
<1>1. PICK k \in R : \A j \in R : k <= j
  <2>1. R \in SUBSET Nat
    OBVIOUS
  <2> HIDE DEF R
  <2> QED BY <2>1, LeastNat
<1> QED BY <1>1

\* Two functions are the same on 0..n if they start and go on in the same way.
LEMMA SameUpTo ==
    ASSUME NEW n \in Nat, NEW f, NEW u, u[0] = f[0],
           \A i \in 1..n : u[i - 1] = f[i - 1] => u[i] = f[i]
    PROVE  \A i \in 0..n : u[i] = f[i]
<1> DEFINE T == {i \in 0..n : u[i] = f[i]}
<1>1. 0 \in T /\ \A i \in 1..n : i - 1 \in T => i \in T
  OBVIOUS
<1> HIDE DEF T
<1>2. 0..n \subseteq T
  BY <1>1, UpTo
<1> QED BY <1>2 DEF T

\* Each value of f fixes the next, by g.
Follows(f, n, b, g) == f[0] = b /\ \A i \in 1..n : f[i] = g[<<i, f[i - 1]>>]

\* A function on 0..n that each value fixes the next of exists.
LEMMA Recursion ==
    ASSUME NEW S, NEW n \in Nat, NEW b \in S, NEW g \in [(1..n) \X S -> S]
    PROVE  \E f \in [0..n -> S] : Follows(f, n, b, g)
<1> DEFINE Good(k, f) == /\ f \in [0..k -> S] /\ f[0] = b
                         /\ \A i \in 1..k : f[i] = g[<<i, f[i - 1]>>]
           T == {k \in 0..n : ~ \E f : Good(k, f)}
<1>1. T = {}
  <2> SUFFICES ASSUME T # {} PROVE FALSE
    OBVIOUS
  <2>1. PICK k \in T : \A j \in T : k <= j
    <3>1. T \in SUBSET Nat
      OBVIOUS
    <3> HIDE DEF T
    <3> QED BY <3>1, LeastNat
  <2>2. k # 0
    <3>1. Good(0, [i \in 0..0 |-> b])
      OBVIOUS
    <3> QED BY <2>1, <3>1
  <2>3. k - 1 \in 0..n /\ k \in 1..n /\ k - 1 \notin T
    BY <2>1, <2>2
  <2>4. PICK f : Good(k - 1, f)
    BY <2>3
  <2> DEFINE h == [i \in 0..k |-> IF i = k THEN g[<<k, f[k - 1]>>] ELSE f[i]]
  <2>h. \A i \in 0..k : h[i] = IF i = k THEN g[<<k, f[k - 1]>>] ELSE f[i]
    OBVIOUS
  <2>5. f[k - 1] \in S /\ g[<<k, f[k - 1]>>] \in S
    BY <2>3, <2>4
  <2>6. h \in [0..k -> S]
    <3>1. ASSUME NEW i \in 0..k, i # k PROVE f[i] \in S
      BY <2>3, <2>4, <3>1
    <3> QED BY <2>5, <3>1
  <2>7. h[0] = b
    BY <2>3, <2>4
  <2>8. ASSUME NEW i \in 1..k PROVE h[i] = g[<<i, h[i - 1]>>]
    <3>1. CASE i = k
      <4>1. i - 1 \in 0..k /\ i \in 0..k /\ i - 1 # k
        BY <2>3, <3>1
      <4> HIDE DEF h
      <4> QED BY <2>h, <3>1, <4>1
    <3>2. CASE i # k
      <4>1. i \in 1..(k - 1) /\ i - 1 # k /\ i - 1 \in 0..k /\ i \in 0..k
        BY <2>3, <3>2
      <4>2. h[i] = f[i] /\ h[i - 1] = f[i - 1]
        BY <2>h, <3>2, <4>1
      <4>3. \A j \in 1..(k - 1) : f[j] = g[<<j, f[j - 1]>>]
        BY <2>4
      <4>4. f[i] = g[<<i, f[i - 1]>>]
        BY <4>1, <4>3
      <4> HIDE DEF h
      <4> QED BY <4>2, <4>4
    <3> QED BY <3>1, <3>2
  <2>9. Good(k, h)
    <3> HIDE DEF h
    <3> QED BY <2>6, <2>7, <2>8
  <2> QED BY <2>1, <2>9
<1>2. PICK f : Good(n, f)
  <2>1. n \in 0..n
    OBVIOUS
  <2> HIDE DEF Good
  <2> QED BY <1>1, <2>1
<1> QED BY <1>2 DEF Follows

\* u is the running total of s.
Runs(u, s) ==
    /\ u \in [0..Len(s) -> Int] /\ u[0] = 0
    /\ \A i \in 1..Len(s) : u[i] = u[i - 1] + s[i]

\* The running totals of a sequence exist, and the last of them is its total.
LEMMA TotalRuns ==
    ASSUME NEW s \in Seq(Int)
    PROVE  \E u : Runs(u, s) /\ Total(s) = u[Len(s)]
<1> DEFINE n == Len(s)
           g == [p \in (1..n) \X Int |-> p[2] + s[p[1]]]
           P(f) == f = [i \in 0..n |-> IF i = 0 THEN 0 ELSE f[i - 1] + s[i]]
           u == CHOOSE f : P(f)
<1>1. g \in [(1..n) \X Int -> Int]
  OBVIOUS
<1>2. n \in Nat /\ 0 \in Int
  OBVIOUS
<1>3. PICK f \in [0..n -> Int] : Follows(f, n, 0, g)
  <2> HIDE DEF g, n, P, u
  <2> QED BY <1>1, <1>2, Recursion
<1>4. P(f)
  <2>1. ASSUME NEW i \in 0..n
        PROVE  f[i] = IF i = 0 THEN 0 ELSE f[i - 1] + s[i]
    <3>1. CASE i = 0
      BY <1>3, <3>1 DEF Follows
    <3>2. CASE i # 0
      <4>1. i \in 1..n /\ i - 1 \in 0..n /\ f[i - 1] \in Int
        BY <1>2, <3>2
      <4>2. f[i] = g[<<i, f[i - 1]>>]
        <5> HIDE DEF g
        <5> QED BY <1>3, <4>1 DEF Follows
      <4> QED BY <4>1, <4>2, <3>2
    <3> QED BY <3>1, <3>2
  <2>2. f = [i \in 0..n |-> f[i]]
    OBVIOUS
  <2> QED BY <2>1, <2>2
<1>5. P(u)
  <2> HIDE DEF P
  <2> QED BY <1>4
<1>6. Total(s) = u[n]
  BY DEF Total
<1>7. DOMAIN u = 0..n /\ \A i \in 0..n : u[i] = IF i = 0 THEN 0 ELSE u[i - 1] + s[i]
  <2> HIDE DEF u, n
  <2> QED BY <1>5, Zenon
<1> HIDE DEF u
<1>8. u[0] = 0 /\ \A i \in 1..n : u[i] = u[i - 1] + s[i]
  BY <1>2, <1>7
<1>9. \A i \in 0..n : u[i] \in Int
  <2> DEFINE T == {i \in 0..n : u[i] \notin Int}
  <2> SUFFICES ASSUME T # {} PROVE FALSE
    OBVIOUS
  <2>1. PICK k \in T : \A j \in T : k <= j
    <3>1. T \in SUBSET Nat
      OBVIOUS
    <3> HIDE DEF T
    <3> QED BY <3>1, LeastNat
  <2>2. k \in 1..n /\ k - 1 \in 0..n /\ k - 1 \notin T
    BY <1>2, <1>8, <2>1
  <2>3. u[k] = u[k - 1] + s[k] /\ u[k - 1] \in Int /\ s[k] \in Int
    BY <1>8, <2>2
  <2> QED BY <2>1, <2>3
<1>10. u \in [0..n -> Int]
  <2>1. u = [i \in 0..n |-> u[i]]
    <3> HIDE DEF n
    <3> QED BY <1>5, <1>7 DEF u
  <2> QED BY <1>9, <2>1
<1> QED BY <1>6, <1>8, <1>10 DEF Runs

\* The running total is unique.
LEMMA TotalIs ==
    ASSUME NEW s \in Seq(Int), NEW v, Runs(v, s)
    PROVE  Total(s) = v[Len(s)]
<1>1. PICK u : Runs(u, s) /\ Total(s) = u[Len(s)]
  BY TotalRuns
<1> DEFINE n == Len(s)
           T == {i \in 0..n : u[i] # v[i]}
<1>2. n \in Nat
  OBVIOUS
<1>3. T = {}
  <2> SUFFICES ASSUME T # {} PROVE FALSE
    OBVIOUS
  <2>1. PICK k \in T : \A j \in T : k <= j
    <3>1. T \in SUBSET Nat
      OBVIOUS
    <3> HIDE DEF T
    <3> QED BY <3>1, LeastNat
  <2>2. k \in 1..n /\ k - 1 \in 0..n /\ k - 1 \notin T
    BY <1>1, <1>2, <2>1 DEF Runs
  <2> QED BY <1>1, <2>1, <2>2 DEF Runs
<1> QED BY <1>1, <1>2, <1>3

\* A total of integers is an integer.
LEMMA TotalType ==
    ASSUME NEW s \in Seq(Int)
    PROVE  Total(s) \in Int
<1>1. PICK u : Runs(u, s) /\ Total(s) = u[Len(s)]
  BY TotalRuns
<1>2. Len(s) \in 0..Len(s)
  OBVIOUS
<1> QED BY <1>1, <1>2 DEF Runs

\* Nothing to add.
LEMMA TotalEmpty == Total(<<>>) = 0
<1>1. <<>> \in Seq(Int) /\ Len(<<>>) = 0
  OBVIOUS
<1>2. PICK u : Runs(u, <<>>) /\ Total(<<>>) = u[Len(<<>>)]
  BY <1>1, TotalRuns
<1> QED BY <1>1, <1>2 DEF Runs

\* One more place adds its value.
LEMMA TotalLonger ==
    ASSUME NEW s \in Seq(Int), NEW t \in Seq(Int), Len(t) = Len(s) + 1,
           \A i \in 1..Len(s) : t[i] = s[i]
    PROVE  Total(t) = Total(s) + t[Len(t)]
<1>1. PICK u : Runs(u, t) /\ Total(t) = u[Len(t)]
  BY TotalRuns
<1> DEFINE n == Len(s)
           v == [i \in 0..n |-> u[i]]
<1>2. n \in Nat /\ Len(t) = n + 1
  OBVIOUS
<1>3. ASSUME NEW i \in 0..n PROVE v[i] = u[i] /\ u[i] \in Int
  <2>1. i \in 0..Len(t) /\ u \in [0..Len(t) -> Int]
    BY <1>1, <1>2 DEF Runs
  <2> QED BY <2>1
<1>4. v \in [0..n -> Int]
  BY <1>3
<1>5. Runs(v, s)
  <2>1. ASSUME NEW i \in 1..n PROVE v[i] = v[i - 1] + s[i]
    <3>1. i \in 1..Len(t) /\ i \in 0..n /\ i - 1 \in 0..n
      BY <1>2
    <3>2. u[i] = u[i - 1] + t[i]
      BY <1>1, <3>1 DEF Runs
    <3> HIDE DEF v
    <3> QED BY <1>3, <3>1, <3>2
  <2>2. v[0] = 0
    BY <1>1, <1>2 DEF Runs
  <2> QED BY <1>4, <2>1, <2>2 DEF Runs
<1>6. Total(s) = u[n]
  <2>1. Total(s) = v[n]
    BY <1>5, TotalIs
  <2> QED BY <1>2, <1>3, <2>1
<1>7. u[n + 1] = u[n] + t[n + 1]
  <2>1. n + 1 \in 1..Len(t) /\ (n + 1) - 1 = n
    BY <1>2
  <2> QED BY <1>1, <2>1 DEF Runs
<1> QED BY <1>1, <1>2, <1>6, <1>7

\* A combination of three numbers.
Mix(a, x, b, y, c, z) == a * x + b * y + c * z

\* Place by place, w combines p, q and r.
Combines(w, a, p, b, q, c, r) ==
    /\ Len(p) = Len(w) /\ Len(q) = Len(w) /\ Len(r) = Len(w)
    /\ \A i \in 1..Len(w) : w[i] = Mix(a, p[i], b, q[i], c, r[i])

TotalsCombine(w, a, p, b, q, c, r) == Total(w) = Mix(a, Total(p), b, Total(q), c, Total(r))

\* Totals are linear.
LEMMA TotalLinear ==
    ASSUME NEW p \in Seq(Int), NEW q \in Seq(Int), NEW r \in Seq(Int),
           NEW w \in Seq(Int), NEW a \in Int, NEW b \in Int, NEW c \in Int,
           Combines(w, a, p, b, q, c, r)
    PROVE  TotalsCombine(w, a, p, b, q, c, r)
<1> USE DEF Mix, Combines, TotalsCombine
<1> DEFINE n == Len(w)
<1>1. PICK u : Runs(u, p) /\ Total(p) = u[n]
  BY TotalRuns
<1>2. PICK v : Runs(v, q) /\ Total(q) = v[n]
  BY TotalRuns
<1>3. PICK x : Runs(x, r) /\ Total(r) = x[n]
  BY TotalRuns
<1> DEFINE y == [i \in 0..n |-> a * u[i] + b * v[i] + c * x[i]]
<1>n. n \in Nat
  OBVIOUS
<1>4. \A i \in 0..n : u[i] \in Int /\ v[i] \in Int /\ x[i] \in Int
  BY <1>1, <1>2, <1>3 DEF Runs
<1>5. ASSUME NEW i \in 0..n
      PROVE  y[i] = a * u[i] + b * v[i] + c * x[i] /\ y[i] \in Int
  <2>1. y[i] = a * u[i] + b * v[i] + c * x[i]
    OBVIOUS
  <2>2. a * u[i] \in Int /\ b * v[i] \in Int /\ c * x[i] \in Int
    BY <1>4
  <2> HIDE DEF y
  <2> QED BY <2>1, <2>2
<1>6. y \in [0..n -> Int]
  BY <1>5
<1>7. ASSUME NEW i \in 1..n PROVE y[i] = y[i - 1] + w[i]
  <2>1. i \in 0..n /\ i - 1 \in 0..n
    BY <1>n
  <2>2. u[i] = u[i - 1] + p[i] /\ v[i] = v[i - 1] + q[i] /\ x[i] = x[i - 1] + r[i]
    BY <1>1, <1>2, <1>3 DEF Runs
  <2>3. p[i] \in Int /\ q[i] \in Int /\ r[i] \in Int
    OBVIOUS
  <2>4. w[i] = a * p[i] + b * q[i] + c * r[i]
    OBVIOUS
  <2>5. y[i] = a * u[i] + b * v[i] + c * x[i]
        /\ y[i - 1] = a * u[i - 1] + b * v[i - 1] + c * x[i - 1]
    BY <1>5, <2>1
  <2>6. u[i - 1] \in Int /\ v[i - 1] \in Int /\ x[i - 1] \in Int
    BY <1>4, <2>1
  <2> HIDE DEF y
  <2>7. ASSUME NEW k \in Int, NEW l \in Int, NEW m \in Int,
               NEW x1 \in Int, NEW x2 \in Int, NEW x3 \in Int,
               k = u[i - 1], l = v[i - 1], m = x[i - 1], x1 = p[i], x2 = q[i], x3 = r[i]
        PROVE  y[i] = y[i - 1] + w[i]
    <3>1. y[i] = a * (k + x1) + b * (l + x2) + c * (m + x3)
      BY ONLY <2>2, <2>5, <2>7
    <3>2. y[i - 1] = a * k + b * l + c * m /\ w[i] = a * x1 + b * x2 + c * x3
      BY ONLY <2>4, <2>5, <2>7
    <3>3. a * (k + x1) + b * (l + x2) + c * (m + x3)
            = (a * k + b * l + c * m) + (a * x1 + b * x2 + c * x3)
      OBVIOUS
    <3> QED BY ONLY <3>1, <3>2, <3>3
  <2> QED BY ONLY <2>3, <2>6, <2>7
<1>8. y[0] = 0
  BY <1>1, <1>2, <1>3, <1>5, <1>n DEF Runs
<1>9. Runs(y, w)
  <2> HIDE DEF y
  <2> QED BY <1>6, <1>7, <1>8 DEF Runs
<1> QED
  <2>1. Total(w) = y[n]
    <3> HIDE DEF y
    <3> QED BY <1>9, TotalIs
  <2> QED BY <1>1, <1>2, <1>3, <1>5, <1>n, <2>1

\* Totals are monotone.
LEMMA TotalMonotone ==
    ASSUME NEW p \in Seq(Int), NEW q \in Seq(Int), Len(p) = Len(q),
           \A i \in 1..Len(p) : p[i] <= q[i]
    PROVE  Total(p) <= Total(q)
<1> DEFINE n == Len(p)
<1>1. PICK u : Runs(u, p) /\ Total(p) = u[n]
  BY TotalRuns
<1>2. PICK v : Runs(v, q) /\ Total(q) = v[n]
  BY TotalRuns
<1> DEFINE T == {i \in 0..n : ~ (u[i] <= v[i])}
<1>3. n \in Nat
  OBVIOUS
<1>4. T = {}
  <2> SUFFICES ASSUME T # {} PROVE FALSE
    OBVIOUS
  <2>1. PICK k \in T : \A j \in T : k <= j
    <3>1. T \in SUBSET Nat
      OBVIOUS
    <3> HIDE DEF T
    <3> QED BY <3>1, LeastNat
  <2>2. k \in 1..n /\ k - 1 \in 0..n /\ k - 1 \notin T /\ k \in 0..n
    BY <1>1, <1>2, <1>3, <2>1 DEF Runs
  <2>3. u[k] = u[k - 1] + p[k] /\ v[k] = v[k - 1] + q[k]
    BY <1>1, <1>2, <2>2 DEF Runs
  <2>4. u[k - 1] \in Int /\ v[k - 1] \in Int /\ p[k] \in Int /\ q[k] \in Int
    <3>1. u[k - 1] \in Int /\ v[k - 1] \in Int
      BY <1>1, <1>2, <2>2 DEF Runs
    <3>2. p[k] \in Int /\ q[k] \in Int
      BY <2>2
    <3> QED BY <3>1, <3>2
  <2>5. u[k - 1] <= v[k - 1] /\ p[k] <= q[k]
    BY <2>2
  <2> QED BY <2>1, <2>3, <2>4, <2>5
<1>5. n \in 0..n
  BY <1>3
<1> QED BY <1>1, <1>2, <1>4, <1>5

\* Nothing adds up to nothing.
LEMMA TotalZero ==
    ASSUME NEW p \in Seq(Int), \A i \in 1..Len(p) : p[i] = 0
    PROVE  Total(p) = 0
<1> DEFINE u == [i \in 0..Len(p) |-> 0]
<1>1. Len(p) \in Nat /\ u \in [0..Len(p) -> Int]
  OBVIOUS
<1>2. \A i \in 0..Len(p) : u[i] = 0
  OBVIOUS
<1>3. Runs(u, p)
  <2> HIDE DEF u
  <2> QED BY <1>1, <1>2 DEF Runs
<1>4. Total(p) = u[Len(p)]
  <2> HIDE DEF u
  <2> QED BY <1>3, TotalIs
<1> QED BY <1>1, <1>2, <1>4

\* A total of values that are not negative is at least each of them.
LEMMA TotalAtLeast ==
    ASSUME NEW p \in Seq(Int), \A i \in 1..Len(p) : p[i] >= 0
    PROVE  Total(p) >= 0 /\ \A i \in 1..Len(p) : p[i] <= Total(p)
<1> DEFINE n == Len(p)
<1>1. PICK u : Runs(u, p) /\ Total(p) = u[n]
  BY TotalRuns
<1>2. n \in Nat
  OBVIOUS
<1> DEFINE T == {i \in 0..n : ~ (u[i] >= 0 /\ \A j \in 1..i : p[j] <= u[i])}
<1>4. T = {}
  <2> SUFFICES ASSUME T # {} PROVE FALSE
    OBVIOUS
  <2>1. PICK k \in T : \A j \in T : k <= j
    <3>1. T \in SUBSET Nat
      OBVIOUS
    <3> HIDE DEF T
    <3> QED BY <3>1, LeastNat
  <2>2. k \in 1..n /\ k - 1 \in 0..n /\ k - 1 \notin T /\ k \in 0..n
    BY <1>1, <1>2, <2>1 DEF Runs
  <2>3. u[k] = u[k - 1] + p[k] /\ u[k - 1] \in Int /\ p[k] \in Int /\ p[k] >= 0
    <3>1. u[k] = u[k - 1] + p[k] /\ u[k - 1] \in Int
      BY <1>1, <2>2 DEF Runs
    <3>2. p[k] \in Int /\ p[k] >= 0
      BY <2>2
    <3> QED BY <3>1, <3>2
  <2>4. u[k - 1] >= 0 /\ \A j \in 1..(k - 1) : p[j] <= u[k - 1]
    BY <2>2
  <2>5. ASSUME NEW j \in 1..k PROVE p[j] <= u[k]
    <3>1. CASE j = k
      BY <2>3, <2>4, <3>1
    <3>2. CASE j # k
      <4>1. j \in 1..(k - 1) /\ p[j] \in Int
        BY <2>2, <3>2
      <4> QED BY <2>3, <2>4, <4>1
    <3> QED BY <3>1, <3>2
  <2> QED BY <2>1, <2>3, <2>4, <2>5
<1>5. n \in 0..n
  BY <1>2
<1> QED BY <1>1, <1>4, <1>5

-----------------------------------------------------------------------------
(* Products *)

\* The places of a product.
LEMMA ProductSeq ==
    ASSUME NEW s \in Seq(Int), NEW t \in Seq(Int), Len(t) = Len(s)
    PROVE  \E w \in Seq(Int) : /\ Len(w) = Len(s) /\ Product(s, t) = Total(w)
                               /\ \A i \in 1..Len(s) : w[i] = s[i] * t[i]
<1> DEFINE w == [i \in 1..Len(s) |-> s[i] * t[i]]
<1>1. \A i \in 1..Len(s) : s[i] * t[i] \in Int
  <2> TAKE i \in 1..Len(s)
  <2>1. s[i] \in Int /\ t[i] \in Int
    OBVIOUS
  <2> QED BY <2>1
<1>2. w \in Seq(Int) /\ Len(w) = Len(s) /\ \A i \in 1..Len(s) : w[i] = s[i] * t[i]
  BY <1>1
<1> QED BY <1>2 DEF Product

\* A sum of products is an integer.
LEMMA ProductType ==
    ASSUME NEW s \in Seq(Int), NEW t \in Seq(Int), Len(t) = Len(s)
    PROVE  Product(s, t) \in Int
  BY ProductSeq, TotalType

\* One more place.
Longer(s1, s) == Len(s1) = Len(s) + 1 /\ \A i \in 1..Len(s) : s1[i] = s[i]

\* It adds its product.
ProductGrows(s1, t1, s, t) ==
    Product(s1, t1) = Product(s, t) + s1[Len(s1)] * t1[Len(s1)]

\* One more place adds the product of its values.
LEMMA ProductLonger ==
    ASSUME NEW s \in Seq(Int), NEW t \in Seq(Int), Len(t) = Len(s),
           NEW s1 \in Seq(Int), NEW t1 \in Seq(Int), Longer(s1, s), Longer(t1, t)
    PROVE  ProductGrows(s1, t1, s, t)
<1> USE DEF Longer, ProductGrows
<1>1. PICK w \in Seq(Int) : /\ Len(w) = Len(s) /\ Product(s, t) = Total(w)
                            /\ \A i \in 1..Len(s) : w[i] = s[i] * t[i]
  BY ProductSeq
<1>2. PICK v \in Seq(Int) : /\ Len(v) = Len(s1) /\ Product(s1, t1) = Total(v)
                            /\ \A i \in 1..Len(s1) : v[i] = s1[i] * t1[i]
  <2>1. Len(t1) = Len(s1)
    OBVIOUS
  <2> QED BY ONLY s1 \in Seq(Int), t1 \in Seq(Int), <2>1, ProductSeq
<1>3. ASSUME NEW i \in 1..Len(w) PROVE v[i] = w[i]
  BY <1>1, <1>2
<1>4. Total(v) = Total(w) + v[Len(v)]
  BY <1>1, <1>2, <1>3, TotalLonger
<1>5. Len(s1) \in 1..Len(s1)
  OBVIOUS
<1> QED BY <1>1, <1>2, <1>4, <1>5

\* The squares of the areas that the last place spans with the others.
LEMMA Areas ==
    ASSUME NEW s \in Seq(Int), NEW t \in Seq(Int), Len(t) = Len(s),
           NEW a \in Int, NEW b \in Int
    PROVE  \E w \in Seq(Int) :
             /\ Len(w) = Len(s)
             /\ \A i \in 1..Len(s) : w[i] = (s[i] * b - a * t[i]) * (s[i] * b - a * t[i])
             /\ Total(w) = (b * b) * Product(s, s) + (-2 * a * b) * Product(s, t)
                             + (a * a) * Product(t, t)
<1>1. PICK p \in Seq(Int) : /\ Len(p) = Len(s) /\ Product(s, s) = Total(p)
                            /\ \A i \in 1..Len(s) : p[i] = s[i] * s[i]
  BY ProductSeq
<1>2. PICK q \in Seq(Int) : /\ Len(q) = Len(s) /\ Product(s, t) = Total(q)
                            /\ \A i \in 1..Len(s) : q[i] = s[i] * t[i]
  BY ProductSeq
<1>3. PICK r \in Seq(Int) : /\ Len(r) = Len(s) /\ Product(t, t) = Total(r)
                            /\ \A i \in 1..Len(s) : r[i] = t[i] * t[i]
  <2>1. PICK r \in Seq(Int) : /\ Len(r) = Len(t) /\ Product(t, t) = Total(r)
                              /\ \A i \in 1..Len(t) : r[i] = t[i] * t[i]
    BY ONLY t \in Seq(Int), ProductSeq
  <2> QED BY <2>1
<1> DEFINE w == [i \in 1..Len(s) |-> (s[i] * b - a * t[i]) * (s[i] * b - a * t[i])]
<1>4. ASSUME NEW i \in 1..Len(s)
      PROVE  /\ w[i] = (s[i] * b - a * t[i]) * (s[i] * b - a * t[i])
             /\ w[i] \in Int
             /\ w[i] = (b * b) * p[i] + (-2 * a * b) * q[i] + (a * a) * r[i]
  <2>1. s[i] \in Int /\ t[i] \in Int
    OBVIOUS
  <2>2. w[i] = (s[i] * b - a * t[i]) * (s[i] * b - a * t[i])
    OBVIOUS
  <2>3. p[i] = s[i] * s[i] /\ q[i] = s[i] * t[i] /\ r[i] = t[i] * t[i]
    BY <1>1, <1>2, <1>3
  <2> HIDE DEF w
  <2>4. ASSUME NEW x \in Int, NEW y \in Int, x = s[i], y = t[i]
        PROVE  w[i] \in Int /\ w[i] = (b * b) * p[i] + (-2 * a * b) * q[i] + (a * a) * r[i]
    <3>1. w[i] = (x * b - a * y) * (x * b - a * y)
      BY ONLY <2>2, <2>4
    <3>2. p[i] = x * x /\ q[i] = x * y /\ r[i] = y * y
      BY ONLY <2>3, <2>4
    <3>3. (x * b - a * y) * (x * b - a * y) \in Int
      OBVIOUS
    <3>4. (x * b - a * y) * (x * b - a * y)
            = (b * b) * (x * x) + (-2 * a * b) * (x * y) + (a * a) * (y * y)
      OBVIOUS
    <3> QED BY ONLY <3>1, <3>2, <3>3, <3>4
  <2> QED BY ONLY <2>1, <2>2, <2>4
<1>5. w \in Seq(Int) /\ Len(w) = Len(s)
  BY <1>4
<1>6. b * b \in Int /\ -2 * a * b \in Int /\ a * a \in Int
  OBVIOUS
<1> HIDE DEF w
<1>7. ASSUME NEW k \in Int, NEW l \in Int, NEW m \in Int,
             k = b * b, l = -2 * a * b, m = a * a
      PROVE  Total(w) = k * Total(p) + l * Total(q) + m * Total(r)
  <2>1. \A i \in 1..Len(w) : w[i] = Mix(k, p[i], l, q[i], m, r[i])
    BY <1>4, <1>5, <1>7 DEF Mix
  <2>2. Len(p) = Len(w) /\ Len(q) = Len(w) /\ Len(r) = Len(w)
    BY <1>1, <1>2, <1>3, <1>5
  <2>3. p \in Seq(Int) /\ q \in Seq(Int) /\ r \in Seq(Int) /\ w \in Seq(Int)
    BY <1>5
  <2>4. Combines(w, k, p, l, q, m, r)
    BY <2>1, <2>2 DEF Combines
  <2>5. TotalsCombine(w, k, p, l, q, m, r)
    BY ONLY <2>3, <2>4, <1>7, TotalLinear
  <2> QED BY <2>5 DEF Mix, TotalsCombine
<1>8. Total(w) = (b * b) * Total(p) + (-2 * a * b) * Total(q) + (a * a) * Total(r)
  BY ONLY <1>6, <1>7
<1> QED BY <1>1, <1>2, <1>3, <1>4, <1>5, <1>8

\* The excess of Cauchy and Schwarz.
Gram(s, t) == Product(s, s) * Product(t, t) - Product(s, t) * Product(s, t)

Parallel(s, t) == \A i, j \in 1..Len(s) : s[i] * t[j] = s[j] * t[i]

\* What is to be shown, as one predicate.
Schwarz(s, t) == Gram(s, t) >= 0 /\ (Gram(s, t) = 0 <=> Parallel(s, t))

\* The step: one more place.
LEMMA SchwarzLonger ==
    ASSUME NEW s \in Seq(Int), NEW t \in Seq(Int), Len(t) = Len(s),
           NEW s1 \in Seq(Int), NEW t1 \in Seq(Int), Longer(s1, s), Longer(t1, t),
           Schwarz(s, t)
    PROVE  Schwarz(s1, t1)
<1> DEFINE n == Len(s)
<1>n. n \in Nat /\ Len(s1) = n + 1 /\ Len(t1) = n + 1 /\ n + 1 \in 1..(n + 1)
  BY DEF Longer
<1>ab. s1[n + 1] \in Int /\ t1[n + 1] \in Int
  BY <1>n
<1>1. ASSUME NEW a \in Int, NEW b \in Int, a = s1[n + 1], b = t1[n + 1]
      PROVE  Schwarz(s1, t1)
  <2>1. PICK w \in Seq(Int) :
           /\ Len(w) = Len(s)
           /\ \A i \in 1..Len(s) : w[i] = (s[i] * b - a * t[i]) * (s[i] * b - a * t[i])
           /\ Total(w) = (b * b) * Product(s, s) + (-2 * a * b) * Product(s, t)
                           + (a * a) * Product(t, t)
    BY ONLY s \in Seq(Int), t \in Seq(Int), Len(t) = Len(s), a \in Int, b \in Int,
            Areas, ZenonT(60)
  <2>2. Product(s1, s1) = Product(s, s) + a * a
    <3>1. ProductGrows(s1, s1, s, s)
      BY ONLY s \in Seq(Int), s1 \in Seq(Int), Longer(s1, s), ProductLonger
    <3> QED BY ONLY <3>1, <1>n, <1>1 DEF ProductGrows
  <2>3. Product(t1, t1) = Product(t, t) + b * b
    <3>1. ProductGrows(t1, t1, t, t)
      BY ONLY t \in Seq(Int), t1 \in Seq(Int), Longer(t1, t), ProductLonger
    <3> QED BY ONLY <3>1, <1>n, <1>1 DEF ProductGrows
  <2>4. Product(s1, t1) = Product(s, t) + a * b
    <3>1. ProductGrows(s1, t1, s, t)
      BY ONLY s \in Seq(Int), s1 \in Seq(Int), Longer(s1, s), t \in Seq(Int),
              t1 \in Seq(Int), Longer(t1, t), Len(t) = Len(s), ProductLonger
    <3> QED BY ONLY <3>1, <1>n, <1>1 DEF ProductGrows
  <2>5. Product(s, s) \in Int /\ Product(t, t) \in Int /\ Product(s, t) \in Int
    <3>1. Product(t, t) \in Int
      BY ONLY t \in Seq(Int), ProductType
    <3> QED BY <3>1, ProductType
  <2>6. ASSUME NEW x \in Int, NEW y \in Int, NEW z \in Int,
               x = Product(s, s), y = Product(t, t), z = Product(s, t)
        PROVE  Gram(s1, t1) = Gram(s, t) + Total(w) /\ Gram(s, t) \in Int
    <3>1. Gram(s1, t1) = (x + a * a) * (y + b * b) - (z + a * b) * (z + a * b)
      BY ONLY <2>2, <2>3, <2>4, <2>6 DEF Gram
    <3>2. Gram(s, t) = x * y - z * z
      BY ONLY <2>6 DEF Gram
    <3>3. Total(w) = (b * b) * x + (-2 * a * b) * z + (a * a) * y
      BY ONLY <2>1, <2>6
    <3>4. (x + a * a) * (y + b * b) - (z + a * b) * (z + a * b)
            = (x * y - z * z) + ((b * b) * x + (-2 * a * b) * z + (a * a) * y)
      OBVIOUS
    <3>5. x * y - z * z \in Int
      OBVIOUS
    <3> QED BY ONLY <3>1, <3>2, <3>3, <3>4, <3>5
  <2>7. Gram(s1, t1) = Gram(s, t) + Total(w) /\ Gram(s, t) \in Int
    BY ONLY <2>5, <2>6
  <2>8. ASSUME NEW i \in 1..Len(w)
        PROVE  w[i] >= 0 /\ w[i] \in Int /\ (w[i] = 0 <=> s[i] * b = a * t[i])
    <3>1. s[i] \in Int /\ t[i] \in Int
      BY <2>1
    <3>2. ASSUME NEW x \in Int, NEW y \in Int, x = s[i], y = t[i]
          PROVE  w[i] >= 0 /\ w[i] \in Int /\ (w[i] = 0 <=> s[i] * b = a * t[i])
      <4>1. w[i] = (x * b - a * y) * (x * b - a * y)
        BY <2>1, <3>2
      <4>2. x * b \in Int /\ a * y \in Int
        OBVIOUS
      <4>3. ASSUME NEW k \in Int, NEW l \in Int, k = x * b, l = a * y
            PROVE  /\ (k - l) * (k - l) >= 0 /\ (k - l) * (k - l) \in Int
                   /\ (k - l) * (k - l) = 0 <=> k = l
        <5>1. ASSUME NEW m \in Int
              PROVE  m * m >= 0 /\ m * m \in Int /\ (m * m = 0 <=> m = 0)
          OBVIOUS
        <5>2. k - l \in Int /\ (k - l = 0 <=> k = l)
          OBVIOUS
        <5> QED BY ONLY <5>1, <5>2
      <4>4. /\ (x * b - a * y) * (x * b - a * y) >= 0
            /\ (x * b - a * y) * (x * b - a * y) \in Int
            /\ (x * b - a * y) * (x * b - a * y) = 0 <=> x * b = a * y
        BY ONLY <4>2, <4>3
      <4> QED BY ONLY <4>1, <4>4, <3>2
    <3> QED BY ONLY <3>1, <3>2
  <2>9. Total(w) >= 0 /\ Total(w) \in Int
        /\ (Total(w) = 0 <=> \A i \in 1..Len(w) : w[i] = 0)
    <3>1. Total(w) >= 0 /\ \A i \in 1..Len(w) : w[i] <= Total(w)
      BY <2>8, TotalAtLeast
    <3>2. Total(w) \in Int
      BY TotalType
    <3>3. ASSUME Total(w) = 0, NEW i \in 1..Len(w) PROVE w[i] = 0
      BY <2>8, <3>1, <3>3
    <3>4. ASSUME \A i \in 1..Len(w) : w[i] = 0 PROVE Total(w) = 0
      BY <3>4, TotalZero
    <3> QED BY <3>1, <3>2, <3>3, <3>4
  <2>10. (\A i \in 1..Len(w) : w[i] = 0) <=> \A i \in 1..n : s[i] * b = a * t[i]
    BY <2>1, <2>8
  <2>11. Parallel(s1, t1) <=> Parallel(s, t) /\ \A i \in 1..n : s[i] * b = a * t[i]
    <3>1. \A i \in 1..n : /\ i \in 1..(n + 1) /\ s1[i] = s[i] /\ t1[i] = t[i]
                           /\ s1[i] \in Int /\ t1[i] \in Int
      BY <1>n DEF Longer
    <3>2. ASSUME Parallel(s1, t1)
          PROVE  Parallel(s, t) /\ \A i \in 1..n : s[i] * b = a * t[i]
      <4>1. \A i, j \in 1..(n + 1) : s1[i] * t1[j] = s1[j] * t1[i]
        BY ONLY <3>2, <1>n DEF Parallel
      <4>2. Parallel(s, t)
        BY ONLY <3>1, <4>1 DEF Parallel
      <4>3. ASSUME NEW i \in 1..n PROVE s[i] * b = a * t[i]
        BY ONLY <3>1, <4>1, <4>3, <1>1, <1>n
      <4> QED BY <4>2, <4>3
    <3>3. ASSUME Parallel(s, t), \A i \in 1..n : s[i] * b = a * t[i]
          PROVE  Parallel(s1, t1)
      <4>1. ASSUME NEW i \in 1..(n + 1), NEW j \in 1..(n + 1)
            PROVE  s1[i] * t1[j] = s1[j] * t1[i]
        <5>1. CASE i \in 1..n /\ j \in 1..n
          BY ONLY <5>1, <3>1, <3>3 DEF Parallel
        <5>2. CASE i = n + 1 /\ j = n + 1
          BY ONLY <5>2
        <5>3. CASE i \in 1..n /\ j = n + 1
          <6>1. s[i] * b = a * t[i]
            BY <3>3, <5>3
          <6>2. s1[i] = s[i] /\ t1[i] = t[i]
            BY <3>1, <5>3
          <6> QED BY ONLY <6>1, <6>2, <5>3, <1>1
        <5>4. CASE i = n + 1 /\ j \in 1..n
          <6>1. s[j] * b = a * t[j]
            BY <3>3, <5>4
          <6>2. s1[j] = s[j] /\ t1[j] = t[j]
            BY <3>1, <5>4
          <6>3. t[j] \in Int /\ s[j] \in Int
            BY <5>4
          <6>4. s1[i] = a /\ t1[i] = b
            BY ONLY <5>4, <1>1
          <6>5. ASSUME NEW x \in Int, NEW y \in Int, x = s[j], y = t[j]
                PROVE  s1[i] * t1[j] = s1[j] * t1[i]
            <7>1. s1[i] * t1[j] = a * y /\ s1[j] * t1[i] = x * b /\ x * b = a * y
              BY ONLY <6>1, <6>2, <6>4, <6>5
            <7> QED BY ONLY <7>1
          <6> QED BY ONLY <6>3, <6>5
        <5>5. (i \in 1..n \/ i = n + 1) /\ (j \in 1..n \/ j = n + 1)
          BY <1>n
        <5> QED BY ONLY <5>1, <5>2, <5>3, <5>4, <5>5
      <4> QED BY ONLY <4>1, <1>n DEF Parallel
    <3> QED BY <3>2, <3>3
  <2>12. Gram(s, t) >= 0 /\ (Gram(s, t) = 0 <=> Parallel(s, t))
    BY DEF Schwarz
  <2>13. Gram(s1, t1) >= 0 /\ (Gram(s1, t1) = 0 <=> Gram(s, t) = 0 /\ Total(w) = 0)
    BY ONLY <2>7, <2>9, <2>12
  <2> QED BY ONLY <2>9, <2>10, <2>11, <2>12, <2>13 DEF Schwarz
<1> QED BY ONLY <1>ab, <1>1

\* The product of two sequences is no more than their lengths allow, and as
\* much exactly when they are parallel.
LEMMA CauchySchwarz ==
    ASSUME NEW s \in Seq(Int), NEW t \in Seq(Int), Len(t) = Len(s)
    PROVE  Schwarz(s, t)
<1> DEFINE n == Len(s)
           P(k) == [i \in 1..k |-> s[i]]
           Q(k) == [i \in 1..k |-> t[i]]
           T == {k \in 0..n : ~ Schwarz(P(k), Q(k))}
<1>n. n \in Nat
  OBVIOUS
<1>1. ASSUME NEW k \in 0..n
      PROVE  /\ P(k) \in Seq(Int) /\ Q(k) \in Seq(Int)
             /\ Len(P(k)) = k /\ Len(Q(k)) = k
             /\ \A i \in 1..k : P(k)[i] = s[i] /\ Q(k)[i] = t[i]
  OBVIOUS
<1>2. T = {}
  <2> SUFFICES ASSUME T # {} PROVE FALSE
    OBVIOUS
  <2>1. PICK k \in T : \A j \in T : k <= j
    <3>1. T \in SUBSET Nat
      OBVIOUS
    <3> HIDE DEF T
    <3> QED BY <3>1, LeastNat
  <2>2. k # 0
    <3> SUFFICES ASSUME k = 0 PROVE FALSE
      OBVIOUS
    <3>1. P(0) = <<>> /\ Q(0) = <<>>
      OBVIOUS
    <3>2. Product(<<>>, <<>>) = 0
      <4>1. PICK w \in Seq(Int) : Len(w) = Len(<<>>) /\ Product(<<>>, <<>>) = Total(w)
        <5>1. <<>> \in Seq(Int)
          OBVIOUS
        <5> QED BY ONLY <5>1, ProductSeq
      <4>2. \A i \in 1..Len(w) : w[i] = 0
        BY <4>1
      <4>3. Total(w) = 0
        BY ONLY w \in Seq(Int), <4>2, TotalZero
      <4> QED BY <4>1, <4>3
    <3>3. Gram(<<>>, <<>>) = 0
      BY <3>2 DEF Gram
    <3>4. Parallel(<<>>, <<>>)
      BY DEF Parallel
    <3>5. Schwarz(P(0), Q(0))
      BY <3>1, <3>3, <3>4 DEF Schwarz
    <3> QED BY <2>1, <3>5
  <2>3. k \in 1..n /\ k - 1 \in 0..n /\ k \in 0..n
    BY <2>1, <2>2, <1>n
  <2>4. Schwarz(P(k - 1), Q(k - 1))
    <3>1. k - 1 \notin T
      <4> HIDE DEF T
      <4> QED BY <2>1, <2>3
    <3> HIDE DEF P, Q
    <3> QED BY <3>1, <2>3
  <2>5. ASSUME NEW s0, NEW t0, NEW s1, NEW t1,
               s0 = P(k - 1), t0 = Q(k - 1), s1 = P(k), t1 = Q(k)
        PROVE  Schwarz(s1, t1)
    <3>1. /\ s0 \in Seq(Int) /\ t0 \in Seq(Int) /\ Len(s0) = k - 1 /\ Len(t0) = k - 1
          /\ \A i \in 1..(k - 1) : s0[i] = s[i] /\ t0[i] = t[i]
      BY ONLY <1>1, <2>3, <2>5
    <3>2. /\ s1 \in Seq(Int) /\ t1 \in Seq(Int) /\ Len(s1) = k /\ Len(t1) = k
          /\ \A i \in 1..k : s1[i] = s[i] /\ t1[i] = t[i]
      BY ONLY <1>1, <2>3, <2>5
    <3>3. Schwarz(s0, t0)
      BY ONLY <2>4, <2>5
    <3>4. Len(t0) = Len(s0)
      BY ONLY <3>1
    <3>5. k \in Int /\ \A i \in 1..(k - 1) : i \in 1..k
      BY ONLY <2>3, <1>n
    <3>6. /\ Len(s1) = Len(s0) + 1 /\ \A i \in 1..Len(s0) : s1[i] = s0[i]
          /\ Len(t1) = Len(t0) + 1 /\ \A i \in 1..Len(t0) : t1[i] = t0[i]
      <4>1. Len(s1) = Len(s0) + 1 /\ Len(t1) = Len(t0) + 1
        BY ONLY <3>1, <3>2, <3>5
      <4>2. Len(s0) = k - 1 /\ Len(t0) = k - 1
        BY ONLY <3>1
      <4>3. ASSUME NEW i \in 1..(k - 1) PROVE s1[i] = s0[i] /\ t1[i] = t0[i]
        BY ONLY <3>1, <3>2, <3>5, <4>3
      <4> QED BY ONLY <4>1, <4>2, <4>3
    <3>7. Longer(s1, s0) /\ Longer(t1, t0)
      BY ONLY <3>6 DEF Longer
    <3> QED BY ONLY <3>1, <3>2, <3>3, <3>4, <3>7, SchwarzLonger
  <2>6. Schwarz(P(k), Q(k))
    <3> HIDE DEF P, Q
    <3> QED BY <2>5
  <2> QED BY <2>1, <2>6
<1>3. P(n) = s /\ Q(n) = t
  OBVIOUS
<1>4. n \in 0..n
  BY <1>n
<1> QED BY <1>2, <1>3, <1>4
=============================================================================
