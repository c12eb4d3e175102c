------------------------------ MODULE Numbers ------------------------------
(***************************************************************************)
(* Facts about natural numbers that the proofs about several components    *)
(* rest on: induction and definition by iteration, both from the           *)
(* well-foundedness of < and stated for sets and functions, powers of two, *)
(* quotients and remainders.                                               *)
(***************************************************************************)
EXTENDS Integers, FiniteSets, FiniteSetTheorems, WellFoundedInduction, TLAPS

\* Any natural numbers have a least one.
LEMMA LeastNatural ==
  ASSUME NEW T \in SUBSET Nat, T # {}
  PROVE  \E n \in T : \A m \in T : n <= m
<1> DEFINE R == OpToRel(<, Nat)
<1>1. \A m, n \in Nat : m < n => <<m, n>> \in R
  BY DEF OpToRel
<1>2. IsWellFoundedOn(R, Nat)
  BY NatLessThanWellFounded
<1> HIDE DEF R
<1>3. PICK n \in T : \A m \in T : ~(<<m, n>> \in R)
  BY <1>2, WFMin
<1>4. n \in Nat /\ \A m \in T : m \in Nat /\ ~(m < n)
  BY <1>1, <1>3
<1> QED BY <1>4

\* A set of natural numbers with zero and all successors has them all.
LEMMA NaturalInduction ==
  ASSUME NEW S, 0 \in S, \A k \in Nat : k \in S => k + 1 \in S
  PROVE  Nat \subseteq S
<1> SUFFICES ASSUME Nat \ S # {} PROVE FALSE
  OBVIOUS
<1>1. PICK x \in Nat \ S : \A y \in Nat \ S : x <= y
  <2>1. Nat \ S \in SUBSET Nat
    OBVIOUS
  <2>2. QED
    BY <2>1, LeastNatural
<1>2. x # 0 /\ x - 1 \in Nat /\ x - 1 < x
  BY <1>1
<1>3. x - 1 \in S
  BY <1>1, <1>2
<1> QED BY <1>1, <1>2, <1>3

\* f starts with a and continues with the step g, from the index and the value.
Iterates(f, V, a, g) ==
  /\ f \in [Nat -> V]
  /\ f[0] = a
  /\ \A k \in Nat : f[k + 1] = g[<<k, f[k]>>]

\* A function on the natural numbers is given by its first value and a step.
LEMMA Iteration ==
  ASSUME NEW V, NEW a \in V, NEW g \in [Nat \X V -> V]
  PROVE  \E f : Iterates(f, V, a, g)
<1> DEFINE Good(n, h) == /\ h \in [0 .. n -> V] /\ h[0] = a
                         /\ \A k \in 0 .. n : k < n => h[k + 1] = g[<<k, h[k]>>]
           S == {n \in Nat : \E h : Good(n, h)}
<1>1. Nat \subseteq S
  <2>1. 0 \in S
    <3>1. Good(0, [k \in 0 .. 0 |-> a])
      OBVIOUS
    <3>2. QED
      BY <3>1
  <2>2. ASSUME NEW n \in Nat, n \in S
        PROVE  n + 1 \in S
    <3>1. PICK h : Good(n, h)
      BY <2>2
    <3> DEFINE e == [k \in 0 .. n + 1 |-> IF k = n + 1 THEN g[<<n, h[n]>>] ELSE h[k]]
    <3>2. h[n] \in V /\ g[<<n, h[n]>>] \in V
      BY <3>1
    <3>3. e \in [0 .. n + 1 -> V] /\ e[0] = a
      BY <3>1, <3>2
    <3>4. ASSUME NEW k \in 0 .. n + 1, k < n + 1
          PROVE  e[k + 1] = g[<<k, e[k]>>]
      <4>1. e[k] = h[k]
        BY <3>4
      <4>2. CASE k = n
        BY <4>1, <4>2, SMTT(60)
      <4>3. CASE k < n
        <5>1. k \in 0 .. n /\ h[k + 1] = g[<<k, h[k]>>]
          BY <3>1, <4>3
        <5>2. e[k + 1] = h[k + 1]
          BY <4>3
        <5>3. QED
          BY <4>1, <5>1, <5>2
      <4>4. QED
        BY <3>4, <4>2, <4>3
    <3>5. Good(n + 1, e)
      BY <3>3, <3>4
    <3> HIDE DEF e, Good
    <3>6. QED
      BY <3>5
  <2> HIDE DEF S
  <2>3. QED
    BY <2>1, <2>2, NaturalInduction
<1>2. ASSUME NEW n \in Nat, NEW p, NEW m \in Nat, m >= n, NEW q, Good(n, p), Good(m, q)
      PROVE  \A k \in 0 .. n : p[k] = q[k]
  <2> DEFINE B == {k \in Nat : k <= n => p[k] = q[k]}
  <2>1. 0 \in B
    BY <1>2
  <2>2. ASSUME NEW k \in Nat, k \in B
        PROVE  k + 1 \in B
    <3> SUFFICES ASSUME k + 1 <= n PROVE p[k + 1] = q[k + 1]
      OBVIOUS
    <3>1. k \in 0 .. n /\ k < n /\ k \in 0 .. m /\ k < m
      BY <1>2
    <3>2. p[k] = q[k]
      BY <2>2, <3>1
    <3>3. p[k + 1] = g[<<k, p[k]>>] /\ q[k + 1] = g[<<k, q[k]>>]
      BY <1>2, <3>1
    <3>4. QED
      BY <3>2, <3>3
  <2> HIDE DEF B
  <2>3. Nat \subseteq B
    BY <2>1, <2>2, NaturalInduction
  <2>4. QED
    BY <2>3 DEF B
<1> DEFINE H(n) == CHOOSE h : Good(n, h)
           f == [n \in Nat |-> H(n)[n]]
<1>3. ASSUME NEW n \in Nat
      PROVE  Good(n, H(n))
  <2>1. \E h : Good(n, h)
    BY <1>1
  <2> HIDE DEF Good
  <2>2. QED
    BY <2>1
<1>4. f \in [Nat -> V]
  <2>1. ASSUME NEW n \in Nat
        PROVE  H(n)[n] \in V
    <3>1. Good(n, H(n))
      BY <1>3
    <3> HIDE DEF H
    <3>2. QED
      BY <3>1
  <2> HIDE DEF H
  <2>2. QED
    BY <2>1
<1>5. f[0] = a
  <2>1. Good(0, H(0))
    BY <1>3
  <2> HIDE DEF H
  <2>2. QED
    BY <2>1
<1>6. ASSUME NEW k \in Nat
      PROVE  f[k + 1] = g[<<k, f[k]>>]
  <2> HIDE DEF H, Good
  <2>0. k + 1 \in Nat
    OBVIOUS
  <2>1. Good(k, H(k)) /\ Good(k + 1, H(k + 1))
    BY <1>3, <2>0
  <2>2. H(k)[k] = H(k + 1)[k]
    BY <1>2, <2>1
  <2>3. H(k + 1)[k + 1] = g[<<k, H(k + 1)[k]>>]
    <3>1. k \in 0 .. k + 1 /\ k < k + 1
      OBVIOUS
    <3>2. QED
      BY <2>1, <3>1 DEF Good
  <2>4. QED
    BY <2>2, <2>3
<1> HIDE DEF f
<1> QED BY <1>4, <1>5, <1>6 DEF Iterates

\* f takes a through the steps 1 .. n of g.
Accumulates(f, V, n, a, g) ==
  /\ f \in [0 .. n -> V]
  /\ f[0] = a
  /\ \A k \in 1 .. n : f[k] = g[<<k, f[k - 1]>>]

\* A function over a prefix of the natural numbers is given the same way.
LEMMA Accumulation ==
  ASSUME NEW V, NEW a \in V, NEW n \in Nat, NEW g \in [(1 .. n) \X V -> V]
  PROVE  \E f : Accumulates(f, V, n, a, g)
<1> DEFINE h == [p \in Nat \X V |-> IF p[1] + 1 \in 1 .. n THEN g[<<p[1] + 1, p[2]>>] ELSE p[2]]
<1>1. h \in [Nat \X V -> V]
  OBVIOUS
<1>2. ASSUME NEW k \in Nat, NEW x \in V, k + 1 \in 1 .. n
      PROVE  h[<<k, x>>] = g[<<k + 1, x>>]
  BY <1>2
<1> HIDE DEF h
<1>3. PICK e : Iterates(e, V, a, h)
  BY <1>1, Iteration
<1> DEFINE f == [k \in 0 .. n |-> e[k]]
<1>4. f \in [0 .. n -> V] /\ f[0] = a
  BY <1>3 DEF Iterates
<1>5. ASSUME NEW k \in 1 .. n
      PROVE  f[k] = g[<<k, f[k - 1]>>]
  <2>1. k - 1 \in Nat /\ (k - 1) + 1 = k /\ k - 1 \in 0 .. n /\ k \in 0 .. n
    OBVIOUS
  <2>2. e[k - 1] \in V /\ e[(k - 1) + 1] = h[<<k - 1, e[k - 1]>>]
    BY <1>3, <2>1 DEF Iterates
  <2>3. h[<<k - 1, e[k - 1]>>] = g[<<(k - 1) + 1, e[k - 1]>>]
    BY <1>2, <2>1, <2>2
  <2>4. QED
    BY <2>1, <2>2, <2>3
<1> HIDE DEF f
<1>6. Accumulates(f, V, n, a, g)
  BY <1>4, <1>5 DEF Accumulates
<1> QED BY <1>6

-----------------------------------------------------------------------------
(***************************************************************************)
(* Powers of two, which count the subsets of a set.                        *)
(***************************************************************************)

\* Powers of two are the sizes of the powersets.
LEMMA PowerIsPositive ==
  ASSUME NEW a \in Nat
  PROVE  2 ^ a \in Nat \ {0}
<1>1. IsFiniteSet(1 .. a) /\ Cardinality(1 .. a) = a
  BY FS_Interval
<1>2. IsFiniteSet(SUBSET (1 .. a)) /\ Cardinality(SUBSET (1 .. a)) = 2 ^ a
  BY <1>1, FS_SUBSET
<1>3. SUBSET (1 .. a) # {}
  OBVIOUS
<1> QED BY <1>2, <1>3, FS_CardinalityType, FS_EmptySet

\* The empty set has one subset.
LEMMA PowerZero == 2 ^ 0 = 1
<1>1. IsFiniteSet({}) /\ Cardinality({}) = 0
  BY FS_EmptySet
<1>2. Cardinality(SUBSET {}) = 2 ^ 0
  BY <1>1, FS_SUBSET
<1>3. SUBSET {} = {{}}
  OBVIOUS
<1> QED BY <1>2, <1>3, FS_Singleton

\* A subset of a disjoint union is a subset of each.
LEMMA PowerSum ==
  ASSUME NEW a \in Nat, NEW b \in Nat
  PROVE  2 ^ (a + b) = 2 ^ a * 2 ^ b
<1> DEFINE S == 1 .. a
           T == a + 1 .. a + b
           U == 1 .. a + b
           f == [X \in SUBSET U |-> <<X \cap S, X \cap T>>]
<1>1. /\ IsFiniteSet(S) /\ Cardinality(S) = a
      /\ IsFiniteSet(T) /\ Cardinality(T) = b
      /\ IsFiniteSet(U) /\ Cardinality(U) = a + b
  <2>1. \A j \in Nat : IsFiniteSet(1 .. j) /\ Cardinality(1 .. j) = j
    BY FS_Interval
  <2>2. /\ IsFiniteSet(a + 1 .. a + b)
        /\ Cardinality(a + 1 .. a + b) = IF a + 1 > a + b THEN 0 ELSE (a + b) - (a + 1) + 1
    BY FS_Interval
  <2>3. Cardinality(a + 1 .. a + b) = b
    BY <2>2
  <2>4. a + b \in Nat
    OBVIOUS
  <2>5. QED
    BY <2>1, <2>2, <2>3, <2>4
<1>2. U = S \cup T /\ S \cap T = {}
  OBVIOUS
<1> HIDE DEF S, T, U
<1>3. /\ IsFiniteSet(SUBSET S) /\ Cardinality(SUBSET S) = 2 ^ a
      /\ IsFiniteSet(SUBSET T) /\ Cardinality(SUBSET T) = 2 ^ b
      /\ IsFiniteSet(SUBSET U) /\ Cardinality(SUBSET U) = 2 ^ (a + b)
  BY <1>1, FS_SUBSET
<1>4. f \in [SUBSET U -> (SUBSET S) \X (SUBSET T)]
  BY <1>2
<1>5. ASSUME NEW X \in SUBSET U, NEW Y \in SUBSET U, f[X] = f[Y]
      PROVE  X = Y
  <2>1. X \cap S = Y \cap S /\ X \cap T = Y \cap T
    BY <1>5
  <2>2. QED
    BY <1>2, <2>1
<1>6. ASSUME NEW p \in (SUBSET S) \X (SUBSET T)
      PROVE  \E X \in SUBSET U : f[X] = p
  <2>1. p[1] \cup p[2] \in SUBSET U
    BY <1>2
  <2>2. (p[1] \cup p[2]) \cap S = p[1] /\ (p[1] \cup p[2]) \cap T = p[2]
    BY <1>2
  <2>3. p = <<p[1], p[2]>>
    OBVIOUS
  <2>4. QED
    BY <2>1, <2>2, <2>3
<1> HIDE DEF f
<1>7. f \in Bijection(SUBSET U, (SUBSET S) \X (SUBSET T))
  BY <1>4, <1>5, <1>6 DEF Bijection, Injection, Surjection, IsInjective
<1>8. Cardinality((SUBSET S) \X (SUBSET T)) = Cardinality(SUBSET U)
  BY <1>3, <1>7, FS_Bijection DEF ExistsBijection
<1>9. Cardinality((SUBSET S) \X (SUBSET T)) = Cardinality(SUBSET S) * Cardinality(SUBSET T)
  BY <1>3, FS_Product
<1> QED BY <1>3, <1>8, <1>9

-----------------------------------------------------------------------------
(***************************************************************************)
(* Quotients and remainders.                                               *)
(***************************************************************************)

\* Quotient and remainder.
LEMMA Division ==
  ASSUME NEW x \in Nat, NEW p \in Nat \ {0}
  PROVE  /\ x \div p \in Nat /\ x % p \in Nat /\ x % p < p
         /\ x = p * (x \div p) + (x % p)
  OBVIOUS

\* A quotient is at least i when the number is at least i times the divisor.
LEMMA DivisionBounds ==
  ASSUME NEW x, NEW p, NEW i, x \in Nat, p \in Nat, p # 0, i \in Nat
  PROVE  i <= x \div p <=> p * i <= x
<1> DEFINE q == x \div p
           r == x % p
<1>1. q \in Nat /\ r \in Nat /\ r < p /\ x = p * q + r
  BY Division
<1> HIDE DEF q, r
<1>2. p * q \in Nat /\ p * i \in Nat
  BY <1>1
<1>3. ASSUME i <= q
      PROVE  p * i <= x
  <2>1. p * i <= p * q
    BY <1>1, <1>3
  <2>2. QED
    BY <1>1, <1>2, <2>1
<1>4. ASSUME q < i
      PROVE  x < p * i
  <2>1. p * (q + 1) <= p * i
    BY <1>1, <1>4
  <2>2. p * (q + 1) = p * q + p
    BY <1>1
  <2>3. QED
    BY <1>1, <1>2, <2>1, <2>2
<1> QED BY <1>1, <1>2, <1>3, <1>4 DEF q

\* There is one quotient and one remainder.
LEMMA DivisionIsUnique ==
  ASSUME NEW x \in Nat, NEW p \in Nat \ {0}, NEW q \in Nat, NEW r \in Nat, r < p, x = p * q + r
  PROVE  x \div p = q /\ x % p = r
  OBVIOUS

\* Dividing twice divides by the product.
LEMMA DivisionTwice ==
  ASSUME NEW x, NEW p, NEW q, x \in Nat, p \in Nat, q \in Nat, p # 0, q # 0
  PROVE  (x \div p) \div q = x \div (p * q)
<1> DEFINE a == x \div p
           r == x % p
           b == a \div q
           s == a % q
<1>1. a \in Nat /\ r \in Nat /\ r < p /\ x = p * a + r
  BY Division
<1>2. b \in Nat /\ s \in Nat /\ s < q /\ a = q * b + s
  BY <1>1, Division
<1> HIDE DEF a, r, b, s
<1>3. p * q \in Nat \ {0}
  OBVIOUS
<1>4. x = (p * q) * b + (p * s + r)
  <2>1. p * a = p * (q * b) + p * s
    BY <1>2
  <2>2. p * (q * b) = (p * q) * b
    BY <1>2
  <2>3. p * s \in Nat /\ (p * q) * b \in Nat
    BY <1>2, <1>3
  <2>4. QED
    BY <1>1, <2>1, <2>2, <2>3
<1>5. p * s + r \in Nat /\ p * s + r < p * q
  <2>1. p * (s + 1) <= p * q
    BY <1>2
  <2>2. p * (s + 1) = p * s + p
    BY <1>2
  <2>3. p * s \in Nat
    BY <1>2
  <2>4. QED
    BY <1>1, <1>3, <2>1, <2>2, <2>3
<1>6. x \div (p * q) = b
  BY <1>2, <1>3, <1>4, <1>5, DivisionIsUnique
<1> QED BY <1>6 DEF a, b

\* A quotient is what is left of a further division, and its remainder.
LEMMA QuotientSplits ==
  ASSUME NEW x \in Nat, NEW p \in Nat \ {0}, NEW q \in Nat \ {0}
  PROVE  x \div p = (x \div (p * q)) * q + ((x \div p) % q)
<1> DEFINE z == x \div p
<1>1. z \in Nat
  BY Division
<1>2. z \div q = x \div (p * q)
  BY DivisionTwice
<1> HIDE DEF z
<1>3. z = q * (z \div q) + (z % q) /\ z \div q \in Nat
  BY <1>1, Division
<1>4. q * (z \div q) = (z \div q) * q
  BY <1>3
<1> QED BY <1>2, <1>3, <1>4 DEF z

\* What is added below a multiple of p does not matter to a quotient by more.
LEMMA DivisionShifts ==
  ASSUME NEW x \in Nat, NEW p \in Nat \ {0}, NEW q \in Nat \ {0}, NEW y \in Nat, y < p
  PROVE  (x * p + y) \div (p * q) = x \div q
<1>1. x * p + y \in Nat /\ x * p + y = p * x + y
  OBVIOUS
<1>2. (x * p + y) \div p = x
  BY <1>1, DivisionIsUnique
<1> QED BY <1>1, <1>2, DivisionTwice

=============================================================================
