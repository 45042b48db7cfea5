---------------------------- MODULE RecursionLemmas ----------------------------
(***************************************************************************)
(* What the proofs about chains, printed text and transcripts need of      *)
(* recursive functions on numbers, and of division: facts of no component  *)
(* in particular.                                                          *)
(***************************************************************************)
EXTENDS Naturals, WellFoundedInduction, TLAPS

-----------------------------------------------------------------------------
\* Recursive functions: those of the naturals up to n that start at a and go on by
\* a function for each step exist, and there is one of them only.

LEMMA Least ==
  ASSUME NEW S \in SUBSET Nat, S # {}
  PROVE  \E m \in S : \A k \in S : m <= k
<1> DEFINE R == OpToRel(<, Nat)
<1>1. IsWellFoundedOn(R, Nat)
  BY NatLessThanWellFounded
<1>2. PICK m \in S : \A k \in S : <<k, m>> \notin R
  <2> HIDE DEF R
  <2> QED BY WFMin, <1>1
<1>3. ASSUME NEW k \in S PROVE m <= k
  <2>1. k \in Nat /\ m \in Nat
    OBVIOUS
  <2>2. ~ (k < m)
    BY <1>2, <2>1 DEF OpToRel
  <2> QED BY <2>1, <2>2
<1> QED BY <1>3

\* A set of numbers up to n that has 0, and with each number the next, has all.
LEMMA UpToAll ==
  ASSUME NEW n \in Nat, NEW T, 0 \in T, \A k \in 1 .. n : k - 1 \in T => k \in T
  PROVE  0 .. n \subseteq T
<1> DEFINE B == (0 .. n) \ T
<1> SUFFICES ASSUME B # {} PROVE FALSE
  OBVIOUS
<1>1. PICK m \in B : \A k \in B : m <= k
  <2>1. B \in SUBSET Nat
    OBVIOUS
  <2> HIDE DEF B
  <2> QED BY <2>1, Least
<1>2. m \in 1 .. n /\ m - 1 \in 0 .. n /\ ~ (m <= m - 1)
  OBVIOUS
<1> QED BY <1>1, <1>2

Iterates(f, a, g, n) == f[0] = a /\ \A k \in 1 .. n : f[k] = g[k][f[k - 1]]

LEMMA Recursion ==
  ASSUME NEW S, NEW a \in S, NEW n \in Nat, NEW g \in [1 .. n -> [S -> S]]
  PROVE  \E f \in [0 .. n -> S] : Iterates(f, a, g, n)
<1> DEFINE Up(f, m) == Iterates(f, a, g, m)
           T == { m \in 0 .. n : \E f \in [0 .. m -> S] : Up(f, m) }
<1>1. 0 \in T
  <2> DEFINE f == [k \in 0 .. 0 |-> a]
  <2>1. f \in [0 .. 0 -> S] /\ Up(f, 0) /\ 0 \in 0 .. n
    BY DEF Iterates
  <2> HIDE DEF f, Up
  <2> QED BY <2>1
<1>2. ASSUME NEW m \in 1 .. n, m - 1 \in T
      PROVE  m \in T
  <2>1. PICK f \in [0 .. m - 1 -> S] : Up(f, m - 1)
    BY <1>2
  <2> DEFINE h == [k \in 0 .. m |-> IF k = m THEN g[m][f[m - 1]] ELSE f[k]]
  <2>2. h \in [0 .. m -> S]
    <3>1. g[m][f[m - 1]] \in S
      OBVIOUS
    <3>2. \A k \in 0 .. m : k # m => f[k] \in S
      OBVIOUS
    <3> QED BY <3>1, <3>2
  <2>3. Up(h, m)
    <3>1. h[0] = a
      BY <2>1 DEF Iterates
    <3>2. ASSUME NEW k \in 1 .. m PROVE h[k] = g[k][h[k - 1]]
      BY <2>1 DEF Iterates
    <3> QED BY <3>1, <3>2 DEF Iterates
  <2> HIDE DEF h, Up
  <2> QED BY <2>2, <2>3
<1>3. 0 .. n \subseteq T
  <2> HIDE DEF T
  <2>1. \A k \in 1 .. n : k - 1 \in T => k \in T
    BY <1>2
  <2> QED BY <1>1, <2>1, UpToAll
<1>4. n \in T
  <2> HIDE DEF T
  <2> QED BY <1>3
<1> QED BY <1>4

\* The same where what a step needs, and gives, differs from step to step.
Stepped(f, n, T, a, g) ==
  /\ f = [k \in 0 .. n |-> f[k]] /\ f[0] = a
  /\ \A k \in 1 .. n : f[k] = g[k][f[k - 1]]
  /\ \A k \in 0 .. n : f[k] \in T[k]

LEMMA Iterated ==
  ASSUME NEW n \in Nat, NEW T, NEW a \in T[0], NEW g,
         \A k \in 1 .. n : \A x \in T[k - 1] : g[k][x] \in T[k]
  PROVE  \E f : Stepped(f, n, T, a, g)
<1> DEFINE Up(f, m) == /\ f = [k \in 0 .. m |-> f[k]] /\ f[0] = a
                       /\ \A k \in 1 .. m : f[k] = g[k][f[k - 1]]
                       /\ \A k \in 0 .. m : f[k] \in T[k]
           M == { m \in 0 .. n : \E f : Up(f, m) }
<1>1. 0 \in M
  <2> DEFINE f == [k \in 0 .. 0 |-> a]
  <2>1. Up(f, 0) /\ 0 \in 0 .. n
    OBVIOUS
  <2> HIDE DEF f, Up
  <2> QED BY <2>1
<1>2. ASSUME NEW m \in 1 .. n, m - 1 \in M
      PROVE  m \in M
  <2>1. PICK f : Up(f, m - 1)
    BY <1>2
  <2> DEFINE h == [k \in 0 .. m |-> IF k = m THEN g[m][f[m - 1]] ELSE f[k]]
  <2>2. f[m - 1] \in T[m - 1]
    BY <2>1
  <2>3. g[m][f[m - 1]] \in T[m]
    BY <2>2
  <2>4. h[0] = a
    BY <2>1
  <2>4b. \A k \in 0 .. m : k # m => h[k] = f[k]
    OBVIOUS
  <2>5. ASSUME NEW k \in 1 .. m PROVE h[k] = g[k][h[k - 1]]
    <3>1. h[k - 1] = f[k - 1]
      BY <2>4b
    <3>2. CASE k = m
      BY <3>1, <3>2
    <3>3. CASE k # m
      <4>1. k \in 1 .. m - 1 /\ h[k] = f[k]
        BY <3>3, <2>4b
      <4>2. f[k] = g[k][f[k - 1]]
        BY <4>1, <2>1
      <4> HIDE DEF h
      <4> QED BY <4>1, <4>2, <3>1
    <3> HIDE DEF h
    <3> QED BY <3>2, <3>3
  <2>6. ASSUME NEW k \in 0 .. m PROVE h[k] \in T[k]
    <3>1. CASE k = m
      BY <3>1, <2>3
    <3>2. CASE k # m
      BY <3>2, <2>1, <2>4b
    <3> QED BY <3>1, <3>2
  <2>7. h = [k \in 0 .. m |-> h[k]]
    OBVIOUS
  <2>8. Up(h, m)
    <3> HIDE DEF h
    <3> QED BY <2>4, <2>5, <2>6, <2>7
  <2> HIDE DEF h, Up
  <2> QED BY <2>8
<1>3. 0 .. n \subseteq M
  <2> HIDE DEF M
  <2>1. \A k \in 1 .. n : k - 1 \in M => k \in M
    BY <1>2
  <2> QED BY <1>1, <2>1, UpToAll
<1>4. n \in M
  <2> HIDE DEF M
  <2> QED BY <1>3
<1> QED BY <1>4 DEF Stepped

UpTo(f, n) == f = [k \in 0 .. n |-> f[k]]
SameNext(f, h, n) == f[0] = h[0] /\ \A k \in 1 .. n : f[k - 1] = h[k - 1] => f[k] = h[k]

LEMMA Unique ==
  ASSUME NEW n \in Nat, NEW f, NEW h, UpTo(f, n), UpTo(h, n), SameNext(f, h, n)
  PROVE  f = h
<1> USE DEF UpTo, SameNext
<1> DEFINE T == { k \in 0 .. n : f[k] = h[k] }
<1>0. 0 \in T
  OBVIOUS
<1>1. ASSUME NEW k \in 1 .. n, k - 1 \in T
      PROVE  k \in T
  <2>1. f[k - 1] = h[k - 1] /\ k \in 0 .. n
    BY <1>1
  <2> QED BY <2>1
<1>2. 0 .. n \subseteq T
  <2> HIDE DEF T
  <2>1. \A k \in 1 .. n : k - 1 \in T => k \in T
    BY <1>1
  <2> QED BY <1>0, <2>1, UpToAll
<1>3. \A k \in 0 .. n : f[k] = h[k]
  BY <1>2
<1> QED BY <1>3

-----------------------------------------------------------------------------
\* Division with remainder, and that there is one way only.

LEMMA DivMod ==
  ASSUME NEW d \in Nat \ {0}, NEW x \in Nat
  PROVE  x \div d \in Nat /\ x % d \in 0 .. d - 1 /\ x = d * (x \div d) + (x % d)
<1> DEFINE q == x \div d
           r == x % d
<1>1. q \in Nat /\ r \in 0 .. d - 1 /\ x = d * q + r
  OBVIOUS
<1> QED BY <1>1, Zenon

LEMMA Quotient ==
  ASSUME NEW d \in Nat \ {0}, NEW q \in Nat, NEW r \in Nat, NEW p \in Nat, NEW s \in Nat,
         r <= d, s < d, d * q + r > d * p + s
  PROVE  p <= q
<1> SUFFICES ASSUME p >= q + 1 PROVE FALSE
  OBVIOUS
<1>1. PICK k \in Nat : p = q + 1 + k
  <2>1. p - (q + 1) \in Nat /\ p = q + 1 + (p - (q + 1))
    OBVIOUS
  <2> QED BY <2>1
<1>2. d * p = d * q + d + d * k /\ d * k \in Nat /\ d * q \in Nat
  BY <1>1
<1> QED BY <1>2

LEMMA DivModIs ==
  ASSUME NEW d \in Nat \ {0}, NEW q \in Nat, NEW r \in 0 .. d - 1
  PROVE  (d * q + r) \div d = q /\ (d * q + r) % d = r
<1> DEFINE x == d * q + r
           p == x \div d
           s == x % d
<1>1. x \in Nat
  OBVIOUS
<1>2. p \in Nat /\ s \in 0 .. d - 1 /\ x = d * p + s
  <2> HIDE DEF x
  <2> QED BY <1>1, DivMod
<1> HIDE DEF p, s
<1>3. d * q + r = d * p + s
  BY <1>2
<1>4. p <= q
  <2>1. d * q \in Nat /\ d * p \in Nat
    BY <1>2
  <2>2. CASE q < p
    <3>1. PICK k \in Nat : p = q + 1 + k
      <4>1. p - (q + 1) \in Nat /\ p = q + 1 + (p - (q + 1))
        BY <1>2, <2>2
      <4> QED BY <4>1
    <3>2. d * p = d * q + d + d * k /\ d * k \in Nat
      BY <3>1
    <3> QED BY <1>2, <1>3, <2>1, <3>2
  <2> QED BY <1>2, <2>2
<1>5. q <= p
  <2>1. d * q \in Nat /\ d * p \in Nat
    BY <1>2
  <2>2. CASE p < q
    <3>1. PICK k \in Nat : q = p + 1 + k
      <4>1. q - (p + 1) \in Nat /\ q = p + 1 + (q - (p + 1))
        BY <1>2, <2>2
      <4> QED BY <4>1
    <3>2. d * q = d * p + d + d * k /\ d * k \in Nat
      BY <1>2, <3>1
    <3> QED BY <1>2, <1>3, <2>1, <3>2
  <2> QED BY <1>2, <2>2
<1>6. p = q /\ s = r
  <2>1. p = q
    BY <1>2, <1>4, <1>5
  <2>2. d * q \in Nat
    OBVIOUS
  <2> QED BY <1>2, <1>3, <2>1, <2>2
<1> QED BY <1>6 DEF p, s
================================================================================
