-------------------------- MODULE InductionLemmas ---------------------------
(***************************************************************************)
(* Induction and recursion over the natural numbers in a form that speaks  *)
(* of sets and functions only.                                             *)
(***************************************************************************)
EXTENDS Integers, WellFoundedInduction, TLAPS

\* A set of natural numbers that is not empty has a least element.
LEMMA LeastNat ==
  ASSUME NEW T, T \subseteq Nat, T # {}
  PROVE  \E n \in T : \A k \in T : n <= k
<1> DEFINE R == {x \in Nat \X Nat : x[1] < x[2]}
<1>1. IsWellFoundedOn(R, Nat)
  BY NatLessThanWellFounded, Zenon DEF OpToRel
<1>2. PICK n \in T : \A k \in T : ~ (<<k, n>> \in R)
  <2> HIDE DEF R
  <2> QED
    BY <1>1, WFMin
<1>3. ASSUME NEW k \in T
      PROVE  n <= k
  <2>1. k \in Nat /\ n \in Nat /\ ~ (<<k, n>> \in R)
    BY <1>2
  <2>2. <<k, n>> \in Nat \X Nat /\ <<k, n>>[1] = k /\ <<k, n>>[2] = n
    BY <2>1
  <2>3. ~ (k < n)
    BY <2>1, <2>2, Zenon
  <2> QED
    BY <2>1, <2>3
<1> QED
  BY <1>3

\* Induction: a set of natural numbers that holds 0 and is closed under +1 is
\* all of them.
LEMMA SetInduction ==
  ASSUME NEW T, 0 \in T, \A n \in Nat : n \in T => n + 1 \in T
  PROVE  Nat \subseteq T
<1> SUFFICES ASSUME Nat \ T # {}
             PROVE  FALSE
  OBVIOUS
<1>1. PICK n \in Nat \ T : \A k \in Nat \ T : n <= k
  BY LeastNat
<1>2. n # 0 /\ n - 1 \in Nat
  BY <1>1
<1>3. n - 1 \in T
  BY <1>1, <1>2
<1>4. (n - 1) + 1 \in T
  BY <1>2, <1>3
<1> QED
  BY <1>1, <1>4

\* f starts with base and goes on with G.
IsStep(G, S) == G \in [Nat \X S -> S]

Recurses(f, S, base, G) ==
  /\ f \in [Nat -> S]
  /\ f[0] = base
  /\ \A n \in Nat : f[n + 1] = G[<<n, f[n]>>]

\* Recursion: there is such a function.
LEMMA PrimitiveRecursion ==
  ASSUME NEW S, NEW base \in S, NEW G, IsStep(G, S)
  PROVE  \E f : Recurses(f, S, base, G)
<1> G \in [Nat \X S -> S]
  BY DEF IsStep
<1> DEFINE Part(n) == {g \in [0 .. n -> S] :
                         /\ g[0] = base
                         /\ \A k \in Nat : k < n => g[k + 1] = G[<<k, g[k]>>]}
           T == {n \in Nat : Part(n) # {}}
<1>1. 0 \in T
  <2>1. [k \in 0 .. 0 |-> base] \in Part(0)
    OBVIOUS
  <2> QED
    BY <2>1
<1>2. ASSUME NEW n \in Nat, n \in T
      PROVE  n + 1 \in T
  <2>1. PICK g : g \in Part(n)
    BY <1>2
  <2> DEFINE h == [k \in 0 .. n + 1 |-> IF k = n + 1 THEN G[<<n, g[n]>>]
                                        ELSE g[k]]
  <2>2. g[n] \in S /\ G[<<n, g[n]>>] \in S
    BY <2>1
  <2>3. h \in [0 .. n + 1 -> S]
    BY <2>1, <2>2
  <2>4. h[0] = base
    BY <2>1
  <2>5. ASSUME NEW k \in Nat, k < n + 1
        PROVE  h[k + 1] = G[<<k, h[k]>>]
    <3>1. CASE k = n
      <4>1. h[k + 1] = G[<<n, g[n]>>] /\ h[k] = g[n]
        BY <3>1
      <4> QED
        BY <4>1, <3>1
    <3>2. CASE k < n
      <4>1. h[k + 1] = g[k + 1] /\ h[k] = g[k]
        BY <3>2
      <4>2. g[k + 1] = G[<<k, g[k]>>]
        BY <2>1, <3>2
      <4> QED
        BY <4>1, <4>2
    <3> QED
      BY <2>5, <3>1, <3>2
  <2>6. h \in Part(n + 1)
    <3> HIDE DEF h
    <3> QED
      BY <2>3, <2>4, <2>5
  <2> HIDE DEF h, Part
  <2> QED
    BY <2>6
<1>3. \A n \in Nat : Part(n) # {}
  <2>1. Nat \subseteq T
    <3> HIDE DEF T
    <3> QED
      BY <1>1, <1>2, SetInduction
  <2> QED
    BY <2>1
<1>4. ASSUME NEW n \in Nat, NEW m \in Nat, n <= m,
             NEW g \in Part(n), NEW h \in Part(m)
      PROVE  \A k \in 0 .. n : g[k] = h[k]
  <2> DEFINE D == {k \in Nat : k <= n => g[k] = h[k]}
  <2>1. 0 \in D
    OBVIOUS
  <2>2. ASSUME NEW k \in Nat, k \in D
        PROVE  k + 1 \in D
    <3>1. CASE k + 1 <= n
      <4>1. g[k] = h[k] /\ k < n /\ k < m
        BY <1>4, <2>2, <3>1
      <4>2. g[k + 1] = G[<<k, g[k]>>] /\ h[k + 1] = G[<<k, h[k]>>]
        BY <4>1
      <4> QED
        BY <4>1, <4>2
    <3> QED
      BY <3>1
  <2>3. Nat \subseteq D
    <3> HIDE DEF D
    <3> QED
      BY <2>1, <2>2, SetInduction
  <2> QED
    BY <2>3
<1>5. \E pick : \A n \in Nat : pick[n] \in Part(n)
  <2> DEFINE pick == [n \in Nat |-> CHOOSE g : g \in Part(n)]
  <2>1. ASSUME NEW n \in Nat
        PROVE  pick[n] \in Part(n)
    BY <1>3, Zenon
  <2> QED
    BY <2>1, Zenon
<1>6. PICK pick : \A n \in Nat : pick[n] \in Part(n)
  BY <1>5
<1> DEFINE f == [n \in Nat |-> pick[n][n]]
<1>7. f \in [Nat -> S]
  <2>1. ASSUME NEW n \in Nat
        PROVE  pick[n][n] \in S
    <3>1. pick[n] \in [0 .. n -> S]
      BY <1>6
    <3> QED
      BY <3>1
  <2> QED
    BY <2>1
<1>8. f[0] = base
  BY <1>6
<1>9. ASSUME NEW n \in Nat
      PROVE  f[n + 1] = G[<<n, f[n]>>]
  <2>1. pick[n] \in Part(n) /\ pick[n + 1] \in Part(n + 1)
    BY <1>6, n + 1 \in Nat, Zenon
  <2>2. pick[n + 1][n + 1] = G[<<n, pick[n + 1][n]>>]
    BY <2>1
  <2>3. pick[n][n] = pick[n + 1][n]
    <3> HIDE DEF Part
    <3> QED
      BY <2>1, <1>4
  <2>4. f[n] = pick[n][n] /\ f[n + 1] = pick[n + 1][n + 1]
    OBVIOUS
  <2> HIDE DEF f
  <2> QED
    BY <2>2, <2>3, <2>4
<1>10. Recurses(f, S, base, G)
  <2> HIDE DEF f
  <2> QED
    BY <1>7, <1>8, <1>9 DEF Recurses
<1> QED
  BY <1>10

=============================================================================
