------------------------- MODULE KademliaDhtProofs --------------------------
(***************************************************************************)
(* Theorems about placement, for ids of any width, any hashes that do not  *)
(* collide, any lists of peers and any number of replicas.                 *)
(***************************************************************************)
EXTENDS KademliaDht, InductionLemmas, FiniteSetTheorems, SequenceTheorems

-----------------------------------------------------------------------------
(* Distances.                                                              *)

\* Whether two ids differ at bit n.
Bit(a, b, n) == IF a[n] = b[n] THEN 0 ELSE 1

\* f[n] is the number that the first n bits of a XOR b make.
IsUpto(f, a, b) ==
  f = [n \in 0 .. Width |-> IF n = 0 THEN 0 ELSE 2 * f[n - 1] + (IF a[n] = b[n] THEN 0 ELSE 1)]

\* Distance as the function its definition chooses.
LEMMA DistanceDef ==
  ASSUME NEW a, NEW b
  PROVE  Distance(a, b) = (CHOOSE f : IsUpto(f, a, b))[Width]
  BY Zenon DEF Distance, IsUpto

\* Horner's rule: reading one bit more doubles the number and adds the bit.
Horner(f, a, b) ==
  /\ f[0] = 0
  /\ \A n \in 1 .. Width : f[n] = 2 * f[n - 1] + Bit(a, b, n)

LEMMA UptoExists ==
  ASSUME NEW a, NEW b
  PROVE  \E f : IsUpto(f, a, b)
<1> DEFINE G == [x \in Nat \X Nat |-> 2 * x[2] + Bit(a, b, x[1] + 1)]
<1>0. Width \in Nat
  BY IdAssumption
<1>1. IsStep(G, Nat)
  <2>1. \A n \in Nat : Bit(a, b, n + 1) \in {0, 1}
    BY DEF Bit
  <2> QED
    BY <2>1 DEF IsStep
<1>2. PICK g : Recurses(g, Nat, 0, G)
  <2> HIDE DEF G
  <2> QED
    BY <1>1, PrimitiveRecursion
<1>3. /\ g \in [Nat -> Nat]
      /\ g[0] = 0
      /\ \A n \in Nat : g[n + 1] = G[<<n, g[n]>>]
  BY <1>2 DEF Recurses
<1> DEFINE f == [n \in 0 .. Width |-> g[n]]
<1>4. f \in [0 .. Width -> Nat]
  BY <1>0, <1>3
<1>5. ASSUME NEW n \in 1 .. Width
      PROVE  f[n] = 2 * f[n - 1] + Bit(a, b, n)
  <2>1. n - 1 \in Nat /\ n - 1 \in 0 .. Width /\ n \in 0 .. Width /\ (n - 1) + 1 = n
    BY <1>0
  <2>2. g[n] = G[<<n - 1, g[n - 1]>>]
    BY <1>3, <2>1
  <2>3. <<n - 1, g[n - 1]>> \in Nat \X Nat
    BY <1>3, <2>1
  <2>4. G[<<n - 1, g[n - 1]>>] = 2 * g[n - 1] + Bit(a, b, n)
    BY <2>1, <2>3
  <2> QED
    BY <2>1, <2>2, <2>4
<1>6. f[0] = 0
  BY <1>0, <1>3
<1> HIDE DEF f
<1>7. IsUpto(f, a, b)
  <2>1. ASSUME NEW n \in 0 .. Width
        PROVE  f[n] = IF n = 0 THEN 0 ELSE 2 * f[n - 1] + (IF a[n] = b[n] THEN 0 ELSE 1)
    <3>1. n # 0 => n \in 1 .. Width
      BY <1>0
    <3> QED
      BY <3>1, <1>5, <1>6 DEF Bit
  <2> QED
    BY <1>4, <2>1 DEF IsUpto
<1> QED
  BY <1>7

\* The distance is the last of the numbers that Horner's rule gives.
LEMMA DistanceIs ==
  ASSUME NEW a, NEW b
  PROVE  \E f \in [0 .. Width -> Nat] : Horner(f, a, b) /\ Distance(a, b) = f[Width]
<1>0. Width \in Nat
  BY IdAssumption
<1> DEFINE f == CHOOSE g : IsUpto(g, a, b)
<1>1. IsUpto(f, a, b)
  BY UptoExists, Zenon
<1>2. Distance(a, b) = f[Width]
  BY DistanceDef
<1> HIDE DEF f
<1>3. f[0] = 0
  BY <1>0, <1>1 DEF IsUpto
<1>4. ASSUME NEW n \in 1 .. Width
      PROVE  f[n] = 2 * f[n - 1] + Bit(a, b, n)
  BY <1>0, <1>1 DEF IsUpto, Bit
<1> DEFINE T == {n \in Nat : n <= Width => f[n] \in Nat}
<1>5. 0 \in T
  BY <1>3
<1>6. ASSUME NEW n \in Nat, n \in T
      PROVE  n + 1 \in T
  <2>1. CASE n + 1 <= Width
    <3>1. n + 1 \in 1 .. Width /\ (n + 1) - 1 = n /\ f[n] \in Nat
      BY <1>0, <1>6, <2>1
    <3>2. Bit(a, b, n + 1) \in {0, 1}
      BY DEF Bit
    <3>3. f[n + 1] = 2 * f[n] + Bit(a, b, n + 1)
      BY <3>1, <1>4
    <3> QED
      BY <3>1, <3>2, <3>3
  <2> QED
    BY <2>1
<1>7. Nat \subseteq T
  <2> HIDE DEF T
  <2> QED
    BY <1>5, <1>6, SetInduction
<1>8. f \in [0 .. Width -> Nat]
  <2>1. \A n \in 0 .. Width : f[n] \in Nat
    BY <1>0, <1>7
  <2>2. f = [n \in 0 .. Width |-> f[n]]
    BY <1>1, Zenon DEF IsUpto
  <2> QED
    BY <2>1, <2>2
<1> QED
  BY <1>2, <1>3, <1>4, <1>8 DEF Horner

\* Two ids that are as far from t as each other in the first n bits, and two of
\* which the first is closer.
SameUpto(a, b, t, n) == \A j \in 1 .. n : Bit(a, t, j) = Bit(b, t, j)
CloserUpto(a, b, t, n) ==
  \E i \in 1 .. n : Bit(a, t, i) < Bit(b, t, i) /\ SameUpto(a, b, t, i - 1)

\* Comparing numbers is comparing the bits from the most significant on.
LEMMA HornerCompares ==
  ASSUME NEW a, NEW b, NEW t,
         NEW u \in [0 .. Width -> Nat], Horner(u, a, t),
         NEW v \in [0 .. Width -> Nat], Horner(v, b, t)
  PROVE  /\ u[Width] = v[Width] <=> SameUpto(a, b, t, Width)
         /\ u[Width] < v[Width] <=> CloserUpto(a, b, t, Width)
<1>0. Width \in Nat
  BY IdAssumption
<1> DEFINE Good(n) == /\ u[n] = v[n] <=> SameUpto(a, b, t, n)
                      /\ u[n] < v[n] <=> CloserUpto(a, b, t, n)
           T == {n \in Nat : n <= Width => Good(n)}
<1>1. 0 \in T
  BY DEF Horner, SameUpto, CloserUpto
<1>2. ASSUME NEW n \in Nat, n \in T, n + 1 <= Width
      PROVE  Good(n + 1)
  <2>1. n + 1 \in 1 .. Width /\ n \in 0 .. Width /\ (n + 1) - 1 = n /\ Good(n)
    BY <1>0, <1>2
  <2>2. PICK x \in Nat, y \in Nat : x = u[n] /\ y = v[n]
    BY <2>1
  <2>3. PICK c \in {0, 1}, d \in {0, 1} : c = Bit(a, t, n + 1) /\ d = Bit(b, t, n + 1)
    BY DEF Bit
  <2>4. u[n + 1] = 2 * x + c /\ v[n + 1] = 2 * y + d
    BY <2>1, <2>2, <2>3 DEF Horner
  <2>5. SameUpto(a, b, t, n + 1) <=> SameUpto(a, b, t, n) /\ c = d
    <3>1. \A j : j \in 1 .. n + 1 <=> j \in 1 .. n \/ j = n + 1
      OBVIOUS
    <3> QED
      BY <2>3, <3>1, Zenon DEF SameUpto
  <2>6. CloserUpto(a, b, t, n + 1) <=> CloserUpto(a, b, t, n) \/ (SameUpto(a, b, t, n) /\ c < d)
    <3>1. \A j : j \in 1 .. n + 1 <=> j \in 1 .. n \/ j = n + 1
      OBVIOUS
    <3> QED
      BY <2>1, <2>3, <3>1, Zenon DEF CloserUpto
  <2>7. /\ x = y <=> SameUpto(a, b, t, n)
        /\ x < y <=> CloserUpto(a, b, t, n)
    BY <2>1, <2>2
  <2>8. /\ 2 * x + c = 2 * y + d <=> x = y /\ c = d
        /\ 2 * x + c < 2 * y + d <=> x < y \/ (x = y /\ c < d)
    OBVIOUS
  <2> QED
    BY <2>4, <2>5, <2>6, <2>7, <2>8, Zenon
<1>3. Nat \subseteq T
  <2> HIDE DEF Good
  <2>1. ASSUME NEW n \in Nat, n \in T
        PROVE  n + 1 \in T
    BY <1>2, <2>1
  <2> HIDE DEF T
  <2> QED
    BY <1>1, <2>1, SetInduction
<1> QED
  BY <1>0, <1>3

\* A distance is a number; only one id is at a given distance; and closerTo, which
\* compares byte strings, orders ids by that number.
LEMMA CloserIsNearer ==
  ASSUME NEW a \in Ids, NEW b \in Ids, NEW t \in Ids
  PROVE  /\ Distance(a, t) \in Nat
         /\ Distance(a, t) = Distance(b, t) => a = b
         /\ CloserTo(a, b, t) <=> Distance(a, t) < Distance(b, t)
<1>0. Width \in Nat
  BY IdAssumption
<1>1. PICK u \in [0 .. Width -> Nat] : Horner(u, a, t) /\ Distance(a, t) = u[Width]
  BY DistanceIs
<1>2. PICK v \in [0 .. Width -> Nat] : Horner(v, b, t) /\ Distance(b, t) = v[Width]
  BY DistanceIs
<1>3. /\ u[Width] = v[Width] <=> SameUpto(a, b, t, Width)
      /\ u[Width] < v[Width] <=> CloserUpto(a, b, t, Width)
  BY <1>1, <1>2, HornerCompares
<1>4. \A j \in 1 .. Width : a[j] \in {0, 1} /\ b[j] \in {0, 1} /\ t[j] \in {0, 1}
  BY DEF Ids
<1>5. \A j \in 1 .. Width : /\ XorDistance(a, t)[j] = Bit(a, t, j)
                            /\ XorDistance(b, t)[j] = Bit(b, t, j)
  BY <1>4 DEF XorDistance, Bit
<1>6. SameUpto(a, b, t, Width) => a = b
  <2>1. SameUpto(a, b, t, Width) => \A j \in 1 .. Width : a[j] = b[j]
    BY <1>4 DEF SameUpto, Bit
  <2>2. a = [j \in 1 .. Width |-> a[j]] /\ b = [j \in 1 .. Width |-> b[j]]
    BY DEF Ids
  <2> QED
    BY <2>1, <2>2
<1>7. CloserTo(a, b, t) <=> CloserUpto(a, b, t, Width)
  <2>1. \A i \in 1 .. Width : 1 .. i - 1 \subseteq 1 .. Width
    BY <1>0
  <2> QED
    BY <1>5, <2>1, Zenon DEF CloserTo, CloserUpto, SameUpto
<1> QED
  BY <1>0, <1>1, <1>2, <1>3, <1>6, <1>7

-----------------------------------------------------------------------------
(* Sorting by distance.                                                    *)

Below(S, d, x) == {y \in S : d[y] < d[x]}

\* What is farther has more below it.
LEMMA RankFacts ==
  ASSUME NEW S, IsFiniteSet(S), NEW d \in [S -> Nat]
  PROVE  /\ \A x \in S : /\ Cardinality(Below(S, d, x)) \in Nat
                         /\ Cardinality(Below(S, d, x)) < Cardinality(S)
         /\ \A x, y \in S : d[x] < d[y] =>
              Cardinality(Below(S, d, x)) < Cardinality(Below(S, d, y))
<1>1. Cardinality(S) \in Nat
  BY FS_CardinalityType
<1>2. ASSUME NEW x \in S
      PROVE  /\ IsFiniteSet(Below(S, d, x)) /\ Cardinality(Below(S, d, x)) \in Nat
             /\ IsFiniteSet(Below(S, d, x) \cup {x})
             /\ Cardinality(Below(S, d, x) \cup {x}) = Cardinality(Below(S, d, x)) + 1
  <2>1. Below(S, d, x) \in SUBSET S /\ x \notin Below(S, d, x)
    BY DEF Below
  <2>2. IsFiniteSet(Below(S, d, x))
    BY <2>1, FS_Subset
  <2> QED
    BY <2>1, <2>2, FS_CardinalityType, FS_AddElement
<1>3. ASSUME NEW x \in S
      PROVE  Cardinality(Below(S, d, x)) < Cardinality(S)
  <2>1. Below(S, d, x) \cup {x} \in SUBSET S
    BY DEF Below
  <2>2. Cardinality(Below(S, d, x) \cup {x}) <= Cardinality(S)
    BY <2>1, FS_Subset
  <2>3. PICK k \in Nat : /\ k = Cardinality(Below(S, d, x))
                        /\ Cardinality(Below(S, d, x) \cup {x}) = k + 1
    BY <1>2, Zenon
  <2> QED
    BY <1>1, <2>2, <2>3
<1>4. ASSUME NEW x \in S, NEW y \in S, d[x] < d[y]
      PROVE  Cardinality(Below(S, d, x)) < Cardinality(Below(S, d, y))
  <2>1. Below(S, d, x) \cup {x} \in SUBSET Below(S, d, y)
    BY <1>4 DEF Below
  <2>2. Cardinality(Below(S, d, x) \cup {x}) <= Cardinality(Below(S, d, y))
    BY <1>2, <2>1, FS_Subset
  <2>3. PICK k \in Nat : /\ k = Cardinality(Below(S, d, x))
                        /\ Cardinality(Below(S, d, x) \cup {x}) = k + 1
    BY <1>2, Zenon
  <2>4. Cardinality(Below(S, d, y)) \in Nat
    BY <1>2
  <2> QED
    BY <2>2, <2>3, <2>4
<1> QED
  BY <1>2, <1>3, <1>4

\* A function of 1 .. n into itself that never repeats reaches every number.
LEMMA OntoItself ==
  ASSUME NEW n \in Nat, NEW p \in [1 .. n -> 1 .. n],
         \A i, j \in 1 .. n : p[i] = p[j] => i = j
  PROVE  \A k \in 1 .. n : \E i \in 1 .. n : p[i] = k
<1>1. IsFiniteSet(1 .. n)
  BY FS_Interval
<1>2. p \in Injection(1 .. n, 1 .. n)
  BY DEF Injection, IsInjective
<1>3. p \in Surjection(1 .. n, 1 .. n)
  BY <1>1, <1>2, FS_Injection
<1> QED
  BY <1>3 DEF Surjection

\* Numbers that are all different can be put in order.
LEMMA OrderExists ==
  ASSUME NEW n \in Nat, NEW d \in [1 .. n -> Nat],
         \A i, j \in 1 .. n : d[i] = d[j] => i = j
  PROVE  \E p \in [1 .. n -> 1 .. n] :
           \A i, j \in 1 .. n : i < j => d[p[i]] < d[p[j]]
<1> DEFINE S == 1 .. n
           rank == [i \in S |-> Cardinality(Below(S, d, i)) + 1]
<1>1. IsFiniteSet(S) /\ Cardinality(S) = n
  BY FS_Interval
<1>2. /\ \A x \in S : /\ Cardinality(Below(S, d, x)) \in Nat
                      /\ Cardinality(Below(S, d, x)) < n
      /\ \A x, y \in S : d[x] < d[y] =>
           Cardinality(Below(S, d, x)) < Cardinality(Below(S, d, y))
  BY <1>1, RankFacts, SMTT(30)
<1>3. rank \in [S -> S]
  BY <1>2
<1>4. \A x, y \in S : d[x] < d[y] => rank[x] < rank[y]
  BY <1>2
<1> HIDE DEF rank
<1>5. \A x, y \in S : rank[x] = rank[y] => x = y
  <2> SUFFICES ASSUME NEW x \in S, NEW y \in S, rank[x] = rank[y]
               PROVE  d[x] = d[y]
    OBVIOUS
  <2>1. d[x] \in Nat /\ d[y] \in Nat /\ rank[x] \in Nat
    BY <1>3
  <2> QED
    BY <1>4, <2>1
<1>6. \A k \in S : \E i \in S : rank[i] = k
  BY <1>3, <1>5, OntoItself, ZenonT(60)
<1> DEFINE p == [k \in S |-> CHOOSE i \in S : rank[i] = k]
<1>7. \A k \in S : p[k] \in S /\ rank[p[k]] = k
  BY <1>6, Zenon
<1>8. p \in [S -> S]
  BY <1>7
<1> HIDE DEF p
<1>9. ASSUME NEW i \in S, NEW j \in S, i < j
      PROVE  d[p[i]] < d[p[j]]
  <2>1. p[i] \in S /\ p[j] \in S /\ rank[p[i]] = i /\ rank[p[j]] = j
    BY <1>7
  <2>2. d[p[i]] \in Nat /\ d[p[j]] \in Nat
    BY <2>1
  <2>3. ~ (d[p[j]] < d[p[i]])
    BY <1>4, <1>9, <2>1
  <2>4. d[p[i]] # d[p[j]]
    BY <1>9, <2>1
  <2> QED
    BY <2>2, <2>3, <2>4
<1> QED
  BY <1>8, <1>9

-----------------------------------------------------------------------------
(* Routing tables.                                                         *)

\* tab is a routing table of the peers in S: each of them, the client excepted,
\* is there once, under its id.
IsTable(tab, S) ==
  /\ tab \in Seq([id : Ids, endpoint : Endpoints])
  /\ \A i \in DOMAIN tab : tab[i].id = NodeId[tab[i].endpoint]
  /\ \A i, j \in DOMAIN tab : tab[i].id = tab[j].id => i = j
  /\ {tab[i].endpoint : i \in DOMAIN tab} = Eligible(S)

\* addNode adds a peer that is new, and changes nothing otherwise.
LEMMA AddNodeKeeps ==
  ASSUME NEW S, NEW tab, IsTable(tab, S), NEW e \in Endpoints
  PROVE  IsTable(AddNode(tab, e), S \cup {e})
<1> DEFINE node == [id |-> NodeId[e], endpoint |-> e]
           same == {i \in DOMAIN tab : tab[i].id = node.id}
<1>0. /\ node \in [id : Ids, endpoint : Endpoints]
      /\ node.id = NodeId[e] /\ node.endpoint = e
  BY IdAssumption
<1>1. /\ tab \in Seq([id : Ids, endpoint : Endpoints])
      /\ Len(tab) \in Nat /\ DOMAIN tab = 1 .. Len(tab)
      /\ \A i \in DOMAIN tab : tab[i] \in [id : Ids, endpoint : Endpoints]
  <2>1. tab \in Seq([id : Ids, endpoint : Endpoints])
    BY Zenon DEF IsTable
  <2>2. Len(tab) \in Nat /\ DOMAIN tab = 1 .. Len(tab)
    BY <2>1, LenProperties, Zenon
  <2> QED
    BY <2>1, <2>2, ElementOfSeq, Zenon
<1>2. /\ \A i \in DOMAIN tab : tab[i].id = NodeId[tab[i].endpoint]
      /\ \A i, j \in DOMAIN tab : tab[i].id = tab[j].id => i = j
      /\ {tab[i].endpoint : i \in DOMAIN tab} = Eligible(S)
  BY DEF IsTable
<1>3. CASE node.id = SelfId
  <2>1. AddNode(tab, e) = tab
    BY <1>3 DEF AddNode
  <2>2. Eligible(S \cup {e}) = Eligible(S)
    BY <1>0, <1>3 DEF Eligible
  <2> QED
    BY <2>1, <2>2 DEF IsTable
<1>4. CASE node.id # SelfId /\ same # {}
  <2>1. AddNode(tab, e) = [i \in DOMAIN tab |-> IF i \in same THEN node ELSE tab[i]]
    BY <1>4 DEF AddNode
  <2>2. ASSUME NEW i \in same
        PROVE  tab[i] = node /\ tab[i].endpoint = e
    <3>1. tab[i].endpoint \in Endpoints /\ NodeId[tab[i].endpoint] = NodeId[e]
      BY <1>0, <1>1, <1>2
    <3>2. tab[i].endpoint = e
      BY <3>1, IdAssumption
    <3> QED
      BY <1>0, <1>1, <3>2
  <2>3. AddNode(tab, e) = tab
    <3>1. AddNode(tab, e) = [i \in DOMAIN tab |-> tab[i]]
      BY <2>1, <2>2, Zenon
    <3>2. tab = [i \in DOMAIN tab |-> tab[i]]
      BY <1>1
    <3> QED
      BY <3>1, <3>2
  <2>4. Eligible(S \cup {e}) = Eligible(S)
    <3>1. PICK i \in same : TRUE
      BY <1>4
    <3>2. e \in Eligible(S)
      BY <1>2, <2>2, <3>1
    <3> QED
      BY <3>2 DEF Eligible
  <2> QED
    BY <2>3, <2>4 DEF IsTable
<1>5. CASE node.id # SelfId /\ same = {}
  <2> DEFINE new == Append(tab, node)
             n   == Len(tab)
  <2>1. AddNode(tab, e) = new
    BY <1>5 DEF AddNode
  <2>2. /\ new \in Seq([id : Ids, endpoint : Endpoints])
        /\ Len(new) = n + 1 /\ DOMAIN new = 1 .. n + 1
        /\ \A i \in 1 .. n : new[i] = tab[i]
        /\ new[n + 1] = node
    BY <1>0, <1>1, AppendProperties
  <2>3. \A i : i \in 1 .. n + 1 <=> i \in 1 .. n \/ i = n + 1
    BY <1>1
  <2> HIDE DEF new, node
  <2>4. \A i \in DOMAIN new : new[i].id = NodeId[new[i].endpoint]
    BY <1>0, <1>1, <1>2, <2>2, <2>3, ZenonT(60)
  <2>5. \A i \in 1 .. n : new[i].id # node.id
    BY <1>1, <1>5, <2>2
  <2>6. \A i, j \in DOMAIN new : new[i].id = new[j].id => i = j
    <3> SUFFICES ASSUME NEW i \in 1 .. n + 1, NEW j \in 1 .. n + 1, new[i].id = new[j].id
                 PROVE  i = j
      BY <2>2, Zenon
    <3>1. CASE i \in 1 .. n /\ j \in 1 .. n
      BY <1>1, <1>2, <2>2, <3>1, Zenon
    <3>2. CASE i = n + 1 /\ j = n + 1
      BY <3>2, Zenon
    <3>3. CASE i \in 1 .. n /\ j = n + 1
      BY <2>2, <2>5, <3>3, Zenon
    <3>4. CASE i = n + 1 /\ j \in 1 .. n
      BY <2>2, <2>5, <3>4, Zenon
    <3> QED
      BY <2>3, <3>1, <3>2, <3>3, <3>4, Zenon
  <2>7. {new[i].endpoint : i \in DOMAIN new} = {tab[i].endpoint : i \in DOMAIN tab} \cup {e}
    <3>1. \A i \in 1 .. n : new[i].endpoint = tab[i].endpoint
      BY <2>2
    <3>2. new[n + 1].endpoint = e
      BY <1>0, <2>2
    <3> HIDE DEF n
    <3> QED
      BY <1>1, <2>2, <2>3, <3>1, <3>2 DEF n
  <2>8. Eligible(S \cup {e}) = Eligible(S) \cup {e}
    BY <1>0, <1>5 DEF Eligible
  <2>9. {new[i].endpoint : i \in DOMAIN new} = Eligible(S \cup {e})
    BY <1>2, <2>7, <2>8, Zenon
  <2>10. IsTable(new, S \cup {e})
    BY <2>2, <2>4, <2>6, <2>9, Zenon DEF IsTable
  <2> QED
    BY <2>1, <2>10
<1> QED
  BY <1>3, <1>4, <1>5

\* How far a peer is from a key.
Gap(e, key) == Distance(NodeId[e], KeyId[key])

\* Different peers are at different distances.
LEMMA GapFacts ==
  ASSUME NEW key \in Keys, NEW e \in Endpoints, NEW f \in Endpoints
  PROVE  /\ Gap(e, key) \in Nat
         /\ Gap(e, key) = Gap(f, key) => e = f
         /\ CloserTo(NodeId[e], NodeId[f], KeyId[key]) <=> Gap(e, key) < Gap(f, key)
<1>1. NodeId[e] \in Ids /\ NodeId[f] \in Ids /\ KeyId[key] \in Ids
  BY IdAssumption
<1>2. NodeId[e] = NodeId[f] => e = f
  BY IdAssumption
<1> QED
  BY <1>1, <1>2, CloserIsNearer DEF Gap

\* q lists the peers in P, the nearest to the key first.
IsRanking(q, n, P, key) ==
  /\ n \in Nat /\ q \in [1 .. n -> P]
  /\ \A e \in P : \E i \in 1 .. n : q[i] = e
  /\ \A i, j \in 1 .. n : i < j => Gap(q[i], key) < Gap(q[j], key)

Ranking(tab, key) == [i \in DOMAIN tab |-> Sorted(tab, KeyId[key])[i].endpoint]

\* Sorting a table gives such a list.
LEMMA SortedIsRanking ==
  ASSUME NEW S \in SUBSET Endpoints, NEW tab, IsTable(tab, S), NEW key \in Keys
  PROVE  /\ IsRanking(Ranking(tab, key), Len(tab), Eligible(S), key)
         /\ Sorted(tab, KeyId[key]) \in Seq([id : Ids, endpoint : Endpoints])
         /\ Len(Sorted(tab, KeyId[key])) = Len(tab)
<1> DEFINE n == Len(tab)
           t == KeyId[key]
           d == [i \in 1 .. n |-> Gap(tab[i].endpoint, key)]
<1>1. n \in Nat /\ DOMAIN tab = 1 .. n
  BY DEF IsTable
<1>2. \A i \in 1 .. n : /\ tab[i].endpoint \in Endpoints
                         /\ tab[i].endpoint \in Eligible(S)
                         /\ tab[i].id = NodeId[tab[i].endpoint]
  <2>1. \A i \in 1 .. n : tab[i].endpoint \in Eligible(S)
    BY <1>1 DEF IsTable
  <2>2. Eligible(S) \subseteq Endpoints
    BY DEF Eligible
  <2>3. \A i \in 1 .. n : tab[i].id = NodeId[tab[i].endpoint]
    BY <1>1, Zenon DEF IsTable
  <2> QED
    BY <2>1, <2>2, <2>3, Zenon
<1>3. \A i, j \in 1 .. n : tab[i].endpoint = tab[j].endpoint => i = j
  BY <1>1, <1>2 DEF IsTable
<1>4. d \in [1 .. n -> Nat]
  BY <1>2, GapFacts
<1>5. \A i, j \in 1 .. n : d[i] = d[j] => i = j
  BY <1>2, <1>3, GapFacts
<1>6. \A i, j \in 1 .. n : CloserTo(tab[i].id, tab[j].id, t) <=> d[i] < d[j]
  BY <1>2, GapFacts
<1> HIDE DEF d
<1>7. ASSUME NEW p
      PROVE  p \in Orders(tab, t) <=>
               /\ p \in [1 .. n -> 1 .. n]
               /\ \A i, j \in 1 .. n : i < j => p[i] # p[j] /\ ~ (d[p[j]] < d[p[i]])
  BY <1>1, <1>6 DEF Orders
<1>8. Orders(tab, t) # {}
  <2>1. PICK p \in [1 .. n -> 1 .. n] : \A i, j \in 1 .. n : i < j => d[p[i]] < d[p[j]]
    BY <1>1, <1>4, <1>5, OrderExists
  <2>2. \A i, j \in 1 .. n : i < j => p[i] # p[j] /\ ~ (d[p[j]] < d[p[i]])
    BY <1>4, <2>1
  <2> QED
    BY <1>7, <2>2
<1> DEFINE p == CHOOSE x \in Orders(tab, t) : TRUE
<1>9. /\ p \in [1 .. n -> 1 .. n]
      /\ \A i, j \in 1 .. n : i < j => p[i] # p[j] /\ ~ (d[p[j]] < d[p[i]])
  <2>1. p \in Orders(tab, t)
    BY <1>8, Zenon
  <2> HIDE DEF p
  <2> QED
    BY <1>7, <2>1
<1>10. Sorted(tab, t) = [i \in 1 .. n |-> tab[p[i]]]
  BY <1>1, Zenon DEF Sorted
<1> HIDE DEF p
<1> DEFINE q == Ranking(tab, key)
<1>11. q = [i \in 1 .. n |-> tab[p[i]].endpoint]
  BY <1>1, <1>9, <1>10 DEF Ranking
<1> HIDE DEF q, n
<1>12. \A i, j \in 1 .. n : p[i] = p[j] => i = j
  <2> SUFFICES ASSUME NEW i \in 1 .. n, NEW j \in 1 .. n, p[i] = p[j]
               PROVE  i = j
    OBVIOUS
  <2>1. ~ (i < j) /\ ~ (j < i)
    BY <1>9
  <2> QED
    BY <1>1, <2>1
<1>13. q \in [1 .. n -> Eligible(S)]
  BY <1>2, <1>9, <1>11
<1>14. ASSUME NEW e \in Eligible(S)
       PROVE  \E i \in 1 .. n : q[i] = e
  <2>1. PICK k \in 1 .. n : tab[k].endpoint = e
    BY <1>1 DEF IsTable
  <2>2. PICK i \in 1 .. n : p[i] = k
    <3>1. n \in Nat /\ p \in [1 .. n -> 1 .. n]
      BY <1>1, <1>9
    <3> QED
      BY <1>12, <3>1, OntoItself, ZenonT(60)
  <2> QED
    BY <1>11, <2>1, <2>2
<1>15. ASSUME NEW i \in 1 .. n, NEW j \in 1 .. n, i < j
       PROVE  Gap(q[i], key) < Gap(q[j], key)
  <2>1. /\ p[i] \in 1 .. n /\ p[j] \in 1 .. n
        /\ p[i] # p[j] /\ ~ (d[p[j]] < d[p[i]])
    BY <1>9, <1>15
  <2>2. d[p[i]] < d[p[j]]
    <3>1. d[p[i]] \in Nat /\ d[p[j]] \in Nat /\ d[p[i]] # d[p[j]]
      BY <1>4, <1>5, <2>1
    <3> QED
      BY <2>1, <3>1
  <2>3. d[p[i]] = Gap(q[i], key) /\ d[p[j]] = Gap(q[j], key)
    BY <1>11, <2>1 DEF d
  <2> QED
    BY <2>2, <2>3
<1>16. /\ Sorted(tab, t) \in Seq([id : Ids, endpoint : Endpoints])
       /\ Len(Sorted(tab, t)) = n
  <2>1. \A i \in 1 .. n : tab[p[i]] \in [id : Ids, endpoint : Endpoints]
    <3>1. tab \in Seq([id : Ids, endpoint : Endpoints])
      BY Zenon DEF IsTable
    <3>2. \A k \in 1 .. n : tab[k] \in [id : Ids, endpoint : Endpoints]
      BY <3>1, ElementOfSeq DEF n
    <3> QED
      BY <1>9, <3>2
  <2>2. Sorted(tab, t) \in [1 .. n -> [id : Ids, endpoint : Endpoints]]
    BY <1>10, <2>1
  <2>3. \A R : \A f \in [1 .. n -> R] : f \in Seq(R) /\ Len(f) = n
    BY <1>1
  <2> QED
    BY <2>2, <2>3, Zenon
<1> QED
  BY <1>1, <1>13, <1>14, <1>15, <1>16, Zenon DEF IsRanking, q, n

\* How many replicas store() gives of n peers when it is asked for r.
Wanted(r, n) == LET k == IF r <= 0 THEN 1 ELSE r IN IF k > n THEN n ELSE k

FirstOf(q, m) == [i \in 1 .. m |-> q[i]]

\* store() returns the first peers of the ranking.
LEMMA StoreIs ==
  ASSUME NEW S \in SUBSET Endpoints, NEW tab, IsTable(tab, S), NEW key \in Keys,
         NEW r \in Int
  PROVE  /\ Wanted(r, Len(tab)) \in 0 .. Len(tab)
         /\ Store(tab, key, r) = FirstOf(Ranking(tab, key), Wanted(r, Len(tab)))
<1> DEFINE n == Len(tab)
           m == Wanted(r, n)
           s == Sorted(tab, KeyId[key])
           k == IF r <= 0 THEN 1 ELSE r
           found == ClosestNodes(tab, KeyId[key], Capped(k, tab))
<1>1. n \in Nat /\ DOMAIN tab = 1 .. n
  BY DEF IsTable
<1>2. s \in Seq([id : Ids, endpoint : Endpoints]) /\ Len(s) = n
  BY SortedIsRanking
<1>3. m \in 0 .. n /\ Capped(k, tab) = m /\ Capped(m, tab) = m
  BY <1>1 DEF Wanted, Capped
<1>4. found = SubSeq(s, 1, m)
  BY <1>3 DEF ClosestNodes
<1>5. Ranking(tab, key) = [i \in 1 .. n |-> s[i].endpoint]
  BY <1>1 DEF Ranking
<1>6. Store(tab, key, r) = [i \in DOMAIN found |-> found[i].endpoint]
  BY Zenon DEF Store
<1> HIDE DEF s, m, found, n
<1>7. DOMAIN found = 1 .. m /\ \A i \in 1 .. m : found[i] = s[i] /\ i \in 1 .. n
  BY <1>1, <1>2, <1>3, <1>4
<1> QED
  BY <1>3, <1>5, <1>6, <1>7 DEF FirstOf, m, n

\* The peers in P that are nearer to the key than e.
Nearer(P, e, key) == {f \in P : Gap(f, key) < Gap(e, key)}

\* A peer of a ranking has as many peers nearer to the key as stand before it.
LEMMA RankingCounts ==
  ASSUME NEW P \in SUBSET Endpoints, NEW key \in Keys, NEW n, NEW q,
         IsRanking(q, n, P, key), NEW i \in 1 .. n
  PROVE  /\ IsFiniteSet(Nearer(P, q[i], key))
         /\ Cardinality(Nearer(P, q[i], key)) = i - 1
<1> DEFINE A == {f \in P : Gap(f, key) < Gap(q[i], key)}
           g == [j \in 1 .. i - 1 |-> q[j]]
<1>1. /\ n \in Nat /\ q \in [1 .. n -> P]
      /\ \A e \in P : \E j \in 1 .. n : q[j] = e
      /\ \A j, l \in 1 .. n : j < l => Gap(q[j], key) < Gap(q[l], key)
  BY Zenon DEF IsRanking
<1>2. \A j \in 1 .. n : q[j] \in P /\ Gap(q[j], key) \in Nat
  BY <1>1, GapFacts
<1>3. i \in Nat /\ i - 1 \in Nat /\ \A j : j \in 1 .. i - 1 <=> j \in 1 .. n /\ j < i
  BY <1>1
<1>4. \A j \in 1 .. n : Gap(q[j], key) < Gap(q[i], key) <=> j < i
  <2> SUFFICES ASSUME NEW j \in 1 .. n
               PROVE  Gap(q[j], key) < Gap(q[i], key) <=> j < i
    OBVIOUS
  <2>1. j < i \/ j = i \/ i < j
    BY <1>1
  <2> QED
    BY <1>1, <1>2, <2>1
<1>5. g \in [1 .. i - 1 -> A]
  BY <1>2, <1>3, <1>4
<1>6. \A j, l \in 1 .. i - 1 : g[j] = g[l] => j = l
  <2> SUFFICES ASSUME NEW j \in 1 .. i - 1, NEW l \in 1 .. i - 1, q[j] = q[l]
               PROVE  j = l
    OBVIOUS
  <2>1. j < l \/ j = l \/ l < j
    BY <1>3
  <2>2. j \in 1 .. n /\ l \in 1 .. n
    BY <1>3
  <2> QED
    BY <1>1, <1>2, <2>1, <2>2
<1>7. \A f \in A : \E j \in 1 .. i - 1 : g[j] = f
  BY <1>1, <1>3, <1>4
<1> HIDE DEF g, A
<1>8. g \in Bijection(1 .. i - 1, A)
  BY <1>5, <1>6, <1>7 DEF Bijection, Injection, IsInjective, Surjection
<1>9. ExistsBijection(1 .. i - 1, A)
  BY <1>8, Zenon DEF ExistsBijection
<1>10. IsFiniteSet(1 .. i - 1) /\ Cardinality(1 .. i - 1) = i - 1
  BY <1>3, FS_Interval
<1>11. IsFiniteSet(A) /\ Cardinality(A) = i - 1
  BY <1>9, <1>10, FS_Bijection
<1> QED
  BY <1>11 DEF A, Nearer

\* The k members of S nearest to the key are the first k of a ranking.
LEMMA NearestIs ==
  ASSUME NEW S \in SUBSET Endpoints, NEW key \in Keys, NEW n, NEW q,
         IsRanking(q, n, Eligible(S), key), NEW r \in Int
  PROVE  Nearest(S, key, r) = {q[i] : i \in {j \in 1 .. n : j <= r}}
<1>0. Eligible(S) \in SUBSET Endpoints
  BY DEF Eligible
<1>1. /\ n \in Nat /\ q \in [1 .. n -> Eligible(S)]
      /\ \A e \in Eligible(S) : \E j \in 1 .. n : q[j] = e
  BY Zenon DEF IsRanking
<1>2. \A i \in 1 .. n : Cardinality(Nearer(Eligible(S), q[i], key)) = i - 1
  BY <1>0, RankingCounts
<1>3. Nearest(S, key, r) =
        {e \in Eligible(S) : Cardinality(Nearer(Eligible(S), e, key)) < r}
  BY Zenon DEF Nearest, Nearer, Gap
<1>4. \A i \in 1 .. n : q[i] \in Nearest(S, key, r) <=> i <= r
  <2> SUFFICES ASSUME NEW i \in 1 .. n
               PROVE  q[i] \in Nearest(S, key, r) <=> i <= r
    OBVIOUS
  <2>1. q[i] \in Eligible(S)
    BY <1>1
  <2>2. q[i] \in Nearest(S, key, r) <=>
          Cardinality(Nearer(Eligible(S), q[i], key)) < r
    BY <1>3, <2>1, Zenon
  <2>3. i - 1 < r <=> i <= r
    BY <1>1
  <2> QED
    BY <1>2, <2>2, <2>3, Zenon
<1>5. Nearest(S, key, r) \subseteq Eligible(S)
  BY DEF Nearest
<1> QED
  BY <1>1, <1>4, <1>5

\* store() finds the nearest peers.
LEMMA StoreIsNearest ==
  ASSUME NEW S \in SUBSET Endpoints, NEW tab, IsTable(tab, S), NEW key \in Keys,
         NEW r \in Nat \ {0}
  PROVE  ToSet(Store(tab, key, r)) = Nearest(S, key, r)
<1> DEFINE n == Len(tab)
           q == Ranking(tab, key)
           m == Wanted(r, n)
<1>1. IsRanking(q, n, Eligible(S), key)
  BY SortedIsRanking
<1>2. Store(tab, key, r) = [i \in 1 .. m |-> q[i]] /\ m \in 0 .. n
  BY StoreIs DEF FirstOf
<1>3. Nearest(S, key, r) = {q[i] : i \in {j \in 1 .. n : j <= r}}
  BY <1>1, NearestIs
<1>4. n \in Nat
  BY <1>1 DEF IsRanking
<1>5. {j \in 1 .. n : j <= r} = 1 .. m
  BY <1>4 DEF Wanted
<1> HIDE DEF q, n, m
<1>6. ToSet(Store(tab, key, r)) = {q[i] : i \in 1 .. m}
  BY <1>2 DEF ToSet
<1> QED
  BY <1>3, <1>5, <1>6, Zenon

-----------------------------------------------------------------------------
(* The theorems.                                                           *)

\* The inductive invariant: the routing table is one of the peers read so far.
TableInv == peers \in Seq(Endpoints) /\ IsTable(nodes, ToSet(peers))

\* One more peer in the list is one more in the set.
LEMMA ToSetAppend ==
  ASSUME NEW S, NEW s \in Seq(S), NEW e \in S
  PROVE  /\ Append(s, e) \in Seq(S)
         /\ ToSet(Append(s, e)) = ToSet(s) \cup {e}
         /\ Last(Append(s, e)) = e
<1>1. /\ Append(s, e) \in Seq(S)
      /\ Len(Append(s, e)) = Len(s) + 1
      /\ \A i \in 1 .. Len(s) : Append(s, e)[i] = s[i]
      /\ Append(s, e)[Len(s) + 1] = e
  BY AppendProperties
<1>2. DOMAIN s = 1 .. Len(s) /\ DOMAIN Append(s, e) = 1 .. Len(s) + 1 /\ Len(s) \in Nat
  BY <1>1
<1>3. ToSet(Append(s, e)) = ToSet(s) \cup {e}
  <2>1. \A i : i \in 1 .. Len(s) + 1 <=> i \in 1 .. Len(s) \/ i = Len(s) + 1
    BY <1>2
  <2> QED
    BY <1>1, <1>2, <2>1 DEF ToSet
<1> QED
  BY <1>1, <1>3 DEF Last

\* Reading a peer keeps the table right.
LEMMA ReadKeeps ==
  ASSUME TableInv, NEW e \in Endpoints, ReadPeer(e)
  PROVE  /\ TableInv'
         /\ ToSet(peers') = ToSet(peers) \cup {e}
         /\ Last(peers') = e
<1>1. peers' = Append(peers, e) /\ nodes' = AddNode(nodes, e)
  BY DEF ReadPeer
<1>2. peers' \in Seq(Endpoints) /\ ToSet(peers') = ToSet(peers) \cup {e} /\ Last(peers') = e
  BY <1>1, ToSetAppend DEF TableInv
<1>3. IsTable(nodes', ToSet(peers) \cup {e})
  BY <1>1, AddNodeKeeps DEF TableInv
<1>4. TableInv'
  BY <1>2, <1>3 DEF TableInv
<1> QED
  BY <1>2, <1>4

\* Every table the constructor makes is one of the peers it has read.
THEOREM TableInvariance == Spec => []TableInv
<1>1. Init => TableInv
  <2>1. ToSet(<<>>) = {} /\ Eligible({}) = {}
    BY DEF ToSet, Eligible
  <2>2. IsTable(<<>>, {})
    BY <2>1 DEF IsTable
  <2> QED
    BY <2>1, <2>2 DEF Init, TableInv
<1>2. TableInv /\ [Next]_vars => TableInv'
  <2>1. ASSUME TableInv, Next
        PROVE  TableInv'
    BY <2>1, ReadKeeps DEF Next
  <2>2. ASSUME TableInv, UNCHANGED vars
        PROVE  TableInv'
    BY <2>2 DEF TableInv, vars
  <2> QED
    BY <2>1, <2>2
<1> QED
  BY <1>1, <1>2, PTL DEF Spec

\* The set that the list of peers makes.
LEMMA PeersAreEndpoints ==
  ASSUME TableInv
  PROVE  ToSet(peers) \in SUBSET Endpoints
BY DEF TableInv, ToSet

\* PlacementIsReference: the replicas of a key are the peers nearest to it by XOR
\* as a number; store() depends on nothing else.
THEOREM PlacementCorrect == Spec => []PlacementIsReference
<1>1. TableInv => PlacementIsReference
  <2> SUFFICES ASSUME TableInv, NEW key \in Keys, NEW r \in 1 .. MaxPeers
               PROVE  ToSet(Store(nodes, key, r)) = Nearest(ToSet(peers), key, r)
    BY Zenon DEF PlacementIsReference
  <2>1. r \in Nat \ {0}
    BY PeersAssumption
  <2>2. IsTable(nodes, ToSet(peers)) /\ ToSet(peers) \in SUBSET Endpoints
    BY PeersAreEndpoints DEF TableInv
  <2> QED
    BY <2>1, <2>2, StoreIsNearest
<1> QED
  BY <1>1, TableInvariance, PTL

\* The smaller and the larger of two numbers.
LEMMA MinMax ==
  ASSUME NEW a \in Int, NEW b \in Int
  PROVE  /\ Min({a, b}) = IF a <= b THEN a ELSE b
         /\ Max({a, b}) = IF a <= b THEN b ELSE a
<1>1. \E x \in {a, b} : \A y \in {a, b} : x <= y
  OBVIOUS
<1>2. \E x \in {a, b} : \A y \in {a, b} : x >= y
  OBVIOUS
<1> QED
  BY <1>1, <1>2 DEF Min, Max

\* ReplicasInOrder: whatever number of replicas is asked for, store() names no
\* peer twice, the nearest first, and as many as there are.
THEOREM ReplicasOrdered == Spec => []ReplicasInOrder
<1>1. TableInv => ReplicasInOrder
  <2> SUFFICES ASSUME TableInv, NEW key \in Keys, NEW r \in -1 .. MaxPeers
               PROVE  LET s == Store(nodes, key, r)
                          D(i) == Distance(NodeId[s[i]], KeyId[key])
                      IN  /\ \A i, j \in DOMAIN s : i < j => D(i) < D(j)
                          /\ Len(s) = Min({Max({r, 1}), Len(nodes)})
    BY Zenon DEF ReplicasInOrder
  <2> DEFINE s == Store(nodes, key, r)
             n == Len(nodes)
             q == Ranking(nodes, key)
             m == Wanted(r, n)
  <2>1. r \in Int
    BY PeersAssumption
  <2>2. IsTable(nodes, ToSet(peers)) /\ ToSet(peers) \in SUBSET Endpoints
    BY PeersAreEndpoints DEF TableInv
  <2>3. n \in Nat /\ \A i, j \in 1 .. n : i < j => Gap(q[i], key) < Gap(q[j], key)
    BY <2>2, SortedIsRanking, Zenon DEF IsRanking
  <2>4. m \in 0 .. n /\ s = [i \in 1 .. m |-> q[i]]
    BY <2>1, <2>2, StoreIs DEF FirstOf
  <2>5. m = Min({Max({r, 1}), n})
    <3>1. PICK k \in Int : k = Max({r, 1}) /\ k = IF r <= 0 THEN 1 ELSE r
      BY <2>1, MinMax
    <3>2. n \in Int /\ Min({k, n}) = IF k <= n THEN k ELSE n
      <4>1. n \in Int
        BY <2>3
      <4> HIDE DEF n
      <4> QED
        BY <3>1, <4>1, MinMax
    <3>3. m = IF k > n THEN n ELSE k
      BY <3>1, Zenon DEF Wanted
    <3> QED
      BY <2>3, <3>1, <3>2, <3>3
  <2> HIDE DEF s, n, q, m
  <2>6. DOMAIN s = 1 .. m /\ Len(s) = m
    BY <2>3, <2>4
  <2>7. ASSUME NEW i \in 1 .. m, NEW j \in 1 .. m, i < j
        PROVE  Distance(NodeId[s[i]], KeyId[key]) < Distance(NodeId[s[j]], KeyId[key])
    <3>1. i \in 1 .. n /\ j \in 1 .. n /\ s[i] = q[i] /\ s[j] = q[j]
      BY <2>3, <2>4
    <3> QED
      BY <2>3, <2>7, <3>1, Zenon DEF Gap
  <2> QED
    BY <2>5, <2>6, <2>7, Zenon DEF s, n
<1> QED
  BY <1>1, TableInvariance, PTL

\* A peer that joins displaces at most the last of the r nearest.
LEMMA JoinDisplacesOne ==
  ASSUME NEW S \in SUBSET Endpoints, NEW tab, IsTable(tab, S),
         NEW e \in Endpoints, NEW key \in Keys, NEW r \in Nat \ {0}
  PROVE  /\ Nearest(S \cup {e}, key, r) \ Nearest(S, key, r) \subseteq {e}
         /\ \E z : Nearest(S, key, r) \ Nearest(S \cup {e}, key, r) \subseteq {z}
<1> DEFINE P == Eligible(S)
           R == Eligible(S \cup {e})
           n == Len(tab)
           q == Ranking(tab, key)
<1>1. /\ Nearest(S, key, r) = {x \in P : Cardinality(Nearer(P, x, key)) < r}
      /\ Nearest(S \cup {e}, key, r) = {x \in R : Cardinality(Nearer(R, x, key)) < r}
  BY Zenon DEF Nearest, Nearer, Gap
<1>2. R = P \/ R = P \cup {e}
  BY DEF Eligible
<1>3. P \in SUBSET Endpoints
  BY DEF Eligible
<1>4. IsRanking(q, n, P, key)
  BY SortedIsRanking
<1> HIDE DEF P, R, n, q
<1>5. n \in Nat /\ q \in [1 .. n -> P] /\ \A x \in P : \E i \in 1 .. n : q[i] = x
  BY <1>4, Zenon DEF IsRanking
<1>6. ASSUME NEW i \in 1 .. n
      PROVE  /\ Cardinality(Nearer(P, q[i], key)) = i - 1
             /\ Cardinality(Nearer(R, q[i], key)) \in {i - 1, i}
  <2>1. IsFiniteSet(Nearer(P, q[i], key)) /\ Cardinality(Nearer(P, q[i], key)) = i - 1
    BY <1>3, <1>4, RankingCounts
  <2>2. \/ Nearer(R, q[i], key) = Nearer(P, q[i], key)
        \/ Nearer(R, q[i], key) = Nearer(P, q[i], key) \cup {e}
    BY <1>2 DEF Nearer
  <2>3. Cardinality(Nearer(P, q[i], key) \cup {e}) \in {i - 1, (i - 1) + 1}
    BY <2>1, FS_AddElement
  <2>4. (i - 1) + 1 = i
    BY <1>5
  <2> QED
    BY <2>1, <2>2, <2>3, <2>4, Zenon
<1>7. ASSUME NEW x \in P, Cardinality(Nearer(R, x, key)) < r
      PROVE  Cardinality(Nearer(P, x, key)) < r
  <2>1. PICK i \in 1 .. n : q[i] = x
    BY <1>5
  <2>2. PICK c \in {i - 1, i} : c = Cardinality(Nearer(R, x, key))
    BY <1>6, <2>1, Zenon
  <2>3. Cardinality(Nearer(P, x, key)) = i - 1
    BY <1>6, <2>1, Zenon
  <2> QED
    BY <1>5, <1>7, <2>2, <2>3
<1>8. ASSUME NEW x \in P, Cardinality(Nearer(P, x, key)) < r,
             ~ (Cardinality(Nearer(R, x, key)) < r)
      PROVE  x = q[r]
  <2>1. PICK i \in 1 .. n : q[i] = x
    BY <1>5
  <2>2. PICK c \in {i - 1, i} : c = Cardinality(Nearer(R, x, key))
    BY <1>6, <2>1, Zenon
  <2>3. Cardinality(Nearer(P, x, key)) = i - 1
    BY <1>6, <2>1, Zenon
  <2>4. i = r
    BY <1>5, <1>8, <2>2, <2>3
  <2> QED
    BY <2>1, <2>4
<1>9. P \subseteq R /\ R \subseteq P \cup {e}
  BY <1>2
<1>10. Nearest(S, key, r) \ Nearest(S \cup {e}, key, r) \subseteq {q[r]}
  BY <1>1, <1>8, <1>9
<1>11. Nearest(S \cup {e}, key, r) \ Nearest(S, key, r) \subseteq {e}
  BY <1>1, <1>7, <1>9
<1> QED
  BY <1>10, <1>11

\* JoinMovesOne: a client that learns of one more peer looks for a key on the
\* same replicas as before but for at most one, which the newcomer displaced.
THEOREM JoinIsLocal == Spec => JoinMovesOne
<1>1. ASSUME TableInv, Next
      PROVE  JoinStep
  <2>1. PICK e \in Endpoints : ReadPeer(e)
    BY <1>1 DEF Next
  <2> DEFINE S == ToSet(peers)
  <2>2. /\ S \in SUBSET Endpoints /\ IsTable(nodes, S)
        /\ S \cup {e} \in SUBSET Endpoints /\ IsTable(nodes', S \cup {e})
        /\ Last(peers') = e
    <3>1. TableInv' /\ ToSet(peers') = S \cup {e} /\ Last(peers') = e
      BY <1>1, <2>1, ReadKeeps
    <3>2. S \in SUBSET Endpoints
      BY <1>1, PeersAreEndpoints
    <3> QED
      BY <1>1, <3>1, <3>2 DEF TableInv
  <2> HIDE DEF S
  <2> SUFFICES ASSUME NEW key \in Keys, NEW r \in 1 .. MaxPeers
               PROVE  Displaced(ToSet(Store(nodes, key, r)), ToSet(Store(nodes', key, r)),
                                Last(peers'))
    BY Zenon DEF JoinStep
  <2>3. r \in Nat \ {0}
    BY PeersAssumption
  <2>4. /\ ToSet(Store(nodes, key, r)) = Nearest(S, key, r)
        /\ ToSet(Store(nodes', key, r)) = Nearest(S \cup {e}, key, r)
    BY <2>2, <2>3, StoreIsNearest
  <2>5. PICK z : Nearest(S, key, r) \ Nearest(S \cup {e}, key, r) \subseteq {z}
    BY <2>2, <2>3, JoinDisplacesOne
  <2>6. Nearest(S \cup {e}, key, r) \ Nearest(S, key, r) \subseteq {e}
    BY <2>2, <2>3, JoinDisplacesOne
  <2>7. Cardinality(Nearest(S, key, r) \ Nearest(S \cup {e}, key, r)) <= 1
    <3> DEFINE L == Nearest(S, key, r) \ Nearest(S \cup {e}, key, r)
    <3>1. L \in SUBSET {z} /\ IsFiniteSet({z}) /\ Cardinality({z}) = 1
      BY <2>5, FS_Singleton
    <3> HIDE DEF L
    <3>2. Cardinality(L) <= Cardinality({z})
      BY <3>1, FS_Subset
    <3> QED
      BY <3>1, <3>2 DEF L
  <2> QED
    BY <2>2, <2>4, <2>6, <2>7, Zenon DEF Displaced
<1>2. TableInv /\ [Next]_vars => [JoinStep]_vars
  BY <1>1
<1> QED
  BY <1>2, TableInvariance, PTL DEF Spec, JoinMovesOne

\* There is one ranking of a set of peers.
LEMMA RankingUnique ==
  ASSUME NEW P \in SUBSET Endpoints, NEW key \in Keys,
         NEW n, NEW q, IsRanking(q, n, P, key), NEW m, NEW p, IsRanking(p, m, P, key)
  PROVE  n = m /\ q = p
<1>1. n \in Nat /\ q \in [1 .. n -> P] /\ \A x \in P : \E i \in 1 .. n : q[i] = x
  BY Zenon DEF IsRanking
<1>2. m \in Nat /\ p \in [1 .. m -> P] /\ \A x \in P : \E i \in 1 .. m : p[i] = x
  BY Zenon DEF IsRanking
<1>3. \A i \in 1 .. n : Cardinality(Nearer(P, q[i], key)) = i - 1
  BY RankingCounts
<1>4. \A i \in 1 .. m : Cardinality(Nearer(P, p[i], key)) = i - 1
  BY RankingCounts
<1>5. ASSUME NEW i \in 1 .. n, NEW j \in 1 .. m, q[i] = p[j]
      PROVE  i = j
  <2>1. i - 1 = j - 1
    BY <1>3, <1>4, <1>5, Zenon
  <2> QED
    BY <1>1, <1>2, <2>1
<1>6. ASSUME NEW i \in 1 .. n
      PROVE  i \in 1 .. m /\ q[i] = p[i]
  <2>1. q[i] \in P
    BY <1>1
  <2>2. PICK j \in 1 .. m : q[i] = p[j]
    BY <1>2, <2>1
  <2> QED
    BY <1>5, <2>2
<1>7. ASSUME NEW j \in 1 .. m
      PROVE  j \in 1 .. n
  <2>1. p[j] \in P
    BY <1>2
  <2>2. PICK i \in 1 .. n : q[i] = p[j]
    BY <1>1, <2>1
  <2> QED
    BY <1>5, <2>2
<1>8. n = m
  <2>1. n # 0 => n <= m
    <3>1. n # 0 => n \in 1 .. n
      BY <1>1
    <3>2. n # 0 => n \in 1 .. m
      BY <1>6, <3>1
    <3> QED
      BY <1>2, <3>2
  <2>2. m # 0 => m <= n
    <3>1. m # 0 => m \in 1 .. m
      BY <1>2
    <3>2. m # 0 => m \in 1 .. n
      BY <1>7, <3>1
    <3> QED
      BY <1>1, <3>2
  <2> QED
    BY <1>1, <1>2, <2>1, <2>2
<1> QED
  BY <1>1, <1>2, <1>6, <1>8

\* Clients agree where a key is: whatever the order in which two of them learnt of
\* the same peers, store() and findValue() give both the same list.
THEOREM ClientsAgree ==
  ASSUME NEW S \in SUBSET Endpoints,
         NEW tab, IsTable(tab, S), NEW other, IsTable(other, S),
         NEW key \in Keys, NEW r \in Int
  PROVE  Store(tab, key, r) = FindValue(other, key, r)
<1>1. Eligible(S) \in SUBSET Endpoints
  BY DEF Eligible
<1>2. /\ IsRanking(Ranking(tab, key), Len(tab), Eligible(S), key)
      /\ IsRanking(Ranking(other, key), Len(other), Eligible(S), key)
  BY SortedIsRanking
<1>3. Len(tab) = Len(other) /\ Ranking(tab, key) = Ranking(other, key)
  BY <1>1, <1>2, RankingUnique
<1> QED
  BY <1>3, StoreIs, Zenon DEF FindValue

\* What the client of DssClient relies on: asked for all peers, store() names each
\* of them once, and asked for fewer it names the first of these.
THEOREM PlacementIsPermutation ==
  ASSUME NEW S \in SUBSET Endpoints, NEW tab, IsTable(tab, S), NEW key \in Keys
  PROVE  LET near == Store(tab, key, Len(tab)) IN
         /\ near \in Seq(Eligible(S)) /\ Len(near) = Len(tab)
         /\ ToSet(near) = Eligible(S)
         /\ \A i, j \in DOMAIN near : near[i] = near[j] => i = j
         /\ \A r \in 1 .. Len(tab) : Store(tab, key, r) = SubSeq(near, 1, r)
<1> DEFINE n == Len(tab)
           q == Ranking(tab, key)
           near == Store(tab, key, n)
<1>1. IsRanking(q, n, Eligible(S), key)
  BY SortedIsRanking
<1>2. /\ n \in Nat /\ q \in [1 .. n -> Eligible(S)]
      /\ \A x \in Eligible(S) : \E i \in 1 .. n : q[i] = x
      /\ \A i, j \in 1 .. n : i < j => Gap(q[i], key) < Gap(q[j], key)
  BY <1>1, Zenon DEF IsRanking
<1>3. near = q
  <2>1. n \in Int /\ near = FirstOf(q, Wanted(n, n))
    <3>1. n \in Int
      BY <1>2
    <3> QED
      BY <3>1, StoreIs
  <2>2. Wanted(n, n) = n
    BY <1>2 DEF Wanted
  <2> QED
    BY <1>2, <2>1, <2>2 DEF FirstOf
<1>4. ASSUME NEW r \in 1 .. n
      PROVE  Store(tab, key, r) = [i \in 1 .. r |-> q[i]]
  <2>1. r \in Int /\ Wanted(r, n) = r
    BY <1>2 DEF Wanted
  <2>2. Store(tab, key, r) = FirstOf(q, Wanted(r, n))
    BY <2>1, StoreIs
  <2> QED
    BY <2>1, <2>2, Zenon DEF FirstOf
<1>5. ASSUME NEW i \in 1 .. n, NEW j \in 1 .. n, q[i] = q[j]
      PROVE  i = j
  <2>1. Gap(q[i], key) \in Nat /\ Gap(q[j], key) \in Nat
    BY <1>2, GapFacts DEF Eligible
  <2>2. i < j \/ i = j \/ j < i
    BY <1>2
  <2> QED
    BY <1>2, <1>5, <2>1, <2>2
<1> HIDE DEF q, n, near
<1>6. q \in Seq(Eligible(S)) /\ Len(q) = n /\ DOMAIN q = 1 .. n
  BY <1>2
<1>7. ToSet(q) = Eligible(S)
  BY <1>2, <1>6 DEF ToSet
<1>8. \A r \in 1 .. n : SubSeq(q, 1, r) = [i \in 1 .. r |-> q[i]]
  BY <1>2, <1>6
<1> QED
  BY <1>3, <1>4, <1>5, <1>6, <1>7, <1>8, Zenon DEF near, n

=============================================================================
