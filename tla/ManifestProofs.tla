--------------------------- MODULE ManifestProofs ---------------------------
(***************************************************************************)
(* Theorems about Manifest, for every length of a file, every chunk size,  *)
(* every file name and every base of numerals.                             *)
(***************************************************************************)
EXTENDS Manifest, InductionLemmas, SequenceTheorems

-----------------------------------------------------------------------------
(* The concatenation of a sequence of sequences.                           *)

\* f[k] adds the k-th member of s.
Joins(f, s, k) == f[k] = f[k - 1] \o s[k]

\* f[k] is the concatenation of the first k members of s.
Partials(f, s) == f[0] = <<>> /\ \A k \in 1 .. Len(s) : Joins(f, s, k)

\* The function in the definition of FlattenSeq.
IsFlatten(f, s) ==
  f = [k \in 1 .. Len(s) |-> IF k = 1 THEN s[k] ELSE f[k - 1] \o s[k]]

\* FlattenSeq as the function its definition chooses.
LEMMA FlattenDef ==
  ASSUME NEW s, Len(s) # 0
  PROVE  FlattenSeq(s) = (CHOOSE f : IsFlatten(f, s))[Len(s)]
  BY Zenon DEF FlattenSeq, IsFlatten

\* Nothing from nothing.
LEMMA FlattenEmpty == FlattenSeq(<<>>) = <<>>
  BY DEF FlattenSeq

\* The partial concatenations of a sequence of sequences.
LEMMA PartialsExist ==
  ASSUME NEW S, NEW s \in Seq(Seq(S))
  PROVE  \E f \in [Nat -> Seq(S)] : Partials(f, s)
<1> DEFINE T == Seq(S)
           G == [p \in Nat \X T |-> IF p[1] + 1 \in 1 .. Len(s) THEN p[2] \o s[p[1] + 1]
                                    ELSE p[2]]
<1>0. s \in Seq(T) /\ Len(s) \in Nat /\ (\A k \in 1 .. Len(s) : s[k] \in T)
  BY LenProperties, ElementOfSeq
<1>1. \A a, b \in T : a \o b \in T
  OBVIOUS
<1>2. <<>> \in T
  OBVIOUS
<1> HIDE DEF T
<1>3. IsStep(G, T)
  BY <1>0, <1>1 DEF IsStep
<1>4. PICK f : Recurses(f, T, <<>>, G)
  <2> HIDE DEF G
  <2> QED
    BY <1>2, <1>3, PrimitiveRecursion
<1>5. f \in [Nat -> T] /\ f[0] = <<>> /\ \A n \in Nat : f[n + 1] = G[<<n, f[n]>>]
  BY <1>4 DEF Recurses
<1>6. ASSUME NEW m \in 1 .. Len(s)
      PROVE  Joins(f, s, m)
  <2>0. PICK k \in Nat : k = m - 1
    BY <1>0
  <2>1. k + 1 = m /\ f[k] \in T
    BY <1>0, <1>5, <2>0
  <2>2. <<k, f[k]>> \in Nat \X T /\ <<k, f[k]>>[1] = k /\ <<k, f[k]>>[2] = f[k]
    BY <2>1
  <2>3. G[<<k, f[k]>>] = f[k] \o s[m]
    BY <2>1, <2>2
  <2>4. f[m] = f[k] \o s[m]
    BY <1>5, <2>1, <2>3
  <2> QED
    BY <2>0, <2>4 DEF Joins
<1>7. Partials(f, s)
  BY <1>5, <1>6 DEF Partials
<1> QED
  BY <1>5, <1>7 DEF T

\* FlattenSeq is the last of them.
LEMMA FlattenIs ==
  ASSUME NEW S, NEW s \in Seq(Seq(S)), NEW f \in [Nat -> Seq(S)], Partials(f, s)
  PROVE  FlattenSeq(s) = f[Len(s)]
<1>0. Len(s) \in Nat /\ (\A k \in 1 .. Len(s) : s[k] \in Seq(S))
  BY LenProperties, ElementOfSeq
<1>1. CASE Len(s) = 0
  <2>1. s = <<>>
    BY <1>1, EmptySeq
  <2> QED
    BY <1>1, <2>1, FlattenEmpty DEF Partials
<1>2. CASE Len(s) # 0
  <2> DEFINE n == Len(s)
             g == [k \in 1 .. n |-> f[k]]
  <2>a. \A k \in 1 .. n : Joins(f, s, k)
    BY DEF Partials
  <2>b. f[1] = s[1]
    <3>0. \A a \in Seq(S) : <<>> \o a = a
      BY ConcatEmptySeq
    <3>1. 1 \in 1 .. n /\ 1 - 1 = 0
      BY <1>0, <1>2
    <3>2. Joins(f, s, 1)
      BY <2>a, <3>1
    <3>3. f[1] = f[0] \o s[1]
      BY <3>1, <3>2 DEF Joins
    <3>4. f[0] = <<>> /\ s[1] \in Seq(S)
      BY <1>0, <3>1 DEF Partials
    <3> QED
      BY <3>0, <3>3, <3>4
  <2>1. IsFlatten(g, s)
    <3>1. ASSUME NEW k \in 1 .. n
          PROVE  g[k] = IF k = 1 THEN s[k] ELSE g[k - 1] \o s[k]
      <4>1. CASE k = 1
        BY <2>b, <4>1
      <4>2. CASE k # 1
        <5>1. k - 1 \in 1 .. n
          BY <1>0, <4>2
        <5>2. g[k] = f[k] /\ g[k - 1] = f[k - 1]
          BY <5>1
        <5>3. Joins(f, s, k)
          BY <2>a
        <5> HIDE DEF g
        <5> QED
          BY <4>2, <5>2, <5>3 DEF Joins
      <4> QED
        BY <4>1, <4>2
    <3>2. g = [k \in 1 .. n |-> g[k]]
      OBVIOUS
    <3> HIDE DEF g
    <3> QED
      BY <3>1, <3>2, Zenon DEF IsFlatten
  <2>2. PICK h : h = CHOOSE e : IsFlatten(e, s)
    OBVIOUS
  <2>3. IsFlatten(h, s)
    <3> HIDE DEF g
    <3> QED
      BY <2>1, <2>2
  <2>4. FlattenSeq(s) = h[n]
    BY <1>2, <2>2, FlattenDef
  <2>c. \A k \in 1 .. n : h[k] = IF k = 1 THEN s[k] ELSE h[k - 1] \o s[k]
    BY <2>3, Zenon DEF IsFlatten
  <2> DEFINE T == {k \in Nat : k + 1 \in 1 .. n => h[k + 1] = f[k + 1]}
  <2>5. 0 \in T
    <3>1. 1 \in 1 .. n /\ 0 + 1 = 1
      BY <1>0, <1>2
    <3>2. h[1] = s[1]
      BY <2>c, <3>1
    <3> QED
      BY <2>b, <3>1, <3>2
  <2>6. ASSUME NEW k \in Nat, k \in T
        PROVE  k + 1 \in T
    <3>0. PICK m \in Nat : m = k + 1
      OBVIOUS
    <3>1. ASSUME m + 1 \in 1 .. n
          PROVE  h[m + 1] = f[m + 1]
      <4>0. PICK j \in Nat : j = m + 1
        OBVIOUS
      <4>1. j \in 1 .. n /\ j # 1 /\ j - 1 = m /\ m \in 1 .. n
        <5>1. n \in Nat
          BY <1>0
        <5> HIDE DEF n
        <5> QED
          BY <3>0, <3>1, <4>0, <5>1
      <4>2. h[m] = f[m]
        BY <2>6, <3>0, <4>1
      <4>3. h[j] = h[m] \o s[j]
        BY <2>c, <4>1
      <4>4. Joins(f, s, j)
        BY <2>a, <4>1
      <4>5. f[j] = f[m] \o s[j]
        BY <4>1, <4>4 DEF Joins
      <4> QED
        BY <4>0, <4>2, <4>3, <4>5
    <3> QED
      BY <3>0, <3>1
  <2>7. Nat \subseteq T
    <3> HIDE DEF T
    <3> QED
      BY <2>5, <2>6, SetInduction
  <2>8. n - 1 \in Nat /\ (n - 1) + 1 = n /\ n \in 1 .. n
    BY <1>0, <1>2
  <2>9. h[n] = f[n]
    BY <2>7, <2>8
  <2> QED
    BY <2>4, <2>9
<1> QED
  BY <1>1, <1>2

\* What a longer sequence adds.
LEMMA FlattenAppend ==
  ASSUME NEW S, NEW s \in Seq(Seq(S)), NEW b \in Seq(S)
  PROVE  /\ FlattenSeq(s) \in Seq(S)
         /\ FlattenSeq(Append(s, b)) = FlattenSeq(s) \o b
<1>0. Len(s) \in Nat
  BY LenProperties
<1> DEFINE n == Len(s)
           t == Append(s, b)
<1>1. t \in Seq(Seq(S)) /\ Len(t) = n + 1 /\ t[n + 1] = b
      /\ (\A k \in 1 .. n : t[k] = s[k])
  OBVIOUS
<1> HIDE DEF t
<1>2. PICK f \in [Nat -> Seq(S)] : Partials(f, t)
  BY <1>1, PartialsExist
<1>3. Partials(f, s)
  <2>1. ASSUME NEW k \in 1 .. n
        PROVE  Joins(f, s, k)
    <3>1. k \in 1 .. Len(t) /\ t[k] = s[k]
      BY <1>0, <1>1
    <3>2. Joins(f, t, k)
      BY <1>2, <3>1 DEF Partials
    <3> QED
      BY <3>1, <3>2 DEF Joins
  <2> QED
    BY <1>2, <2>1 DEF Partials
<1>4. FlattenSeq(s) = f[n]
  BY <1>3, FlattenIs
<1>5. FlattenSeq(t) = f[n + 1]
  BY <1>1, <1>2, FlattenIs
<1>6. f[n + 1] = f[n] \o t[n + 1]
  <2>1. PICK m \in Nat : m = n + 1
    BY <1>0
  <2>2. m \in 1 .. Len(t) /\ m - 1 = n
    BY <1>0, <1>1, <2>1
  <2>3. Joins(f, t, m)
    BY <1>2, <2>2 DEF Partials
  <2>4. f[m] = f[n] \o t[m]
    BY <2>2, <2>3 DEF Joins
  <2> QED
    BY <2>1, <2>4
<1>7. f[n] \in Seq(S)
  BY <1>0
<1> QED
  BY <1>1, <1>4, <1>5, <1>6, <1>7 DEF t

-----------------------------------------------------------------------------
(* Texts.                                                                  *)

\* The tokens, with the texts of the format named: the provers do not know that a
\* string literal is in STRING.
Tokens ==
  [kind : {"word", "num", "id", "key"},
   text : STRING \cup {"digits", "hash", "blob", "none", "part", "filename", "size",
                       "chunk_size", "chunks", "encrypted", "enc_algo", "AES",
                       "key_enc_algo", "RSA", "enc_key"},
   val : Nat]

Ids(n) == [j \in 1 .. n |-> Id(j)]

\* A manifest of a file of that name, with n chunks.
ManifestOf(m, name, n) ==
  /\ m = [name |-> name, size |-> m.size, chunkSize |-> m.chunkSize,
          ids |-> Ids(n), key |-> m.key]
  /\ m.size \in Nat /\ m.chunkSize \in Nat /\ m.key \in {Key, NoKey}
  /\ name \in Seq(Tokens) /\ name # <<>>
  /\ n \in Nat

\* The tokens of the format are tokens.
LEMMA TokenFacts ==
  /\ Token \subseteq Tokens
  /\ Word("filename") \in Tokens /\ Word("size") \in Tokens
  /\ Word("chunk_size") \in Tokens /\ Word("chunks") \in Tokens
  /\ Word("encrypted") \in Tokens /\ Word("enc_algo") \in Tokens
  /\ Word("AES") \in Tokens /\ Word("RSA") \in Tokens
  /\ Word("key_enc_algo") \in Tokens /\ Word("enc_key") \in Tokens
  /\ \A n \in Nat : Num(n) \in Tokens /\ Id(n) \in Tokens
  /\ Key \in Tokens /\ NoKey \in Tokens
<1>1. Token \subseteq Tokens
  BY DEF Token, Tokens
<1>2. /\ Word("filename") \in Tokens /\ Word("size") \in Tokens
      /\ Word("chunk_size") \in Tokens /\ Word("chunks") \in Tokens
      /\ Word("encrypted") \in Tokens /\ Word("enc_algo") \in Tokens
      /\ Word("AES") \in Tokens /\ Word("RSA") \in Tokens
      /\ Word("key_enc_algo") \in Tokens /\ Word("enc_key") \in Tokens
  BY DEF Word, Tokens
<1>3. \A n \in Nat : Num(n) \in Tokens /\ Id(n) \in Tokens
  BY DEF Num, Id, Tokens
<1>4. Key \in Tokens /\ NoKey \in Tokens
  BY DEF Key, NoKey, Tokens
<1> QED
  BY <1>1, <1>2, <1>3, <1>4

\* Tuples of members of S are sequences of them.
LEMMA TupleFacts ==
  ASSUME NEW S, NEW a \in S, NEW b \in S, NEW c \in S, NEW d \in S, NEW e \in S,
         NEW f \in S, NEW g \in S, NEW h \in S
  PROVE  /\ <<a>> \in Seq(S) /\ <<a, b>> \in Seq(S)
         /\ <<a, b, c, d, e, f>> \in Seq(S) /\ <<a, b, c, d, e, f, g, h>> \in Seq(S)
  OBVIOUS

\* c is a followed by b, of p and q members.
Parts(c, a, p, b, q) ==
  /\ Len(c) = p + q
  /\ \A j \in 1 .. p : c[j] = a[j]
  /\ \A j \in 1 .. q : c[p + j] = b[j]

\* A concatenation has its parts where they should be.
LEMMA ConcatAt ==
  ASSUME NEW S, NEW a \in Seq(S), NEW b \in Seq(S),
         NEW p, Len(a) = p, NEW q, Len(b) = q
  PROVE  a \o b \in Seq(S) /\ Parts(a \o b, a, p, b, q)
<1>0. PICK c : c = a \o b
  OBVIOUS
<1>1. p \in Nat /\ q \in Nat
  BY LenProperties
<1>2. c \in Seq(S) /\ Len(c) = p + q
  BY <1>0, ConcatProperties
<1>3. \A j \in 1 .. p : c[j] = a[j]
  BY <1>0
<1>4. ASSUME NEW j \in 1 .. q
      PROVE  c[p + j] = b[j]
  <2>1. PICK k \in Nat : k = p + j
    BY <1>1
  <2>2. k \in 1 .. Len(a) + Len(b) /\ k > Len(a) /\ k - Len(a) = j
    BY <1>1, <2>1
  <2>3. (a \o b)[k] = b[j]
    BY <2>2, ConcatProperties
  <2> QED
    BY <1>0, <2>1, <2>3
<1>5. Parts(c, a, p, b, q)
  BY <1>2, <1>3, <1>4 DEF Parts
<1> QED
  BY <1>0, <1>2, <1>5

\* The text of the manifest of a file: what stands where.
Written(s, m, name, n) ==
  LET d == Len(name) IN
  /\ s \in Seq(Tokens)
  /\ Len(s) = IF m.key = NoKey THEN d + n + 9 ELSE d + n + 15
  /\ s[1] = Word("filename")
  /\ \A j \in 1 .. d : s[1 + j] = name[j]
  /\ s[d + 2] = Word("size") /\ s[d + 3] = Num(m.size)
  /\ s[d + 4] = Word("chunk_size") /\ s[d + 5] = Num(m.chunkSize)
  /\ s[d + 6] = Word("chunks") /\ s[d + 7] = Num(n)
  /\ \A j \in 1 .. n : s[d + 7 + j] = Id(j)
  /\ s[d + n + 8] = Word("encrypted")
  /\ s[d + n + 9] = Num(IF m.key = NoKey THEN 0 ELSE 1)
  /\ m.key # NoKey =>
       /\ s[d + n + 10] = Word("enc_algo")
       /\ s[d + n + 12] = Word("key_enc_algo")
       /\ s[d + n + 14] = Word("enc_key")
       /\ s[d + n + 15] = m.key

\* serializeManifest writes the fields in that order.
LEMMA SerializeWrites ==
  ASSUME NEW m, NEW name, NEW n, ManifestOf(m, name, n)
  PROVE  Written(SerializeManifest(m), m, name, n)
<1> DEFINE A == <<Word("filename")>>
           B == <<Word("size"), Num(m.size), Word("chunk_size"), Num(m.chunkSize),
                  Word("chunks"), Num(n)>>
           I == Ids(n)
           E == EncryptionFields(m)
           d == Len(name)
<1>0. n \in Nat /\ name \in Seq(Tokens) /\ d \in Nat /\ m.name = name /\ m.ids = I
      /\ m.size \in Nat /\ m.chunkSize \in Nat
  BY LenProperties DEF ManifestOf
<1>1. A \in Seq(Tokens) /\ Len(A) = 1 /\ A[1] = Word("filename")
  <2>1. Word("filename") \in Tokens
    BY TokenFacts
  <2> QED
    BY <2>1, TupleFacts
<1>2. B \in Seq(Tokens) /\ Len(B) = 6
  <2>1. /\ Word("size") \in Tokens /\ Num(m.size) \in Tokens /\ Word("chunk_size") \in Tokens
        /\ Num(m.chunkSize) \in Tokens /\ Word("chunks") \in Tokens /\ Num(n) \in Tokens
    BY <1>0, TokenFacts
  <2> QED
    BY <2>1, TupleFacts
<1>3. I \in Seq(Tokens) /\ Len(I) = n /\ \A j \in 1 .. n : I[j] = Id(j)
  <2>1. I \in [1 .. n -> Tokens]
    BY <1>0, TokenFacts DEF Ids
  <2>2. \A j \in 1 .. n : I[j] = Id(j)
    BY DEF Ids
  <2> HIDE DEF I
  <2> QED
    BY <1>0, <2>1, <2>2
<1>4. m.key = NoKey \/ (m.key = Key /\ m.key # NoKey)
  BY DEF ManifestOf, Key, NoKey
<1>5. E \in Seq(Tokens) /\ Len(E) = IF m.key = NoKey THEN 2 ELSE 8
  <2>1. /\ Word("encrypted") \in Tokens /\ Num(0) \in Tokens /\ Num(1) \in Tokens
        /\ Word("enc_algo") \in Tokens /\ Word("AES") \in Tokens /\ Word("RSA") \in Tokens
        /\ Word("key_enc_algo") \in Tokens /\ Word("enc_key") \in Tokens
    BY TokenFacts
  <2>2. m.key \in Tokens
    BY <1>4, TokenFacts
  <2>3. CASE m.key = NoKey
    BY <2>1, <2>3, TupleFacts DEF EncryptionFields
  <2>4. CASE m.key # NoKey
    BY <2>1, <2>2, <2>4, TupleFacts DEF EncryptionFields
  <2> QED
    BY <2>3, <2>4
<1>6. /\ E[1] = Word("encrypted")
      /\ E[2] = Num(IF m.key = NoKey THEN 0 ELSE 1)
      /\ m.key # NoKey => /\ E[3] = Word("enc_algo") /\ E[5] = Word("key_enc_algo")
                          /\ E[7] = Word("enc_key") /\ E[8] = m.key
  BY <1>4 DEF EncryptionFields
<1>b. /\ B[1] = Word("size") /\ B[2] = Num(m.size)
      /\ B[3] = Word("chunk_size") /\ B[4] = Num(m.chunkSize)
      /\ B[5] = Word("chunks") /\ B[6] = Num(n)
  OBVIOUS
<1>7. SerializeManifest(m) = (((A \o name) \o B) \o I) \o E
  <2>1. Len(m.ids) = n
    BY <1>0, <1>3
  <2> QED
    BY <1>0, <2>1 DEF SerializeManifest
<1> HIDE DEF A, B, I, E, d
<1>8. PICK P \in Seq(Tokens) : P = A \o name
  BY <1>0, <1>1, ConcatAt
<1>9. Len(P) = d + 1 /\ P[1] = Word("filename") /\ \A j \in 1 .. d : P[1 + j] = name[j]
  <2>1. Len(name) = d
    BY DEF d
  <2>2. Len(P) = 1 + d /\ (\A j \in 1 .. 1 : P[j] = A[j]) /\ \A j \in 1 .. d : P[1 + j] = name[j]
    <3>1. Parts(A \o name, A, 1, name, d)
      BY <1>0, <1>1, <2>1, ConcatAt
    <3>2. Parts(P, A, 1, name, d)
      BY <1>8, <3>1
    <3> QED
      BY <3>2 DEF Parts
  <2> QED
    BY <1>0, <1>1, <2>2
<1>10. PICK Q \in Seq(Tokens) : Q = P \o B
  BY <1>2, ConcatAt
<1>11. /\ Len(Q) = d + 7
       /\ \A j \in 1 .. d + 1 : Q[j] = P[j]
       /\ \A j \in 1 .. 6 : Q[d + 1 + j] = B[j]
  <2>1. /\ Len(Q) = d + 1 + 6
        /\ \A j \in 1 .. d + 1 : Q[j] = P[j]
        /\ \A j \in 1 .. 6 : Q[d + 1 + j] = B[j]
    <3>1. PICK p : p = d + 1
      OBVIOUS
    <3>2. Len(P) = p
      BY <1>9, <3>1
    <3> QED
      <4>1. Parts(P \o B, P, p, B, 6)
        BY <1>2, <3>2, ConcatAt
      <4>2. Parts(Q, P, p, B, 6)
        BY <1>10, <4>1
      <4> QED
        BY <3>1, <4>2 DEF Parts
  <2> QED
    BY <1>0, <2>1
<1>12. PICK R \in Seq(Tokens) : R = Q \o I
  BY <1>3, ConcatAt
<1>13. /\ Len(R) = d + 7 + n
       /\ \A j \in 1 .. d + 7 : R[j] = Q[j]
       /\ \A j \in 1 .. n : R[d + 7 + j] = Id(j)
  <2>1. PICK p : p = d + 7
    OBVIOUS
  <2>2. Len(Q) = p
    BY <1>11, <2>1
  <2>3. /\ Len(R) = p + n
        /\ \A j \in 1 .. p : R[j] = Q[j]
        /\ \A j \in 1 .. n : R[p + j] = I[j]
    <3>1. Parts(Q \o I, Q, p, I, n)
      BY <1>3, <2>2, ConcatAt
    <3>2. Parts(R, Q, p, I, n)
      BY <1>12, <3>1
    <3> QED
      BY <3>2 DEF Parts
  <2> QED
    BY <1>3, <2>1, <2>3
<1>14. PICK s \in Seq(Tokens) : s = R \o E
  BY <1>5, ConcatAt
<1>15. /\ Len(s) = d + 7 + n + Len(E)
       /\ \A j \in 1 .. d + 7 + n : s[j] = R[j]
       /\ \A j \in 1 .. Len(E) : s[d + 7 + n + j] = E[j]
  <2>1. PICK p : p = d + 7 + n
    OBVIOUS
  <2>2. Len(R) = p
    BY <1>13, <2>1
  <2>3. PICK q : q = Len(E)
    OBVIOUS
  <2>4. /\ Len(s) = p + q
        /\ \A j \in 1 .. p : s[j] = R[j]
        /\ \A j \in 1 .. q : s[p + j] = E[j]
    <3>1. Parts(R \o E, R, p, E, q)
      BY <1>5, <2>2, <2>3, ConcatAt
    <3>2. Parts(s, R, p, E, q)
      BY <1>14, <3>1
    <3> QED
      BY <3>2 DEF Parts
  <2> QED
    BY <2>1, <2>3, <2>4
<1>16. SerializeManifest(m) = s
  BY <1>7, <1>8, <1>10, <1>12, <1>14
<1>17. \A j \in 1 .. d + 7 : s[j] = Q[j]
  <2>1. ASSUME NEW j \in 1 .. d + 7
        PROVE  s[j] = Q[j]
    <3>1. j \in 1 .. d + 7 + n
      BY <1>0
    <3> QED
      BY <1>13, <1>15, <3>1
  <2> QED
    BY <2>1
<1>18. \A j \in 1 .. d + 1 : s[j] = P[j]
  <2>1. ASSUME NEW j \in 1 .. d + 1
        PROVE  s[j] = P[j]
    <3>1. j \in 1 .. d + 7
      BY <1>0
    <3> QED
      BY <1>11, <1>17, <3>1
  <2> QED
    BY <2>1
<1>19. s[1] = Word("filename") /\ \A j \in 1 .. d : s[1 + j] = name[j]
  <2>1. 1 \in 1 .. d + 1
    BY <1>0
  <2>2. ASSUME NEW j \in 1 .. d
        PROVE  s[1 + j] = name[j]
    <3>1. 1 + j \in 1 .. d + 1
      BY <1>0
    <3> QED
      BY <1>9, <1>18, <3>1
  <2> QED
    BY <1>9, <1>18, <2>1, <2>2
<1>20. \A j \in 1 .. 6 : s[d + 1 + j] = B[j]
  <2>1. ASSUME NEW j \in 1 .. 6
        PROVE  s[d + 1 + j] = B[j]
    <3>1. d + 1 + j \in 1 .. d + 7
      BY <1>0
    <3> QED
      BY <1>11, <1>17, <3>1
  <2> QED
    BY <2>1
<1>21. \A j \in 1 .. n : s[d + 7 + j] = Id(j)
  <2>1. ASSUME NEW j \in 1 .. n
        PROVE  s[d + 7 + j] = Id(j)
    <3>1. d + 7 + j \in 1 .. d + 7 + n
      BY <1>0
    <3> QED
      BY <1>13, <1>15, <3>1
  <2> QED
    BY <2>1
<1>22. /\ s[d + 2] = Word("size") /\ s[d + 3] = Num(m.size)
       /\ s[d + 4] = Word("chunk_size") /\ s[d + 5] = Num(m.chunkSize)
       /\ s[d + 6] = Word("chunks") /\ s[d + 7] = Num(n)
  <2>1. /\ d + 1 + 1 = d + 2 /\ d + 1 + 2 = d + 3 /\ d + 1 + 3 = d + 4
        /\ d + 1 + 4 = d + 5 /\ d + 1 + 5 = d + 6 /\ d + 1 + 6 = d + 7
    BY <1>0
  <2>2. /\ s[d + 1 + 1] = B[1] /\ s[d + 1 + 2] = B[2] /\ s[d + 1 + 3] = B[3]
        /\ s[d + 1 + 4] = B[4] /\ s[d + 1 + 5] = B[5] /\ s[d + 1 + 6] = B[6]
    BY <1>20
  <2> QED
    BY <1>b, <2>1, <2>2
<1>23. \A j \in 1 .. Len(E) : s[d + n + 7 + j] = E[j]
  <2>1. d + 7 + n = d + n + 7
    BY <1>0
  <2> QED
    BY <1>15, <2>1
<1>24. s[d + n + 8] = Word("encrypted") /\ s[d + n + 9] = Num(IF m.key = NoKey THEN 0 ELSE 1)
  <2>1. d + n + 7 + 1 = d + n + 8 /\ d + n + 7 + 2 = d + n + 9
    BY <1>0
  <2>2. 1 \in 1 .. Len(E) /\ 2 \in 1 .. Len(E)
    BY <1>5
  <2> QED
    BY <1>6, <1>23, <2>1, <2>2
<1>25. ASSUME m.key # NoKey
       PROVE  /\ s[d + n + 10] = Word("enc_algo") /\ s[d + n + 12] = Word("key_enc_algo")
              /\ s[d + n + 14] = Word("enc_key") /\ s[d + n + 15] = m.key
  <2>1. /\ d + n + 7 + 3 = d + n + 10 /\ d + n + 7 + 5 = d + n + 12
        /\ d + n + 7 + 7 = d + n + 14 /\ d + n + 7 + 8 = d + n + 15
    BY <1>0
  <2>2. 3 \in 1 .. Len(E) /\ 5 \in 1 .. Len(E) /\ 7 \in 1 .. Len(E) /\ 8 \in 1 .. Len(E)
    BY <1>5, <1>25
  <2> QED
    BY <1>6, <1>23, <1>25, <2>1, <2>2
<1>26. Len(s) = IF m.key = NoKey THEN d + n + 9 ELSE d + n + 15
  BY <1>0, <1>5, <1>15
<1> QED
  BY <1>16, <1>19, <1>21, <1>22, <1>24, <1>25, <1>26 DEF Written, d

-----------------------------------------------------------------------------
(* What is left of a text, and what parseManifestText makes of it.         *)

\* A numeral cut short is a smaller number, and not zero.
LEMMA Division ==
  ASSUME NEW v \in Nat
  PROVE  v \div Base \in Nat /\ (v >= Base => v \div Base >= 1)
<1>1. Base \in Nat /\ Base > 1
  BY ManifestAssumption
<1> QED
  BY <1>1

\* A token cut short is a token.
LEMMA ShorterType ==
  ASSUME NEW t \in Tokens
  PROVE  Shorter(t) \in Tokens
<1>1. CASE t.kind = "word"
  BY <1>1 DEF Shorter, Word, Tokens
<1>2. CASE t.kind = "num"
  <2>1. t.val \div Base \in Nat
    BY Division DEF Tokens
  <2>2. Num(t.val \div Base) \in Tokens
    BY <2>1, TokenFacts
  <2>3. Shorter(t) \in {t, Num(t.val \div Base)}
    BY <1>2 DEF Shorter
  <2> QED
    BY <2>2, <2>3
<1>3. CASE t.kind \notin {"word", "num"}
  BY <1>3 DEF Shorter, Tokens
<1> QED
  BY <1>1, <1>2, <1>3

\* t is s, or what is left of s when its end is missing.
Part(t, s) ==
  /\ t \in Seq(Tokens)
  /\ Len(t) <= Len(s)
  /\ \A j \in 1 .. Len(t) - 1 : t[j] = s[j]
  /\ Len(t) > 0 => t[Len(t)] \in {s[Len(t)], Shorter(s[Len(t)])}

\* The first n members.
LEMMA InitialPart ==
  ASSUME NEW S, NEW s \in Seq(S), NEW n \in Nat, n <= Len(s)
  PROVE  /\ SubSeq(s, 1, n) \in Seq(S)
         /\ Len(SubSeq(s, 1, n)) = n
         /\ \A j \in 1 .. n : SubSeq(s, 1, n)[j] = s[j]
  OBVIOUS

\* Cuts yields nothing else.
LEMMA CutFacts ==
  ASSUME NEW s \in Seq(Tokens), NEW t \in {s} \cup Cuts(s)
  PROVE  Part(t, s)
<1>0. Len(s) \in Nat /\ DOMAIN s = 1 .. Len(s)
  BY LenProperties
<1>1. CASE t = s
  BY <1>0, <1>1 DEF Part
<1>2. ASSUME NEW n \in 0 .. Len(s) - 1, t = SubSeq(s, 1, n)
      PROVE  Part(t, s)
  <2>1. t \in Seq(Tokens) /\ Len(t) = n /\ \A j \in 1 .. n : t[j] = s[j]
    <3>1. PICK k \in Nat : k = n
      BY <1>0
    <3>2. k <= Len(s)
      <4>1. PICK l \in Nat : l = Len(s)
        BY <1>0
      <4>2. n \in 0 .. l - 1
        BY <4>1
      <4>3. k <= l
        BY <3>1, <4>2
      <4> QED
        BY <4>1, <4>3
    <3>3. t = SubSeq(s, 1, k)
      BY <1>2, <3>1
    <3>4. t \in Seq(Tokens) /\ Len(t) = k /\ \A j \in 1 .. k : t[j] = s[j]
      BY <3>2, <3>3, InitialPart
    <3> QED
      BY <3>1, <3>4
  <2> QED
    BY <1>0, <2>1 DEF Part
<1>3. ASSUME NEW n \in DOMAIN s, t = Append(SubSeq(s, 1, n - 1), Shorter(s[n]))
      PROVE  Part(t, s)
  <2>1. PICK u : u = SubSeq(s, 1, n - 1)
    OBVIOUS
  <2>0. PICK k \in Nat : k = n - 1
    BY <1>0
  <2>2. u \in Seq(Tokens) /\ Len(u) = k /\ \A j \in 1 .. k : u[j] = s[j]
    BY <1>0, <2>0, <2>1, InitialPart
  <2>3. PICK x \in Tokens : x = Shorter(s[n])
    BY <1>0, ShorterType
  <2>4. t = Append(u, x)
    BY <1>3, <2>1, <2>3
  <2>5. /\ t \in Seq(Tokens) /\ Len(t) = n /\ t[n] = x
        /\ \A j \in 1 .. n - 1 : t[j] = s[j]
    <3>1. /\ t \in Seq(Tokens) /\ Len(t) = k + 1 /\ t[k + 1] = x
          /\ \A j \in 1 .. k : t[j] = u[j]
      BY <2>2, <2>4
    <3>2. k + 1 = n
      BY <1>0, <2>0
    <3> QED
      BY <2>0, <2>2, <3>1, <3>2
  <2> QED
    BY <1>0, <2>3, <2>5 DEF Part
<1> QED
  BY <1>1, <1>2, <1>3 DEF Cuts

\* What was read is what was written, but for the end of the last id and the key.
Faithful(p, m, n) ==
  /\ p = [name |-> m.name, size |-> m.size, chunkSize |-> m.chunkSize,
          ids |-> p.ids, key |-> p.key]
  /\ p.ids \in Seq(Tokens) /\ Len(p.ids) = n
  /\ \A j \in 1 .. n - 1 : p.ids[j] = Id(j)
  /\ n > 0 => p.ids[n] \in {Id(n), Shorter(Id(n))}
  /\ p.key \in {m.key, Shorter(m.key), NoKey}

\* A name of one word, or one whose second word is not that of the next field.
Plain(name) == Len(name) > 1 => name[2] # Word("size")

\* The header is read only where it was written.
LEMMA HeaderRead ==
  ASSUME NEW m, NEW name, NEW n, ManifestOf(m, name, n), Plain(name),
         NEW s, Written(s, m, name, n), NEW t, Part(t, s), Header(t)
  PROVE  /\ Len(name) = 1 /\ Len(t) \in Nat /\ Len(t) >= 8
         /\ t[2] = name[1] /\ t[4] = Num(m.size) /\ t[6] = Num(m.chunkSize)
         /\ t[8] \in {Num(n), Shorter(Num(n))}
         /\ Len(t) > 8 => t[8] = Num(n)
<1>0. Len(t) \in Nat /\ Len(s) \in Nat /\ Len(name) \in Nat /\ n \in Nat
  BY LenProperties DEF Part, Written, ManifestOf
<1>1. Len(t) >= 8 /\ t[3] = Word("size")
  BY <1>0 DEF Header, Numeric, Labelled
<1>2. Len(name) >= 1
  BY <1>0, EmptySeq DEF ManifestOf
<1>3. \A j \in 1 .. 7 : t[j] = s[j]
  BY <1>0, <1>1 DEF Part
<1>4. Len(name) = 1
  <2>1. ASSUME Len(name) > 1
        PROVE  FALSE
    <3>1. 2 \in 1 .. Len(name) /\ 1 + 2 = 3
      BY <1>0, <2>1
    <3>2. s[3] = name[2]
      BY <3>1 DEF Written
    <3> QED
      BY <1>1, <1>3, <2>1, <3>2 DEF Plain
  <2>2. PICK d \in Nat : d = Len(name)
    BY <1>0
  <2>3. d >= 1 /\ ~ (d > 1)
    BY <1>2, <2>1, <2>2
  <2>4. d = 1
    BY <2>3
  <2> QED
    BY <2>2, <2>4
<1>5. /\ s[2] = name[1] /\ s[4] = Num(m.size) /\ s[6] = Num(m.chunkSize)
      /\ s[8] = Num(n)
  <2>1. 1 \in 1 .. Len(name) /\ 1 + 1 = 2
    BY <1>4
  <2>2. s[2] = name[1]
    BY <2>1 DEF Written
  <2> QED
    BY <1>4, <2>2 DEF Written
<1>6. t[8] \in {s[8], Shorter(s[8])} /\ (Len(t) > 8 => t[8] = s[8])
  BY <1>0, <1>1 DEF Part
<1> QED
  BY <1>0, <1>1, <1>3, <1>4, <1>5, <1>6

\* Nothing but the number of chunks is there: there are none.
LEMMA CutAtCount ==
  ASSUME NEW n \in Nat, NEW x \in {Num(n), Shorter(Num(n))}, x.val <= 0
  PROVE  n = 0
<1>1. CASE x = Num(n)
  BY <1>1 DEF Num
<1>2. CASE x = Shorter(Num(n))
  <2>1. Num(n).kind = "num" /\ Num(n).val = n
    BY DEF Num
  <2>2. x = IF n < Base THEN Num(n) ELSE Num(n \div Base)
    BY <1>2, <2>1 DEF Shorter
  <2>3. CASE n < Base
    BY <2>2, <2>3 DEF Num
  <2>4. CASE ~ (n < Base)
    <3>1. n >= Base
      BY <2>4, ManifestAssumption
    <3>2. x.val = n \div Base
      BY <2>2, <2>4 DEF Num
    <3>3. PICK q : q = n \div Base
      OBVIOUS
    <3>4. q \in Nat /\ q >= 1 /\ q <= 0
      BY <3>1, <3>2, <3>3, Division
    <3> QED
      BY <3>4
  <2> QED
    BY <2>3, <2>4
<1> QED
  BY <1>1, <1>2

\* The ids of a text that has not lost the number of them.
LEMMA IdsRead ==
  ASSUME NEW m, NEW name, NEW n, ManifestOf(m, name, n), Len(name) = 1,
         NEW s, Written(s, m, name, n), NEW t, Part(t, s),
         Len(t) >= 8 + n
  PROVE  LET ids == SubSeq(t, 9, 8 + n) IN
         /\ ids \in Seq(Tokens) /\ Len(ids) = n
         /\ \A j \in 1 .. n : 8 + j < Len(t) => ids[j] = Id(j)
         /\ n > 0 => ids[n] \in {Id(n), Shorter(Id(n))}
<1> DEFINE ids == SubSeq(t, 9, 8 + n)
<1>0. Len(t) \in Nat /\ n \in Nat /\ t \in Seq(Tokens)
  BY LenProperties DEF Part, ManifestOf
<1>1. \A k \in 9 .. 8 + n : t[k] \in Tokens
  BY <1>0, ElementOfSeq
<1>2. 9 \in Int /\ 8 + n \in Int
  BY <1>0
<1>3. /\ ids \in Seq(Tokens)
      /\ Len(ids) = IF 9 <= 8 + n THEN (8 + n) - 9 + 1 ELSE 0
      /\ \A j \in 1 .. (8 + n) - 9 + 1 : ids[j] = t[9 + j - 1]
  BY <1>1, <1>2, SubSeqProperties
<1> HIDE DEF ids
<1>4. Len(ids) = n
  BY <1>0, <1>3
<1>5. ASSUME NEW j \in 1 .. n
      PROVE  ids[j] = t[8 + j] /\ s[8 + j] = Id(j)
  <2>1. j \in 1 .. (8 + n) - 9 + 1 /\ 9 + j - 1 = 8 + j /\ 1 + 7 + j = 8 + j
    BY <1>0
  <2>2. s[1 + 7 + j] = Id(j)
    BY DEF Written
  <2> QED
    BY <1>3, <2>1, <2>2
<1>6. ASSUME NEW j \in 1 .. n, 8 + j < Len(t)
      PROVE  ids[j] = Id(j)
  <2>1. 8 + j \in 1 .. Len(t) - 1
    BY <1>0, <1>6
  <2>2. t[8 + j] = s[8 + j]
    BY <2>1 DEF Part
  <2> QED
    BY <1>5, <2>2
<1>7. ASSUME n > 0
      PROVE  ids[n] \in {Id(n), Shorter(Id(n))}
  <2>1. n \in 1 .. n
    BY <1>0, <1>7
  <2>2. CASE 8 + n < Len(t)
    BY <1>6, <2>1, <2>2
  <2>3. CASE 8 + n = Len(t)
    <3>1. t[8 + n] \in {s[8 + n], Shorter(s[8 + n])}
      BY <1>0, <2>3 DEF Part
    <3> QED
      BY <1>5, <2>1, <3>1
  <2> QED
    BY <1>0, <2>2, <2>3
<1> QED
  BY <1>3, <1>4, <1>6, <1>7 DEF ids

\* The key of a text that has not lost the number of ids.
LEMMA KeyRead ==
  ASSUME NEW m, NEW name, NEW n, ManifestOf(m, name, n), Len(name) = 1,
         NEW s, Written(s, m, name, n), NEW t, Part(t, s),
         Count(t) = n, Encrypted(t), KeyFields(t)
  PROVE  m.key = Key /\ t[16 + n] \in {Key, Shorter(Key)}
<1>0. Len(t) \in Nat /\ Len(s) \in Nat /\ n \in Nat
  BY LenProperties DEF Part, Written, ManifestOf
<1>1. Len(t) > 15 + n
  BY <1>0 DEF KeyFields, Labelled
<1>2. Len(s) >= 16 + n
  BY <1>0, <1>1 DEF Part
<1>3. m.key # NoKey
  <2>1. ASSUME m.key = NoKey
        PROVE  FALSE
    <3>1. Len(s) = 1 + n + 9
      BY <2>1 DEF Written
    <3> QED
      BY <1>0, <1>2, <3>1
  <2> QED
    BY <2>1
<1>4. m.key = Key
  BY <1>3 DEF ManifestOf
<1>5. Len(s) = 1 + n + 15 /\ s[1 + n + 15] = Key
  BY <1>3, <1>4 DEF Written
<1>6. PICK k \in Nat : k = 16 + n
  BY <1>0
<1>7. Len(t) = k /\ s[k] = Key
  <2>1. 1 + n + 15 = k
    BY <1>0, <1>6
  <2>2. Len(t) <= Len(s)
    BY DEF Part
  <2> QED
    BY <1>0, <1>1, <1>5, <1>6, <2>1, <2>2
<1>8. t[k] \in {Key, Shorter(Key)}
  <2>1. Len(t) > 0
    BY <1>0, <1>1
  <2>2. t[Len(t)] \in {s[Len(t)], Shorter(s[Len(t)])}
    BY <2>1 DEF Part
  <2> QED
    BY <1>7, <2>2
<1> QED
  BY <1>4, <1>6, <1>8

\* Whatever end of the text is missing, it is read with all ids or not at all.
LEMMA ParseFaithful ==
  ASSUME NEW m, NEW name, NEW n, ManifestOf(m, name, n), Plain(name),
         NEW s, Written(s, m, name, n), NEW t, Part(t, s), ~Malformed(t)
  PROVE  Faithful(ParseManifestText(t), m, n)
<1> DEFINE p == ParseManifestText(t)
<1>1. Header(t) /\ Len(t) >= 8 + Count(t) /\ (Encrypted(t) => KeyFields(t))
  <2>1. t \in Seq(Tokens) /\ Len(t) \in Nat /\ n \in Nat
    BY LenProperties DEF Part, ManifestOf
  <2>2. Header(t) /\ ~ (Len(t) < 8 + Count(t)) /\ (Encrypted(t) => KeyFields(t))
    BY DEF Malformed
  <2>3. Count(t) \in Nat
    <3>1. 8 \in 1 .. Len(t)
      BY <2>1, <2>2 DEF Header, Numeric, Labelled
    <3>2. t[8] \in Tokens
      BY <2>1, <3>1, ElementOfSeq
    <3> QED
      BY <3>2 DEF Count, Tokens
  <2> QED
    BY <2>1, <2>2, <2>3
<1>2. /\ Len(name) = 1 /\ Len(t) \in Nat /\ Len(t) >= 8
      /\ t[2] = name[1] /\ t[4] = Num(m.size) /\ t[6] = Num(m.chunkSize)
      /\ t[8] \in {Num(n), Shorter(Num(n))}
      /\ Len(t) > 8 => t[8] = Num(n)
  BY <1>1, HeaderRead
<1>3. n \in Nat /\ m.name = name /\ name = <<name[1]>>
  <2>1. name \in Seq(Tokens)
    BY DEF ManifestOf
  <2>2. name = <<name[1]>>
    BY <1>2, <2>1
  <2> QED
    BY <2>2 DEF ManifestOf
<1>4. Count(t) = n
  <2>1. CASE Len(t) > 8
    BY <1>2, <2>1 DEF Count, Num
  <2>2. CASE Len(t) = 8
    <3>1. PICK x \in {Num(n), Shorter(Num(n))} : x = t[8]
      BY <1>2
    <3>2. 8 >= 8 + x.val
      BY <1>1, <2>2, <3>1 DEF Count
    <3>3. x \in Tokens
      <4>1. Num(n) \in Tokens
        BY <1>3, TokenFacts
      <4> QED
        BY <3>1, <4>1, ShorterType
    <3>4. x.val \in Nat
      BY <3>3 DEF Tokens
    <3>5. x.val = 0
      BY <3>2, <3>4
    <3>6. n = 0
      BY <1>3, <3>1, <3>5, CutAtCount
    <3> QED
      BY <3>1, <3>5, <3>6 DEF Count
  <2>3. PICK l \in Nat : l = Len(t)
    BY <1>2
  <2>4. l = 8 \/ l > 8
    BY <1>2, <2>3
  <2> QED
    BY <2>1, <2>2, <2>3, <2>4
<1>5. Len(t) >= 8 + n
  BY <1>1, <1>4
<1>6. /\ p.ids \in Seq(Tokens) /\ Len(p.ids) = n
      /\ \A j \in 1 .. n : 8 + j < Len(t) => p.ids[j] = Id(j)
      /\ n > 0 => p.ids[n] \in {Id(n), Shorter(Id(n))}
  <2>1. p.ids = SubSeq(t, 9, 8 + n)
    BY <1>4 DEF ParseManifestText
  <2> HIDE DEF p
  <2> QED
    BY <1>2, <1>5, <2>1, IdsRead, SMTT(30)
<1>7. \A j \in 1 .. n - 1 : p.ids[j] = Id(j)
  <2> HIDE DEF p
  <2>1. ASSUME NEW j \in 1 .. n - 1
        PROVE  p.ids[j] = Id(j)
    <3>1. j \in 1 .. n /\ 8 + j < Len(t)
      BY <1>2, <1>3, <1>5
    <3> QED
      BY <1>6, <3>1
  <2> QED
    BY <2>1
<1>8. p.key \in {m.key, Shorter(m.key), NoKey}
  <2>1. CASE ~Encrypted(t)
    BY <2>1 DEF ParseManifestText
  <2>2. CASE Encrypted(t)
    <3>1. m.key = Key /\ t[16 + n] \in {Key, Shorter(Key)}
      BY <1>1, <1>2, <1>4, <2>2, KeyRead
    <3>2. p.key = t[16 + n]
      BY <1>4, <2>2 DEF ParseManifestText
    <3> QED
      BY <3>1, <3>2
  <2> QED
    BY <2>1, <2>2
<1>9. p = [name |-> m.name, size |-> m.size, chunkSize |-> m.chunkSize,
           ids |-> p.ids, key |-> p.key]
  <2>1. t[4].val = m.size /\ t[6].val = m.chunkSize /\ <<t[2]>> = m.name
    BY <1>2, <1>3 DEF Num
  <2> QED
    BY <2>1 DEF ParseManifestText
<1> QED
  BY <1>6, <1>7, <1>8, <1>9 DEF Faithful

\* A text that is whole is read as it was written.
LEMMA ParseExact ==
  ASSUME NEW m, NEW name, NEW n, ManifestOf(m, name, n), Plain(name),
         NEW s, Written(s, m, name, n), ~Malformed(s)
  PROVE  ParseManifestText(s) = m
<1> DEFINE p == ParseManifestText(s)
<1>0. Len(s) \in Nat /\ n \in Nat /\ s \in Seq(Tokens)
  BY LenProperties DEF Written, ManifestOf
<1>1. Part(s, s)
  BY <1>0 DEF Part
<1>2. Faithful(p, m, n)
  BY <1>1, ParseFaithful
<1>3. Header(s)
  BY DEF Malformed
<1>4. Len(name) = 1 /\ s[8] = Num(n)
  <2>1. Len(name) = 1
    BY <1>1, <1>3, HeaderRead
  <2> QED
    BY <2>1 DEF Written
<1>5. Count(s) = n
  BY <1>4 DEF Count, Num
<1>6. Len(s) >= 10 + n
  <2>1. Len(s) = 1 + n + 9 \/ Len(s) = 1 + n + 15
    BY <1>4 DEF Written
  <2> QED
    BY <1>0, <2>1
<1>7. p.ids = Ids(n)
  <2>1. p.ids = SubSeq(s, 9, 8 + n)
    BY <1>5 DEF ParseManifestText
  <2> HIDE DEF p
  <2>2. /\ p.ids \in Seq(Tokens) /\ Len(p.ids) = n
        /\ \A j \in 1 .. n : 8 + j < Len(s) => p.ids[j] = Id(j)
        /\ n > 0 => p.ids[n] \in {Id(n), Shorter(Id(n))}
    <3>1. Len(s) >= 8 + n
      BY <1>0, <1>6
    <3> QED
      BY <1>1, <1>4, <2>1, <3>1, IdsRead
  <2>3. \A j \in 1 .. n : p.ids[j] = Id(j)
    BY <1>0, <1>6, <2>2
  <2>4. PICK z : z = p.ids
    OBVIOUS
  <2>5. z = [j \in 1 .. n |-> z[j]]
    BY <1>0, <2>2, <2>4
  <2> QED
    BY <2>3, <2>4, <2>5 DEF Ids
<1>8. p.key = m.key
  <2>0. /\ s[9 + n] = Word("encrypted")
        /\ s[10 + n] = Num(IF m.key = NoKey THEN 0 ELSE 1)
        /\ m.key # NoKey => s[16 + n] = m.key
    <3>1. 1 + n + 8 = 9 + n /\ 1 + n + 9 = 10 + n /\ 1 + n + 15 = 16 + n
      BY <1>0
    <3> QED
      BY <1>4, <3>1 DEF Written
  <2>1. CASE m.key = NoKey
    <3>1. s[10 + n] # Num(1)
      BY <2>0, <2>1 DEF Num
    <3>2. ~Encrypted(s)
      BY <1>5, <3>1 DEF Encrypted
    <3> QED
      BY <2>1, <3>2 DEF ParseManifestText
  <2>2. CASE m.key # NoKey
    <3>1. Len(s) = 1 + n + 15
      BY <1>4, <2>2 DEF Written
    <3>2. s[10 + n] = Num(1) /\ s[10 + n].kind = "num"
      BY <2>0, <2>2 DEF Num
    <3>3. 9 + n < Len(s) /\ (9 + n) + 1 = 10 + n
      BY <1>0, <3>1
    <3>4. Encrypted(s)
      BY <1>5, <2>0, <3>2, <3>3 DEF Encrypted, Numeric, Labelled
    <3> QED
      BY <1>5, <2>0, <2>2, <3>4 DEF ParseManifestText
  <2> QED
    BY <2>1, <2>2
<1>9. m = [name |-> m.name, size |-> m.size, chunkSize |-> m.chunkSize,
           ids |-> Ids(n), key |-> m.key]
  BY DEF ManifestOf
<1> HIDE DEF p
<1>10. p = [name |-> m.name, size |-> m.size, chunkSize |-> m.chunkSize,
            ids |-> p.ids, key |-> p.key]
  BY <1>2 DEF Faithful
<1>11. p = m
  BY <1>7, <1>8, <1>9, <1>10
<1> QED
  BY <1>11 DEF p

-----------------------------------------------------------------------------
(* The inductive invariant.                                                *)

\* The manifest is of the file of this name and lists the chunks once all are read.
Shape ==
  /\ pc \in {"chunk", "write", "read", "key", "fetch", "done", "failed"}
  /\ ManifestOf(manifest, manifest.name, IF pc = "chunk" THEN 0 ELSE Len(blocks))

\* Byte j of the sequence s is a byte of position j.
InPlace(s) == s \in Seq(Bytes) /\ \A j \in 1 .. Len(s) : s[j][1] = j

\* The file has its bytes in place, and as many as its size says until it changes.
OnDisk ==
  /\ changes \in Nat
  /\ InPlace(file)
  /\ changes = 0 => Len(file) = manifest.size

\* So have the chunks so far, which are all full while the stream is good.
Consecutive ==
  /\ blocks \in Seq(Seq(Bytes))
  /\ InPlace(FlattenSeq(blocks))
  /\ changes = 0 => /\ Position <= Len(file)
                    /\ FlattenSeq(blocks) = SubSeq(file, 1, Position)
  /\ good \in BOOLEAN
  /\ \A j \in 1 .. Len(blocks) :
       j < Len(blocks) \/ good => Len(blocks[j]) = manifest.chunkSize

\* The texts, once they are written.
Texts ==
  /\ pc \in {"write", "read", "key", "fetch", "done"} =>
       shared = SerializeManifest(manifest)
  /\ pc \in {"read", "key", "fetch", "done"} => local \in {shared} \cup Cuts(shared)

\* What was read of them.
Readings ==
  WasRead /\ ~Misleading =>
    /\ Faithful(parsed, manifest, Len(blocks))
    /\ local = shared => parsed = manifest

\* The sequence s is a beginning of t.
Begins(s, t) == \E n \in 0 .. Len(t) : s = SubSeq(t, 1, n)

\* The output file is the first i chunks, or a beginning of them.
Outputs ==
  /\ stream \in {"good", "bad"}
  /\ pc \in {"chunk", "write", "read", "key"} => i = 0 /\ out = <<>>
  /\ pc \in {"fetch", "done"} /\ ~Misleading =>
       /\ i \in 0 .. Len(blocks)
       /\ Begins(out, FlattenSeq(SubSeq(blocks, 1, i)))
       /\ stream = "good" => out = FlattenSeq(SubSeq(blocks, 1, i))
       /\ pc = "done" => i = Len(blocks)

IInv == Shape /\ OnDisk /\ Consecutive /\ Texts /\ Readings /\ Outputs

\* It holds when putFile has taken the size of the file.
LEMMA InitInv == Init => IInv
<1> SUFFICES ASSUME Init
             PROVE  IInv
  OBVIOUS
<1>1. PICK size \in 0 .. MaxLen, name \in Names, c \in ChunkSizes, k \in {Key, NoKey} :
        /\ file = Original(size)
        /\ manifest = [name |-> name, size |-> size, chunkSize |-> c, ids |-> <<>>, key |-> k]
  BY DEF Init
<1>2. /\ size \in Nat /\ changes = 0 /\ blocks = <<>> /\ good = TRUE /\ out = <<>>
      /\ stream = "good" /\ i = 0 /\ pc = "chunk"
  BY ManifestAssumption DEF Init
<1>3. Shape
  <2>1. name \in Seq(Token) /\ name # <<>> /\ c \in Nat
    BY ManifestAssumption
  <2>2. name \in Seq(Tokens)
    BY <2>1, TokenFacts, SeqMonotonic
  <2>3. Ids(0) = <<>>
    BY DEF Ids
  <2>4. ManifestOf(manifest, manifest.name, 0)
    BY <1>1, <1>2, <2>1, <2>2, <2>3 DEF ManifestOf
  <2> QED
    BY <1>2, <2>4 DEF Shape
<1>a. OnDisk
  <2>1. file \in Seq(Bytes) /\ Len(file) = size /\ \A j \in 1 .. size : file[j] = <<j, 0>>
    BY <1>1, <1>2 DEF Original, Bytes
  <2>2. manifest.size = size
    BY <1>1
  <2> QED
    BY <1>2, <2>1, <2>2 DEF OnDisk, InPlace
<1>4. Consecutive
  <2>1. FlattenSeq(blocks) = <<>>
    BY <1>2, FlattenEmpty
  <2>2. Position = 0
    BY <2>1 DEF Position
  <2>3. InPlace(<<>>)
    BY DEF InPlace
  <2>4. blocks \in Seq(Seq(Bytes)) /\ Len(blocks) = 0
    BY <1>2
  <2>5. SubSeq(file, 1, 0) = <<>> /\ 0 <= Len(file)
    BY <1>a, SubSeqEmpty, LenProperties DEF OnDisk, InPlace
  <2>6. InPlace(FlattenSeq(blocks)) /\ Position <= Len(file)
        /\ FlattenSeq(blocks) = SubSeq(file, 1, Position)
    BY <2>1, <2>2, <2>3, <2>5
  <2>7. good \in BOOLEAN
    BY <1>2
  <2>8. \A j \in 1 .. Len(blocks) : FALSE
    BY <2>4
  <2> QED
    BY <2>4, <2>6, <2>7, <2>8 DEF Consecutive
<1>5. Texts /\ Readings /\ Outputs
  BY <1>2 DEF Texts, Readings, Outputs, WasRead
<1> QED
  BY <1>3, <1>4, <1>5, <1>a DEF IInv

\* The steps that leave the chunks and the manifest alone.
Later ==
  \/ WriteManifest \/ ReadManifest(shared) \/ ReadManifest(local) \/ DecryptKey
  \/ FetchBlock \/ FetchEnd

\* Every step preserves each part: the manifest,
LEMMA ShapeStep == IInv /\ [Next]_vars => Shape'
<1> SUFFICES ASSUME IInv, [Next]_vars
             PROVE  Shape'
  OBVIOUS
<1>0. Shape /\ Consecutive
  BY DEF IInv
<1>1. CASE FileChanges \/ (\E got \in 1 .. MaxLen : ReadBlock(got)) \/ UNCHANGED vars
  <2>1. manifest' = manifest /\ pc' = pc /\ (pc = "chunk" \/ blocks' = blocks)
    BY <1>1 DEF FileChanges, ReadBlock, vars
  <2> QED
    BY <1>0, <2>1 DEF Shape
<1>2. CASE ReadEnd
  <2>1. ManifestOf(manifest, manifest.name, 0)
    BY <1>0, <1>2 DEF Shape, ReadEnd
  <2>2. DOMAIN blocks = 1 .. Len(blocks) /\ Len(blocks) \in Nat
    BY <1>0, LenProperties DEF Consecutive
  <2>3. /\ manifest' = [manifest EXCEPT !.ids = Ids(Len(blocks))]
        /\ blocks' = blocks /\ pc' = "write"
    BY <1>2, <2>2 DEF ReadEnd, Ids
  <2>4. PICK m : m = manifest
    OBVIOUS
  <2>5. PICK n \in Nat : n = Len(blocks)
    BY <2>2
  <2>6. ManifestOf([m EXCEPT !.ids = Ids(n)], m.name, n)
        /\ [m EXCEPT !.ids = Ids(n)].name = m.name
    BY <2>1, <2>4 DEF ManifestOf
  <2>7. ManifestOf(manifest', manifest'.name, Len(blocks'))
    BY <2>3, <2>4, <2>5, <2>6
  <2> QED
    BY <2>3, <2>7 DEF Shape
<1>3. CASE ChunkFileThrows
  <2>1. ManifestOf(manifest, manifest.name, 0) /\ Len(blocks) = 0
    BY <1>0, <1>3 DEF Shape, ChunkFileThrows
  <2> QED
    BY <1>3, <2>1 DEF Shape, ChunkFileThrows
<1>4. CASE Later
  <2>1. /\ pc # "chunk" /\ pc' \in {"write", "read", "key", "fetch", "done", "failed"}
        /\ manifest' = manifest /\ blocks' = blocks
    BY <1>4 DEF Later, WriteManifest, ReadManifest, DecryptKey, FetchBlock, FetchEnd
  <2> QED
    BY <1>0, <2>1 DEF Shape
<1> QED
  BY <1>1, <1>2, <1>3, <1>4 DEF Next, Later

\* The p bytes of a have been read of f, and b is the next part.
NextPart(f, a, p, got, b) ==
  /\ InPlace(f) /\ InPlace(a) /\ Len(a) = p
  /\ p + got <= Len(f) /\ b = SubSeq(f, p + 1, p + got)

\* With it the bytes are in place, and still those of f.
GoesOn(f, a, p, got, b) ==
  /\ b \in Seq(Bytes) /\ Len(b) = got
  /\ InPlace(a \o b) /\ Len(a \o b) = p + got
  /\ a = SubSeq(f, 1, p) => a \o b = SubSeq(f, 1, p + got)

\* Reading on where the last chunk ended.
LEMMA BytesGoOn ==
  ASSUME NEW f, NEW a, NEW p \in Nat, NEW got \in Nat, NEW b,
         NextPart(f, a, p, got, b)
  PROVE  GoesOn(f, a, p, got, b)
<1>0. /\ InPlace(f) /\ InPlace(a) /\ Len(a) = p
      /\ p + got <= Len(f) /\ b = SubSeq(f, p + 1, p + got)
  BY DEF NextPart
<1>1. f \in Seq(Bytes) /\ a \in Seq(Bytes) /\ Len(f) \in Nat
      /\ (\A j \in 1 .. Len(f) : f[j] \in Bytes /\ f[j][1] = j)
      /\ (\A j \in 1 .. p : a[j][1] = j)
  BY <1>0, LenProperties, ElementOfSeq DEF InPlace
<1>2. /\ b \in Seq(Bytes) /\ Len(b) = got
      /\ \A j \in 1 .. got : b[j] = f[p + j]
  <2>1. \A j \in p + 1 .. p + got : f[j] \in Bytes
    BY <1>0, <1>1
  <2>2. p + 1 \in Int /\ p + got \in Int /\ (p + got) - (p + 1) + 1 = got
    OBVIOUS
  <2>3. \A j \in 1 .. got : (p + 1) + j - 1 = p + j
    OBVIOUS
  <2>4. /\ b \in Seq(Bytes)
        /\ Len(b) = IF p + 1 <= p + got THEN (p + got) - (p + 1) + 1 ELSE 0
        /\ \A j \in 1 .. (p + got) - (p + 1) + 1 : b[j] = f[(p + 1) + j - 1]
    <3>1. PICK m \in Int : m = p + 1
      OBVIOUS
    <3>2. PICK n \in Int : n = p + got
      OBVIOUS
    <3>3. /\ SubSeq(f, m, n) \in Seq(Bytes)
          /\ Len(SubSeq(f, m, n)) = IF m <= n THEN n - m + 1 ELSE 0
          /\ \A j \in 1 .. n - m + 1 : SubSeq(f, m, n)[j] = f[m + j - 1]
      BY <2>1, <3>1, <3>2, SubSeqProperties
    <3>4. b = SubSeq(f, m, n)
      BY <1>0, <3>1, <3>2
    <3> QED
      BY <3>1, <3>2, <3>3, <3>4
  <2> QED
    BY <2>2, <2>3, <2>4
<1>3. PICK c : c = a \o b
  OBVIOUS
<1>4. c \in Seq(Bytes) /\ Parts(c, a, p, b, got)
  BY <1>0, <1>1, <1>2, <1>3, ConcatAt
<1>5. ASSUME NEW j \in 1 .. p + got
      PROVE  c[j][1] = j
  <2>1. CASE j \in 1 .. p
    BY <1>1, <1>4, <2>1 DEF Parts
  <2>2. CASE j \notin 1 .. p
    <3>1. PICK k \in 1 .. got : j = p + k
      <4>1. j - p \in 1 .. got /\ j = p + (j - p)
        BY <2>2
      <4> QED
        BY <4>1
    <3>2. c[p + k] = f[p + k]
      BY <1>2, <1>4 DEF Parts
    <3>3. p + k \in 1 .. Len(f)
      BY <1>0, <1>1
    <3> QED
      BY <1>1, <3>1, <3>2, <3>3
  <2> QED
    BY <2>1, <2>2
<1>6. InPlace(c) /\ Len(c) = p + got
  BY <1>4, <1>5 DEF InPlace, Parts
<1>7. SubSeq(f, 1, p) \o b = SubSeq(f, 1, p + got)
  <2>1. 1 \in 1 .. Len(f) + 1 /\ p \in 1 - 1 .. Len(f) /\ p + got \in p .. Len(f)
    BY <1>0, <1>1
  <2> QED
    BY <1>0, <1>1, <2>1, ConcatAdjacentSubSeq
<1> QED
  BY <1>2, <1>3, <1>6, <1>7 DEF GoesOn

\* the file,
LEMMA OnDiskStep == IInv /\ [Next]_vars => OnDisk'
<1> SUFFICES ASSUME IInv, [Next]_vars
             PROVE  OnDisk'
  OBVIOUS
<1>0. Shape /\ OnDisk
  BY DEF IInv
<1>1. CASE FileChanges
  <2>1. PICK n \in 0 .. MaxLen : \E rewritten \in SUBSET (1 .. n) :
          file' = [j \in 1 .. n |-> IF j \in DOMAIN file \ rewritten THEN file[j]
                                    ELSE <<j, changes'>>]
    BY <1>1 DEF FileChanges
  <2>2. PICK rewritten \in SUBSET (1 .. n) :
          file' = [j \in 1 .. n |-> IF j \in DOMAIN file \ rewritten THEN file[j]
                                    ELSE <<j, changes'>>]
    BY <2>1
  <2>3. changes' \in Nat /\ changes' # 0 /\ n \in Nat
    BY <1>0, <1>1, ManifestAssumption DEF FileChanges, OnDisk
  <2>4. \A j \in DOMAIN file : file[j] \in Bytes /\ file[j][1] = j
    BY <1>0, LenProperties, ElementOfSeq DEF OnDisk, InPlace
  <2>5. ASSUME NEW j \in 1 .. n
        PROVE  file'[j] \in Bytes /\ file'[j][1] = j
    <3>1. <<j, changes'>> \in Bytes /\ <<j, changes'>>[1] = j
      BY <2>3 DEF Bytes
    <3>2. (file'[j] = file[j] /\ j \in DOMAIN file) \/ file'[j] = <<j, changes'>>
      BY <2>2
    <3> QED
      BY <2>4, <3>1, <3>2
  <2>6. file' = [j \in 1 .. n |-> file'[j]]
    BY <2>2
  <2>7. file' \in Seq(Bytes) /\ Len(file') = n
    BY <2>3, <2>5, <2>6
  <2> QED
    BY <2>3, <2>5, <2>7 DEF OnDisk, InPlace
<1>2. CASE ~FileChanges
  <2>1. file' = file /\ changes' = changes
    BY <1>2 DEF Next, ReadBlock, ReadEnd, ChunkFileThrows, WriteManifest, ReadManifest,
                DecryptKey, FetchBlock, FetchEnd, vars
  <2>2. manifest' = manifest \/ (\E x : manifest' = [manifest EXCEPT !.ids = x])
    BY <1>2 DEF Next, ReadBlock, ReadEnd, ChunkFileThrows, WriteManifest, ReadManifest,
                DecryptKey, FetchBlock, FetchEnd, vars
  <2>3. manifest'.size = manifest.size
    <3>1. PICK m : m = manifest
      OBVIOUS
    <3>2. m = [name |-> m.name, size |-> m.size, chunkSize |-> m.chunkSize,
               ids |-> m.ids, key |-> m.key]
      BY <1>0, <3>1 DEF Shape, ManifestOf
    <3>3. \A x : [m EXCEPT !.ids = x].size = m.size
      BY <3>2
    <3> QED
      BY <2>2, <3>1, <3>3
  <2> QED
    BY <1>0, <2>1, <2>3 DEF OnDisk
<1> QED
  BY <1>1, <1>2

\* the chunks,
LEMMA ConsecutiveStep == IInv /\ [Next]_vars => Consecutive'
<1> SUFFICES ASSUME IInv, [Next]_vars
             PROVE  Consecutive'
  OBVIOUS
<1>0. Shape /\ OnDisk /\ Consecutive
  BY DEF IInv
<1>1. CASE ReadEnd \/ ChunkFileThrows \/ FileChanges \/ Later \/ UNCHANGED vars
  <2>1. blocks' = blocks /\ good' = good
    BY <1>1 DEF ReadEnd, ChunkFileThrows, FileChanges, Later, WriteManifest, ReadManifest,
                DecryptKey, FetchBlock, FetchEnd, vars
  <2>2. manifest'.chunkSize = manifest.chunkSize
    <3>1. PICK m : m = manifest
      OBVIOUS
    <3>2. manifest' = manifest \/ (\E x : manifest' = [manifest EXCEPT !.ids = x])
      BY <1>1 DEF ReadEnd, ChunkFileThrows, FileChanges, Later, WriteManifest, ReadManifest,
                  DecryptKey, FetchBlock, FetchEnd, vars
    <3>3. m = [name |-> m.name, size |-> m.size, chunkSize |-> m.chunkSize,
               ids |-> m.ids, key |-> m.key]
      BY <1>0, <3>1 DEF Shape, ManifestOf
    <3>4. \A x : [m EXCEPT !.ids = x].chunkSize = m.chunkSize
      BY <3>3
    <3> QED
      BY <3>1, <3>2, <3>4
  <2>3. Position' = Position
    BY <2>1 DEF Position
  <2>4. changes' = 0 => changes = 0 /\ file' = file
    <3>1. CASE FileChanges
      BY <1>0, <3>1 DEF FileChanges, OnDisk
    <3>2. CASE ~FileChanges
      BY <1>1, <3>2 DEF ReadEnd, ChunkFileThrows, Later, WriteManifest, ReadManifest,
                        DecryptKey, FetchBlock, FetchEnd, vars
    <3> QED
      BY <3>1, <3>2
  <2> QED
    BY <1>0, <2>1, <2>2, <2>3, <2>4 DEF Consecutive
<1>2. ASSUME NEW got \in 1 .. MaxLen, ReadBlock(got)
      PROVE  Consecutive'
  <2>1. PICK a : a = FlattenSeq(blocks)
    OBVIOUS
  <2>2. PICK p \in Nat : p = Position /\ p = Len(a)
    BY <1>0, <2>1, LenProperties DEF Consecutive, InPlace, Position
  <2>0. got \in Nat /\ got > 0 /\ good = TRUE /\ p + got <= Len(file)
    <3>1. got \in Nat /\ got > 0 /\ good = TRUE
      BY <1>0, <1>2, ManifestAssumption DEF ReadBlock, Gets, Consecutive
    <3>2. PICK len \in Nat : len = Len(file)
      BY <1>0, LenProperties DEF OnDisk, InPlace
    <3>3. got <= len - p
      BY <1>0, <1>2, <2>2, <3>1, <3>2, ManifestAssumption DEF ReadBlock, Gets, Shape, ManifestOf
    <3> QED
      BY <3>1, <3>2, <3>3
  <2>3. PICK b : b = SubSeq(file, p + 1, p + got)
    OBVIOUS
  <2>4. /\ b \in Seq(Bytes) /\ Len(b) = got
        /\ InPlace(a \o b) /\ Len(a \o b) = p + got
        /\ a = SubSeq(file, 1, p) => a \o b = SubSeq(file, 1, p + got)
    <3>1. InPlace(file) /\ InPlace(a)
      BY <1>0, <2>1 DEF OnDisk, Consecutive
    <3> QED
      <4>1. NextPart(file, a, p, got, b)
        BY <2>0, <2>2, <2>3, <3>1 DEF NextPart
      <4>2. GoesOn(file, a, p, got, b)
        BY <2>0, <4>1, BytesGoOn
      <4> QED
        BY <4>2 DEF GoesOn
  <2>5. blocks \in Seq(Seq(Bytes))
    BY <1>0 DEF Consecutive
  <2>6. blocks' = Append(blocks, b)
    BY <1>2, <2>2, <2>3 DEF ReadBlock, Block
  <2>7. FlattenSeq(blocks') = a \o b
    BY <2>1, <2>4, <2>5, <2>6, FlattenAppend
  <2>8. changes' = changes /\ file' = file
    BY <1>2 DEF ReadBlock
  <2>9. Position' = p + got
    BY <2>4, <2>7 DEF Position
  <2>10. good' = (got = manifest.chunkSize) /\ manifest' = manifest
    BY <1>2 DEF ReadBlock
  <2>11. PICK n \in Nat : n = Len(blocks)
    BY <2>5, LenProperties
  <2>12. /\ blocks' \in Seq(Seq(Bytes)) /\ Len(blocks') = n + 1 /\ blocks'[n + 1] = b
         /\ \A j \in 1 .. n : blocks'[j] = blocks[j]
    BY <2>4, <2>5, <2>6, <2>11
  <2>13. \A j \in 1 .. n : Len(blocks[j]) = manifest.chunkSize
    BY <1>0, <2>0, <2>11 DEF Consecutive
  <2>14. ASSUME NEW j \in 1 .. n + 1, j < n + 1 \/ good'
         PROVE  Len(blocks'[j]) = manifest'.chunkSize
    <3>1. CASE j \in 1 .. n
      BY <2>10, <2>12, <2>13, <3>1
    <3>2. CASE j = n + 1
      <4>1. good'
        BY <2>14, <3>2
      <4> QED
        BY <2>4, <2>10, <2>12, <3>2, <4>1
    <3> QED
      BY <3>1, <3>2
  <2>15. good' \in BOOLEAN
    BY <2>10
  <2>16. changes' = 0 => /\ Position' <= Len(file')
                         /\ FlattenSeq(blocks') = SubSeq(file', 1, Position')
    <3>1. changes = 0 => a = SubSeq(file, 1, p)
      BY <1>0, <2>1, <2>2 DEF Consecutive
    <3> QED
      BY <2>0, <2>4, <2>7, <2>8, <2>9, <3>1
  <2>17. InPlace(FlattenSeq(blocks'))
    BY <2>4, <2>7
  <2> QED
    BY <2>12, <2>14, <2>15, <2>16, <2>17 DEF Consecutive, InPlace
<1> QED
  BY <1>1, <1>2 DEF Next, Later

\* After chunkFile nothing changes the manifest, its blocks and the shared text.
LEMMA LaterFacts ==
  ASSUME Later
  PROVE  /\ pc # "chunk" /\ manifest' = manifest /\ blocks' = blocks /\ shared' = shared
         /\ Misleading' = Misleading
<1>1. pc # "chunk" /\ manifest' = manifest /\ blocks' = blocks /\ shared' = shared
  BY DEF Later, WriteManifest, ReadManifest, DecryptKey, FetchBlock, FetchEnd
<1> QED
  BY <1>1 DEF Misleading

\* The steps before.
Earlier ==
  FileChanges \/ (\E got \in 1 .. MaxLen : ReadBlock(got)) \/ ReadEnd \/ ChunkFileThrows

\* Before the end of chunkFile nothing is shared, read or written out.
LEMMA EarlierFacts ==
  ASSUME Earlier
  PROVE  /\ pc = "chunk" /\ pc' \in {"chunk", "write", "failed"}
         /\ i' = i /\ out' = out /\ stream' = stream
         /\ pc' = "write" => shared' = SerializeManifest(manifest')
  BY DEF Earlier, FileChanges, ReadBlock, ReadEnd, ChunkFileThrows

\* the texts,
LEMMA TextsStep == IInv /\ [Next]_vars => Texts'
<1> SUFFICES ASSUME IInv, [Next]_vars
             PROVE  Texts'
  OBVIOUS
<1>0. Texts
  BY DEF IInv
<1>1. CASE Earlier
  BY <1>1, EarlierFacts DEF Texts
<1>2. CASE Later
  <2>1. manifest' = manifest /\ shared' = shared
    BY <1>2, LaterFacts
  <2>2. CASE WriteManifest
    BY <1>0, <2>1, <2>2 DEF WriteManifest, Texts
  <2>3. CASE ~WriteManifest
    <3>1. /\ local' = local
          /\ pc \in {"read", "key", "fetch"}
    BY <1>2, <2>3 DEF Later, ReadManifest, DecryptKey, FetchBlock, FetchEnd
    <3> QED
      BY <1>0, <2>1, <3>1 DEF Texts
  <2> QED
    BY <2>2, <2>3
<1>3. CASE UNCHANGED vars
  BY <1>0, <1>3 DEF Texts, vars
<1> QED
  BY <1>1, <1>2, <1>3 DEF Next, Later, Earlier

\* what was read of them,
LEMMA ReadingsStep == IInv /\ [Next]_vars => Readings'
<1> SUFFICES ASSUME IInv, [Next]_vars
             PROVE  Readings'
  OBVIOUS
<1>0. Readings /\ Texts /\ Shape
  BY DEF IInv
<1>1. CASE Earlier
  BY <1>1, EarlierFacts DEF Readings, WasRead
<1>2. CASE WriteManifest
  BY <1>2 DEF WriteManifest, Readings, WasRead
<1>3. ASSUME NEW text \in {shared, local}, ReadManifest(text)
      PROVE  Readings'
  <2> SUFFICES ASSUME WasRead', ~Misleading'
               PROVE  /\ Faithful(parsed', manifest', Len(blocks'))
                      /\ local' = shared' => parsed' = manifest'
    BY DEF Readings
  <2>1. /\ pc = "read" /\ ~Malformed(text) /\ parsed' = ParseManifestText(text)
        /\ manifest' = manifest /\ blocks' = blocks /\ local' = local /\ shared' = shared
    BY <1>3 DEF ReadManifest, WasRead
  <2>2. PICK m : m = manifest
    OBVIOUS
  <2>3. PICK name : name = manifest.name
    OBVIOUS
  <2>4. PICK n : n = Len(blocks)
    OBVIOUS
  <2>5. PICK s : s = shared
    OBVIOUS
  <2>6. ManifestOf(m, name, n)
    BY <1>0, <2>1, <2>2, <2>3, <2>4 DEF Shape
  <2>7. Written(s, m, name, n)
    <3>1. s = SerializeManifest(m)
      BY <1>0, <2>1, <2>2, <2>5 DEF Texts
    <3>2. Written(SerializeManifest(m), m, name, n)
      BY <2>6, SerializeWrites
    <3> QED
      BY <3>1, <3>2
  <2>8. Plain(name)
    <3>1. ~Misleading
      BY <2>1 DEF Misleading
    <3> QED
      BY <2>3, <3>1 DEF Misleading, Plain
  <2>9. Part(text, s)
    <3>1. text \in {s} \cup Cuts(s)
      BY <1>0, <1>3, <2>1, <2>5 DEF Texts
    <3>2. s \in Seq(Tokens)
      BY <2>7 DEF Written
    <3> QED
      BY <3>1, <3>2, CutFacts
  <2>10. Faithful(ParseManifestText(text), m, n)
    BY <2>1, <2>6, <2>7, <2>8, <2>9, ParseFaithful
  <2>11. ASSUME local = shared
         PROVE  ParseManifestText(text) = m
    <3>1. text = s
      BY <1>3, <2>5, <2>11
    <3>2. ~Malformed(s)
      BY <2>1, <3>1
    <3>3. ParseManifestText(s) = m
      BY <2>6, <2>7, <2>8, <3>2, ParseExact
    <3> QED
      BY <3>1, <3>3
  <2> QED
    BY <2>1, <2>2, <2>4, <2>10, <2>11
<1>4. CASE DecryptKey \/ FetchBlock \/ FetchEnd \/ UNCHANGED vars
  <2>1. /\ WasRead' => WasRead
        /\ manifest' = manifest /\ blocks' = blocks /\ parsed' = parsed
        /\ local' = local /\ shared' = shared
    BY <1>4 DEF DecryptKey, FetchBlock, FetchEnd, vars, WasRead
  <2>2. Misleading' = Misleading
    BY <2>1 DEF Misleading
  <2> QED
    BY <1>0, <2>1, <2>2 DEF Readings
<1> QED
  BY <1>1, <1>2, <1>3, <1>4 DEF Next, Earlier

\* An id that is accepted is that of the chunk whose turn it is.
LEMMA AcceptedInTurn ==
  ASSUME Consecutive, Faithful(parsed, manifest, Len(blocks)),
         NEW k \in Nat, k < Len(parsed.ids), Accepted(parsed.ids[k + 1])
  PROVE  /\ k + 1 \in 1 .. Len(blocks)
         /\ Decrypted(parsed.ids[k + 1]) = blocks[k + 1]
<1>1. PICK n \in Nat : n = Len(blocks)
  BY LenProperties DEF Consecutive
<1>2. PICK x : x = parsed.ids[k + 1]
  OBVIOUS
<1>3. x.val \in 1 .. n /\ Decrypted(x) = blocks[x.val]
  <2>1. DOMAIN blocks = 1 .. Len(blocks)
    BY LenProperties DEF Consecutive
  <2> QED
    BY <1>1, <1>2, <2>1 DEF Accepted
<1>4. k + 1 \in 1 .. n
  <2>1. Len(parsed.ids) = n
    BY <1>1 DEF Faithful
  <2> QED
    BY <2>1
<1>5. x \in {Id(k + 1), Shorter(Id(k + 1))}
  <2>1. CASE k + 1 < n
    <3>1. k + 1 \in 1 .. n - 1
      BY <2>1
    <3> QED
      BY <1>1, <1>2, <3>1 DEF Faithful
  <2>2. CASE k + 1 = n
    BY <1>1, <1>2, <1>4, <2>2 DEF Faithful
  <2> QED
    BY <1>4, <2>1, <2>2
<1>6. Id(k + 1).val = k + 1 /\ Shorter(Id(k + 1)).val = 0
  BY DEF Id, Shorter
<1>7. x.val = k + 1
  BY <1>3, <1>5, <1>6
<1> QED
  BY <1>1, <1>2, <1>3, <1>4, <1>7

\* Writing a block to a stream that may have failed.
LEMMA WriteFacts ==
  ASSUME NEW t \in Seq(Bytes), NEW b \in Seq(Bytes), Begins(out, t),
         stream = "good" => out = t, Write(b)
  PROVE  Begins(out', t \o b) /\ (stream' = "good" => out' = t \o b)
<1>1. PICK c : c = t \o b
  OBVIOUS
<1>2. c \in Seq(Bytes) /\ Len(c) \in Nat /\ Len(t) \in Nat /\ Len(t) <= Len(c)
  BY <1>1
<1>3. CASE stream = "bad" /\ UNCHANGED <<out, stream>>
  <2>1. PICK n \in 0 .. Len(t) : out = SubSeq(t, 1, n)
    BY DEF Begins
  <2>2. SubSeq(t, 1, n) = SubSeq(c, 1, n)
    <3>1. CASE n = 0
      BY <3>1, SubSeqEmpty
    <3>2. CASE n # 0
      <4>1. 1 \in 1 .. Len(t) /\ n \in 1 .. Len(t)
        BY <1>2, <3>2
      <4> QED
        BY <1>1, <4>1, SubSeqOfConcat1
    <3> QED
      BY <3>1, <3>2
  <2>3. n \in 0 .. Len(c)
    BY <1>2
  <2> QED
    BY <1>1, <1>3, <2>1, <2>2, <2>3 DEF Begins
<1>4. CASE stream = "good" /\ out' = out \o b /\ UNCHANGED stream
  <2>1. out' = c
    BY <1>1, <1>4
  <2>2. c = SubSeq(c, 1, Len(c)) /\ Len(c) \in 0 .. Len(c)
    BY <1>2, SubSeqFull
  <2> QED
    BY <1>1, <2>1, <2>2 DEF Begins
<1>5. CASE /\ stream = "good" /\ stream' = "bad"
           /\ \E n \in 0 .. Len(out \o b) : out' = SubSeq(out \o b, 1, n)
  BY <1>1, <1>5 DEF Begins
<1> QED
  BY <1>3, <1>4, <1>5 DEF Write

\* and the output file.
LEMMA OutputsStep == IInv /\ [Next]_vars => Outputs'
<1> SUFFICES ASSUME IInv, [Next]_vars
             PROVE  Outputs'
  OBVIOUS
<1>0. Readings /\ Outputs /\ Consecutive
  BY DEF IInv
<1>a. PICK n \in Nat : n = Len(blocks)
  BY <1>0, LenProperties DEF Consecutive
<1>1. CASE Earlier
  BY <1>0, <1>1, EarlierFacts DEF Outputs
<1>2. CASE WriteManifest \/ ReadManifest(shared) \/ ReadManifest(local)
  BY <1>0, <1>2 DEF WriteManifest, ReadManifest, Outputs
<1>3. CASE DecryptKey
  <2>1. i' = 0 /\ out' = <<>> /\ pc' \in {"fetch", "failed"} /\ blocks' = blocks
        /\ stream' = stream
    BY <1>0, <1>3 DEF DecryptKey, Outputs
  <2>2. SubSeq(blocks, 1, 0) = <<>>
    BY SubSeqEmpty
  <2>3. FlattenSeq(SubSeq(blocks', 1, i')) = <<>>
    BY <2>1, <2>2, FlattenEmpty
  <2>4. i' \in 0 .. Len(blocks')
    BY <1>a, <2>1
  <2>5. Begins(<<>>, <<>>)
    BY SubSeqEmpty DEF Begins
  <2> QED
    BY <1>0, <2>1, <2>3, <2>4, <2>5 DEF Outputs
<1>4. CASE FetchBlock
  <2>0. stream' \in {"good", "bad"}
    BY <1>0, <1>4 DEF FetchBlock, Write, Outputs
  <2> SUFFICES ASSUME pc' = "fetch", ~Misleading'
               PROVE  /\ i' \in 0 .. Len(blocks')
                      /\ Begins(out', FlattenSeq(SubSeq(blocks', 1, i')))
                      /\ stream' = "good" => out' = FlattenSeq(SubSeq(blocks', 1, i'))
    BY <1>4, <2>0 DEF FetchBlock, Outputs
  <2>1. /\ pc = "fetch" /\ i < Len(parsed.ids) /\ Accepted(parsed.ids[i + 1])
        /\ Write(Decrypted(parsed.ids[i + 1])) /\ i' = i + 1
        /\ blocks' = blocks /\ manifest' = manifest
    BY <1>4 DEF FetchBlock
  <2>2. ~Misleading
    BY <2>1 DEF Misleading
  <2>3. PICK k \in Nat : k = i
    BY <1>0, <2>1, <2>2 DEF Outputs
  <2>4. /\ Begins(out, FlattenSeq(SubSeq(blocks, 1, k))) /\ k <= n
        /\ stream = "good" => out = FlattenSeq(SubSeq(blocks, 1, k))
    BY <1>0, <1>a, <2>1, <2>2, <2>3 DEF Outputs
  <2>5. Faithful(parsed, manifest, Len(blocks))
    BY <1>0, <2>1, <2>2 DEF Readings, WasRead
  <2>6. k + 1 \in 1 .. n /\ Decrypted(parsed.ids[k + 1]) = blocks[k + 1]
    BY <1>0, <1>a, <2>1, <2>3, <2>5, AcceptedInTurn
  <2>7. PICK u : u = SubSeq(blocks, 1, k)
    OBVIOUS
  <2>8. PICK b : b = blocks[k + 1]
    OBVIOUS
  <2>9. blocks \in Seq(Seq(Bytes)) /\ b \in Seq(Bytes) /\ u \in Seq(Seq(Bytes))
    <3>1. blocks \in Seq(Seq(Bytes))
      BY <1>0 DEF Consecutive
    <3>2. b \in Seq(Bytes)
      BY <1>a, <2>6, <2>8, <3>1, ElementOfSeq
    <3>3. u \in Seq(Seq(Bytes))
      BY <1>a, <2>4, <2>7, <3>1, InitialPart
    <3> QED
      BY <3>1, <3>2, <3>3
  <2>10. SubSeq(blocks, 1, k + 1) = Append(u, b)
    <3>1. PICK T : T = Seq(Bytes)
      OBVIOUS
    <3>2. blocks \in Seq(T)
      BY <2>9, <3>1
    <3>3. SubSeq(blocks, 1, k + 1) = Append(SubSeq(blocks, 1, k), blocks[k + 1])
      BY <1>a, <2>6, <3>2
    <3> QED
      BY <2>7, <2>8, <3>3
  <2>11. FlattenSeq(Append(u, b)) = FlattenSeq(u) \o b
    BY <2>9, FlattenAppend
  <2>12. PICK t : t = FlattenSeq(u)
    OBVIOUS
  <2>13. t \in Seq(Bytes) /\ FlattenSeq(SubSeq(blocks, 1, k + 1)) = t \o b
    BY <2>9, <2>10, <2>11, <2>12, FlattenAppend
  <2>14. Begins(out', t \o b) /\ (stream' = "good" => out' = t \o b)
    <3>1. Write(b) /\ Begins(out, t) /\ (stream = "good" => out = t)
      BY <2>1, <2>3, <2>4, <2>6, <2>7, <2>8, <2>12
    <3> QED
      BY <2>9, <2>13, <3>1, WriteFacts
  <2>15. i' = k + 1 /\ k + 1 \in 0 .. n
    BY <2>1, <2>3, <2>6
  <2> QED
    BY <1>a, <2>1, <2>13, <2>14, <2>15
<1>5. CASE FetchEnd
  <2>1. /\ pc = "fetch" /\ pc' = "done" /\ i = Len(parsed.ids)
        /\ i' = i /\ out' = out /\ stream' = stream
        /\ blocks' = blocks /\ manifest' = manifest
    BY <1>5 DEF FetchEnd
  <2>2. Misleading' = Misleading
    BY <2>1 DEF Misleading
  <2>3. ASSUME ~Misleading
        PROVE  i = Len(blocks)
    BY <1>0, <2>1, <2>3 DEF Readings, WasRead, Faithful
  <2> QED
    BY <1>0, <2>1, <2>2, <2>3 DEF Outputs
<1>6. CASE UNCHANGED vars
  <2>1. /\ pc' = pc /\ i' = i /\ out' = out /\ stream' = stream
        /\ blocks' = blocks /\ Misleading' = Misleading
    BY <1>6 DEF vars, Misleading
  <2> QED
    BY <1>0, <2>1 DEF Outputs
<1> QED
  BY <1>1, <1>2, <1>3, <1>4, <1>5, <1>6 DEF Next, Earlier

\* The inductive invariant of the upload and the download of one file.
THEOREM Invariance == Spec => []IInv
<1>1. IInv /\ [Next]_vars => IInv'
  BY ShapeStep, OnDiskStep, ConsecutiveStep, TextsStep, ReadingsStep, OutputsStep DEF IInv
<1> QED
  BY <1>1, InitInv, PTL DEF Spec

\* SizeTells: chunkFile cuts the file into consecutive blocks from its beginning,
\* full but for the last, though the file may change under it; and if it did not,
\* the blocks are the file whenever their bytes add up to the size taken before,
\* although a failed read looks like the end of the file.
THEOREM SizeIsTelling == Spec => []SizeTells
<1>1. IInv => SizeTells
  <2> SUFFICES ASSUME IInv
               PROVE  SizeTells
    OBVIOUS
  <2>1. Consecutive /\ OnDisk
    BY DEF IInv
  <2>2. PICK n \in Nat : n = Len(blocks)
    BY <2>1, LenProperties DEF Consecutive
  <2>3. ASSUME NEW j \in 1 .. n - 1
        PROVE  Len(blocks[j]) = manifest.chunkSize
    <3>1. j \in 1 .. n /\ j < n
      BY <2>2
    <3> QED
      BY <2>1, <2>2, <3>1 DEF Consecutive
  <2>4. \A j \in 1 .. Position : FlattenSeq(blocks)[j][1] = j
    BY <2>1 DEF Consecutive, InPlace, Position
  <2>5. ASSUME changes = 0, Position = manifest.size
        PROVE  FlattenSeq(blocks) = file
    <3>1. FlattenSeq(blocks) = SubSeq(file, 1, Len(file)) /\ file \in Seq(Bytes)
      BY <2>1, <2>5 DEF Consecutive, OnDisk, InPlace
    <3> QED
      BY <3>1, SubSeqFull
  <2> QED
    BY <2>2, <2>3, <2>4, <2>5 DEF SizeTells
<1> QED
  BY <1>1, Invariance, PTL

\* A manifest by its fields, and without its ids and its key.
Fields(m, a, b, c, d, e) ==
  m = [name |-> a, size |-> b, chunkSize |-> c, ids |-> d, key |-> e]

Stripped(m) == [m EXCEPT !.ids = <<>>, !.key = NoKey]

\* What stripping leaves.
LEMMA FieldsReplaced ==
  ASSUME NEW a, NEW b, NEW c, NEW d, NEW e, NEW m, Fields(m, a, b, c, d, e)
  PROVE  Fields(Stripped(m), a, b, c, <<>>, NoKey)
<1>1. PICK u, v : u = <<>> /\ v = NoKey
  OBVIOUS
<1>2. [m EXCEPT !.ids = u]
        = [name |-> a, size |-> b, chunkSize |-> c, ids |-> u, key |-> e]
  BY DEF Fields
<1>3. [[m EXCEPT !.ids = u] EXCEPT !.key = v]
        = [name |-> a, size |-> b, chunkSize |-> c, ids |-> u, key |-> v]
  <2>1. PICK r : r = [m EXCEPT !.ids = u]
    OBVIOUS
  <2>2. r = [name |-> a, size |-> b, chunkSize |-> c, ids |-> u, key |-> e]
    BY <1>2, <2>1
  <2>3. [r EXCEPT !.key = v]
          = [name |-> a, size |-> b, chunkSize |-> c, ids |-> u, key |-> v]
    BY <2>2
  <2> QED
    BY <2>1, <2>3
<1>4. [m EXCEPT !.ids = u, !.key = v] = [[m EXCEPT !.ids = u] EXCEPT !.key = v]
  OBVIOUS
<1>5. [m EXCEPT !.ids = u, !.key = v]
        = [name |-> a, size |-> b, chunkSize |-> c, ids |-> u, key |-> v]
  BY <1>3, <1>4
<1> QED
  BY <1>1, <1>5 DEF Fields, Stripped

\* ReadsAllIds: whatever end of its text is missing, parseManifestText reads a
\* manifest with all ids or throws, for every name that does not spell out a field.
THEOREM IdsAreAllRead == Spec => []ReadsAllIds
<1>1. IInv => ReadsAllIds
  <2> SUFFICES ASSUME IInv, WasRead, ~Misleading
               PROVE  /\ [parsed EXCEPT !.ids = <<>>, !.key = NoKey]
                           = [manifest EXCEPT !.ids = <<>>, !.key = NoKey]
                      /\ Len(parsed.ids) = Len(manifest.ids)
                      /\ Front(<<NoKey>> \o parsed.ids) = Front(<<NoKey>> \o manifest.ids)
                      /\ parsed.key \in {manifest.key, Shorter(manifest.key), NoKey}
                      /\ local = shared => parsed = manifest
    BY DEF ReadsAllIds
  <2>1. /\ Faithful(parsed, manifest, Len(blocks))
        /\ local = shared => parsed = manifest
    BY DEF IInv, Readings
  <2>2. ManifestOf(manifest, manifest.name, Len(blocks))
    BY DEF IInv, Shape, WasRead
  <2>3. PICK p : p = parsed
    OBVIOUS
  <2>4. PICK m : m = manifest
    OBVIOUS
  <2>5. PICK n \in Nat : n = Len(blocks)
    BY <2>2 DEF ManifestOf
  <2>6. Faithful(p, m, n) /\ ManifestOf(m, m.name, n)
    BY <2>1, <2>2, <2>3, <2>4, <2>5
  <2>7. [p EXCEPT !.ids = <<>>, !.key = NoKey] = [m EXCEPT !.ids = <<>>, !.key = NoKey]
    <3>1. p = [name |-> m.name, size |-> m.size, chunkSize |-> m.chunkSize,
               ids |-> p.ids, key |-> p.key]
      BY <2>6 DEF Faithful
    <3>2. m = [name |-> m.name, size |-> m.size, chunkSize |-> m.chunkSize,
               ids |-> Ids(n), key |-> m.key]
      BY <2>6 DEF ManifestOf
    <3>3. PICK a, b, c : a = m.name /\ b = m.size /\ c = m.chunkSize
      OBVIOUS
    <3>4. PICK x, y, z : x = p.ids /\ y = p.key /\ z = m.key
      OBVIOUS
    <3>5. Fields(p, a, b, c, x, y) /\ Fields(m, a, b, c, Ids(n), z)
      BY <3>1, <3>2, <3>3, <3>4 DEF Fields
    <3>6. Fields(Stripped(p), a, b, c, <<>>, NoKey) /\ Fields(Stripped(m), a, b, c, <<>>, NoKey)
      BY <3>5, FieldsReplaced
    <3>7. Stripped(p) = Stripped(m)
      BY <3>6, Zenon DEF Fields
    <3> QED
      BY <3>7, Zenon DEF Stripped
  <2>8. m.ids = Ids(n)
    BY <2>6 DEF ManifestOf
  <2>9. p.ids \in Seq(Tokens) /\ Len(p.ids) = n /\ \A j \in 1 .. n - 1 : p.ids[j] = Id(j)
    BY <2>6 DEF Faithful
  <2>10. m.ids \in Seq(Tokens) /\ Len(m.ids) = n /\ \A j \in 1 .. n : m.ids[j] = Id(j)
    <3>1. Ids(n) \in [1 .. n -> Tokens]
      BY TokenFacts DEF Ids
    <3>2. \A j \in 1 .. n : Ids(n)[j] = Id(j)
      BY DEF Ids
    <3> QED
      BY <2>8, <3>1, <3>2
  <2>11. PICK a : a = <<NoKey>> \o p.ids
    OBVIOUS
  <2>12. PICK b : b = <<NoKey>> \o m.ids
    OBVIOUS
  <2>13. <<NoKey>> \in Seq(Tokens) /\ Len(<<NoKey>>) = 1
    BY TokenFacts
  <2>14. a \in Seq(Tokens) /\ Parts(a, <<NoKey>>, 1, p.ids, n)
    <3>1. /\ <<NoKey>> \o p.ids \in Seq(Tokens)
          /\ Parts(<<NoKey>> \o p.ids, <<NoKey>>, 1, p.ids, n)
      BY <2>9, <2>13, ConcatAt
    <3> QED
      BY <2>11, <3>1
  <2>15. b \in Seq(Tokens) /\ Parts(b, <<NoKey>>, 1, m.ids, n)
    <3>1. /\ <<NoKey>> \o m.ids \in Seq(Tokens)
          /\ Parts(<<NoKey>> \o m.ids, <<NoKey>>, 1, m.ids, n)
      BY <2>10, <2>13, ConcatAt
    <3> QED
      BY <2>12, <3>1
  <2>16. Len(a) = n + 1 /\ Len(b) = n + 1
    BY <2>14, <2>15 DEF Parts
  <2>17. ASSUME NEW j \in 1 .. n
         PROVE  a[j] = b[j]
    <3>1. CASE j = 1
      BY <2>14, <2>15, <3>1 DEF Parts
    <3>2. CASE j # 1
      <4>1. PICK k \in 1 .. n - 1 : j = 1 + k
        <5>1. j - 1 \in 1 .. n - 1 /\ j = 1 + (j - 1)
          BY <3>2
        <5> QED
          BY <5>1
      <4>2. k \in 1 .. n /\ p.ids[k] = m.ids[k]
        BY <2>9, <2>10
      <4>3. a[1 + k] = p.ids[k] /\ b[1 + k] = m.ids[k]
        BY <2>14, <2>15, <4>2 DEF Parts
      <4> QED
        BY <4>1, <4>2, <4>3
    <3> QED
      BY <3>1, <3>2
  <2>18. Front(a) = Front(b)
    <3>1. Front(a) = SubSeq(a, 1, n) /\ Front(b) = SubSeq(b, 1, n)
      BY <2>16 DEF Front
    <3>2. n <= Len(a) /\ n <= Len(b)
      BY <2>16
    <3>3. PICK c : c = SubSeq(a, 1, n)
      OBVIOUS
    <3>4. PICK d : d = SubSeq(b, 1, n)
      OBVIOUS
    <3>5. c \in Seq(Tokens) /\ Len(c) = n /\ \A j \in 1 .. n : c[j] = a[j]
      BY <2>14, <3>2, <3>3, InitialPart
    <3>6. d \in Seq(Tokens) /\ Len(d) = n /\ \A j \in 1 .. n : d[j] = b[j]
      BY <2>15, <3>2, <3>4, InitialPart
    <3>7. c = d
      BY <2>17, <3>5, <3>6, SeqEqual
    <3> QED
      BY <3>1, <3>3, <3>4, <3>7
  <2>19. p.key \in {m.key, Shorter(m.key), NoKey}
    BY <2>6 DEF Faithful
  <2> QED
    BY <2>1, <2>3, <2>4, <2>7, <2>9, <2>10, <2>11, <2>12, <2>18, <2>19
<1> QED
  BY <1>1, Invariance, PTL

\* DownloadIsUpload: getFile that returns has written the blocks of putFile, though
\* its manifest may have lost its last id, its key, or the line that says it has
\* one; on a full disk, of which it does not learn, a beginning of them.
THEOREM DownloadCorrect == Spec => []DownloadIsUpload
<1>1. IInv => DownloadIsUpload
  <2> SUFFICES ASSUME IInv, pc = "done", ~Misleading
               PROVE  /\ IsPrefix(out, FlattenSeq(blocks))
                      /\ stream = "good" => out = FlattenSeq(blocks)
    BY DEF DownloadIsUpload
  <2>1. /\ Begins(out, FlattenSeq(SubSeq(blocks, 1, Len(blocks))))
        /\ stream = "good" => out = FlattenSeq(SubSeq(blocks, 1, Len(blocks)))
    BY DEF IInv, Outputs
  <2>2. blocks \in Seq(Seq(Bytes))
    BY DEF IInv, Consecutive
  <2>3. SubSeq(blocks, 1, Len(blocks)) = blocks
    BY <2>2, SubSeqFull
  <2>4. PICK t \in Seq(Bytes) : t = FlattenSeq(blocks)
    BY DEF IInv, Consecutive, InPlace
  <2>5. PICK n \in 0 .. Len(t) : out = SubSeq(t, 1, n)
    BY <2>1, <2>3, <2>4 DEF Begins
  <2>6. out \in Seq(Bytes) /\ Len(out) = n
    <3>1. n \in Nat /\ n <= Len(t)
      BY <2>4, <2>5, LenProperties
    <3> QED
      BY <2>5, <3>1, InitialPart
  <2>7. SubSeq(out, 1, Len(out)) = out
    BY <2>6, SubSeqFull
  <2>8. IsPrefix(out, t)
    BY <2>5, <2>6, <2>7 DEF IsPrefix
  <2> QED
    BY <2>1, <2>3, <2>4, <2>8
<1> QED
  BY <1>1, Invariance, PTL

=============================================================================
