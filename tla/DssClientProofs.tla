-------------------------- MODULE DssClientProofs ---------------------------
(***************************************************************************)
(* Theorems about DssClient, for any numbers of clients, peers, files and  *)
(* replicas, whatever the content of the files and the placement.          *)
(***************************************************************************)
EXTENDS DssClient, InductionLemmas, SequenceTheorems

-----------------------------------------------------------------------------
(* Targets and candidates.                                                 *)

\* The placement of a block or of a manifest.
Placements == {NearBlock[b] : b \in Blocks} \cup {NearManifest[m] : m \in Manifests}

LEMMA PlacementType ==
  ASSUME NEW near \in Placements
  PROVE  near \in Seq(Peers) /\ Len(near) = Len(PeerList)
BY NetAssumption DEF Placements

\* dht.store returns as many peers as replicas are wanted, the nearest first.
LEMMA TargetsFacts ==
  ASSUME NEW near \in Placements
  PROVE  /\ Targets(near) \in Seq(Peers)
         /\ Len(Targets(near)) = Replicas
         /\ Targets(near) # <<>>
         /\ \A j \in 1 .. Replicas :
              Targets(near)[j] = near[j] /\ near[j] \in Range(Targets(near))
<1>1. near \in Seq(Peers) /\ Replicas \in 1 .. Len(near)
  BY PlacementType, NetAssumption
<1>2. /\ Targets(near) \in Seq(Peers)
      /\ Len(Targets(near)) = Replicas
      /\ \A j \in 1 .. Replicas : Targets(near)[j] = near[j]
  BY <1>1 DEF Targets
<1>3. DOMAIN Targets(near) = 1 .. Replicas
  BY <1>2
<1>4. Targets(near) # <<>>
  BY <1>1, <1>2
<1> QED
  BY <1>2, <1>3, <1>4 DEF Range

\* The other peers of the list, however many there are, are peers.
LEMMA OthersType ==
  ASSUME NEW t
  PROVE  LET Others[n \in 0 .. Len(PeerList)] ==
               IF n = 0 THEN <<>>
               ELSE IF PeerList[n] \in Range(t) THEN Others[n - 1]
               ELSE Append(Others[n - 1], PeerList[n])
         IN  Others[Len(PeerList)] \in Seq(Peers)
<1> DEFINE L == Len(PeerList)
           Others[n \in 0 .. L] ==
               IF n = 0 THEN <<>>
               ELSE IF PeerList[n] \in Range(t) THEN Others[n - 1]
               ELSE Append(Others[n - 1], PeerList[n])
           Rhs(f) == [n \in 0 .. L |->
               IF n = 0 THEN <<>>
               ELSE IF PeerList[n] \in Range(t) THEN f[n - 1]
               ELSE Append(f[n - 1], PeerList[n])]
           G == [x \in Nat \X Seq(Peers) |->
                   IF x[1] + 1 > L \/ PeerList[x[1] + 1] \in Range(t) THEN x[2]
                   ELSE Append(x[2], PeerList[x[1] + 1])]
<1>1. L \in Nat /\ \A n \in 1 .. L : PeerList[n] \in Peers
  BY NetAssumption
<1>2. IsStep(G, Seq(Peers))
  BY <1>1 DEF IsStep
<1>10. PICK g : Recurses(g, Seq(Peers), <<>>, G)
  <2> <<>> \in Seq(Peers)
    OBVIOUS
  <2> HIDE DEF G
  <2> QED
    BY <1>2, PrimitiveRecursion
<1>3. /\ g \in [Nat -> Seq(Peers)]
      /\ g[0] = <<>>
      /\ \A n \in Nat : g[n + 1] = G[<<n, g[n]>>]
  BY <1>10 DEF Recurses
<1> DEFINE h == [n \in 0 .. L |-> g[n]]
<1>4. h = Rhs(h)
  <2>1. ASSUME NEW n \in 0 .. L
        PROVE  g[n] = Rhs(h)[n]
    <3>1. CASE n = 0
      BY <1>3, <3>1
    <3>2. CASE n # 0
      <4>1. n - 1 \in Nat /\ n - 1 \in 0 .. L /\ (n - 1) + 1 = n /\ ~ (n > L)
        BY <1>1, <3>2
      <4>2. g[n] = G[<<n - 1, g[n - 1]>>]
        BY <1>3, <4>1
      <4>3. G[<<n - 1, g[n - 1]>>] = IF PeerList[n] \in Range(t) THEN g[n - 1]
                                     ELSE Append(g[n - 1], PeerList[n])
        <5>1. <<n - 1, g[n - 1]>> \in Nat \X Seq(Peers)
          BY <1>3, <4>1
        <5> QED
          BY <4>1, <5>1
      <4> QED
        BY <3>2, <4>1, <4>2, <4>3
    <3> QED
      BY <3>1, <3>2
  <2> QED
    BY <2>1
<1>5. Others = Rhs(Others)
  <2> HIDE DEF h
  <2> QED
    BY <1>4, Zenon
<1> HIDE DEF Others
<1> DEFINE T == {n \in Nat : n <= L => Others[n] \in Seq(Peers)}
<1>6. 0 \in T
  <2>1. Others[0] = <<>>
    BY <1>1, <1>5
  <2>2. <<>> \in Seq(Peers)
    OBVIOUS
  <2> QED
    BY <2>1, <2>2, 0 \in Nat, Zenon
<1>7. ASSUME NEW n \in Nat, n \in T
      PROVE  n + 1 \in T
  <2>1. CASE n + 1 <= L
    <3>1. n + 1 \in 0 .. L /\ n \in 0 .. L /\ n + 1 # 0 /\ (n + 1) - 1 = n
      BY <1>1, <2>1
    <3>2. Others[n + 1] = IF PeerList[n + 1] \in Range(t) THEN Others[n]
                          ELSE Append(Others[n], PeerList[n + 1])
      BY <1>5, <3>1
    <3>3. Others[n] \in Seq(Peers) /\ PeerList[n + 1] \in Peers
      BY <1>1, <1>7, <2>1
    <3>4. Append(Others[n], PeerList[n + 1]) \in Seq(Peers)
      BY <3>3, AppendProperties
    <3>5. Others[n + 1] \in Seq(Peers)
      BY <3>2, <3>3, <3>4, Zenon
    <3> QED
      BY <3>5, n + 1 \in Nat, Zenon
  <2> QED
    BY <2>1
<1>8. Nat \subseteq T
  <2> HIDE DEF T
  <2> QED
    BY <1>6, <1>7, SetInduction
<1>9. Others[L] \in Seq(Peers)
  BY <1>1, <1>8
<1> QED
  BY <1>9, Zenon DEF Others

\* getFile asks all targets, the nearest first, before other peers.
LEMMA CandidatesFacts ==
  ASSUME NEW near \in Placements
  PROVE  /\ Candidates(near) \in Seq(Peers)
         /\ Candidates(near) # <<>>
         /\ \A j \in 1 .. Replicas : near[j] \in Range(Candidates(near))
<1> DEFINE t == Targets(near)
           Others[n \in 0 .. Len(PeerList)] ==
               IF n = 0 THEN <<>>
               ELSE IF PeerList[n] \in Range(t) THEN Others[n - 1]
               ELSE Append(Others[n - 1], PeerList[n])
           o == Others[Len(PeerList)]
<1>1. Candidates(near) = t \o o
  BY Zenon DEF Candidates
<1>2. o \in Seq(Peers)
  BY OthersType, Zenon
<1>3. /\ t \in Seq(Peers) /\ Len(t) = Replicas
      /\ \A j \in 1 .. Replicas : t[j] = near[j]
  BY TargetsFacts
<1>4. Replicas \in Nat \ {0}
  BY NetAssumption
<1> HIDE DEF t, o
<1>5. /\ t \o o \in Seq(Peers)
      /\ DOMAIN (t \o o) = 1 .. Replicas + Len(o)
      /\ \A j \in 1 .. Replicas : (t \o o)[j] = near[j]
  BY <1>2, <1>3, <1>4
<1>6. \A j \in 1 .. Replicas : j \in DOMAIN (t \o o)
  BY <1>2, <1>4, <1>5
<1>7. t \o o # <<>>
  BY <1>2, <1>3, <1>4
<1> QED
  BY <1>1, <1>5, <1>6, <1>7 DEF Range

-----------------------------------------------------------------------------
(* What putFile and getFile do with their state.                           *)

\* The state of one client is well formed and its output is right.
SoFar(s) ==
  s.op = "get" =>
    /\ Len(s.out) <= Len(Content[s.file])
    /\ s.out = SubSeq(Content[s.file], 1, Len(s.out))
    /\ s.stream = "good" => Len(s.out) = IF s.i = 0 THEN 0 ELSE s.i - 1
    /\ s.stream = "good" /\ s.pc = "done" => s.out = Content[s.file]

Fine(s) ==
  /\ s \in ClientStates
  /\ s.pc \in Busy \ {"local"} => s.todo # <<>>
  /\ Located(s)
  /\ SoFar(s)

LEMMA ContentType ==
  ASSUME NEW f \in Files
  PROVE  /\ Content[f] \in Seq(Blocks)
         /\ Len(Content[f]) \in Nat
         /\ \A i \in 1 .. Len(Content[f]) :
              Content[f][i] \in Blocks /\ NearBlock[Content[f][i]] \in Placements
<1>1. Content[f] \in Seq(Blocks)
  BY NetAssumption
<1> QED
  BY <1>1 DEF Placements

LEMMA ManifestType ==
  ASSUME NEW s \in ClientStates
  PROVE  /\ Manifest(s.file, s.key) \in Manifests
         /\ NearManifest[Manifest(s.file, s.key)] \in Placements
BY NetAssumption DEF ClientStates, Manifest, Manifests, Placements

\* A client's state is a record of eleven fields.
Rec(op, pc, file, key, i, todo, missing, already, out, stream, failed) ==
  [op |-> op, pc |-> pc, file |-> file, key |-> key, i |-> i, todo |-> todo,
   missing |-> missing, already |-> already, out |-> out, stream |-> stream,
   failed |-> failed]

Fields(s) ==
  /\ s.op \in {"none", "put", "get"}
  /\ s.pc \in Busy \cup {"idle", "done", "failed", "refused"}
  /\ s.file \in Files /\ s.key \in 0 .. MaxOps /\ s.i \in Nat
  /\ s.todo \in Seq(Peers) /\ s.missing \in Seq(Peers)
  /\ s.already \in Nat /\ s.out \in Seq(Blocks \cup {Damaged})
  /\ s.stream \in {"good", "bad"} /\ s.failed \in SUBSET Peers

LEMMA FieldTypes ==
  ASSUME NEW s \in ClientStates
  PROVE  Fields(s)
BY DEF Fields, ClientStates

\* The state in which putFile comes to chunk i, or to the manifest.
LEMMA UploadFromFields ==
  ASSUME NEW s \in ClientStates, NEW i \in 1 .. Len(Content[s.file]) + 1,
         NEW t, t = UploadFrom(s, i)
  PROVE  /\ t \in ClientStates
         /\ t.op = s.op /\ t.file = s.file /\ t.key = s.key /\ t.i = i
         /\ t.missing = <<>> /\ t.already = 0
         /\ t.todo # <<>>
         /\ \/ /\ i = Len(Content[s.file]) + 1
               /\ t.pc = "manifest"
               /\ t.todo = Targets(NearManifest[Manifest(s.file, s.key)])
            \/ /\ i \in 1 .. Len(Content[s.file])
               /\ t.pc = IF s.key = 0 THEN "has" ELSE "put"
               /\ t.todo = Targets(NearBlock[Content[s.file][i]])
<1>0. Fields(s) /\ s.file \in Files
  BY FieldTypes DEF Fields
<1>1. s.file \in Files
  BY <1>0
<1>2. Len(Content[s.file]) \in Nat /\ i \in Nat
  BY <1>1, ContentType
<1>3. CASE i > Len(Content[s.file])
  <2> DEFINE todo == Targets(NearManifest[Manifest(s.file, s.key)])
  <2>1. todo \in Seq(Peers) /\ todo # <<>>
    BY ManifestType, TargetsFacts
  <2>2. t = Rec(s.op, "manifest", s.file, s.key, i, todo, <<>>, 0, s.out,
                s.stream, s.failed)
    BY <1>3 DEF UploadFrom, ClientStates, Rec
  <2> HIDE DEF todo
  <2>3. i = Len(Content[s.file]) + 1
    BY <1>2, <1>3
  <2>4. /\ t \in ClientStates
        /\ t.op = s.op /\ t.file = s.file /\ t.key = s.key /\ t.i = i
        /\ t.missing = <<>> /\ t.already = 0 /\ t.todo = todo
        /\ t.pc = "manifest"
    <3>1. t \in ClientStates
      BY <1>2, <2>1, <2>2, <1>0 DEF Busy, Fields, Rec, ClientStates
    <3> QED
      BY <2>2, <3>1 DEF Rec
  <2> QED
    BY <2>1, <2>3, <2>4 DEF todo
<1>4. CASE ~ (i > Len(Content[s.file]))
  <2> DEFINE todo == Targets(NearBlock[Content[s.file][i]])
             pc == IF s.key = 0 THEN "has" ELSE "put"
  <2>0. i \in 1 .. Len(Content[s.file])
    BY <1>2, <1>4
  <2>1. todo \in Seq(Peers) /\ todo # <<>>
    BY <1>1, <2>0, ContentType, TargetsFacts
  <2>2. t = Rec(s.op, pc, s.file, s.key, i, todo, <<>>, 0, s.out, s.stream,
                s.failed)
    BY <1>4 DEF UploadFrom, ClientStates, Rec
  <2>3. pc \in Busy
    BY DEF Busy
  <2> HIDE DEF todo, pc
  <2>4. /\ t \in ClientStates
        /\ t.op = s.op /\ t.file = s.file /\ t.key = s.key /\ t.i = i
        /\ t.missing = <<>> /\ t.already = 0 /\ t.todo = todo
        /\ t.pc = pc
    <3>1. t \in ClientStates
      BY <1>2, <2>1, <2>2, <2>3, <1>0 DEF Fields, Rec, ClientStates
    <3> QED
      BY <2>2, <3>1 DEF Rec
  <2> QED
    BY <2>0, <2>1, <2>4 DEF todo, pc
<1> QED
  BY <1>3, <1>4

\* The state in which getFile comes to chunk i, or to its end.
LEMMA DownloadFromFields ==
  ASSUME NEW s \in ClientStates, NEW i \in 1 .. Len(Content[s.file]) + 1,
         NEW t, t = DownloadFrom(s, i)
  PROVE  /\ t \in ClientStates
         /\ t.op = s.op /\ t.file = s.file /\ t.key = s.key /\ t.i = i
         /\ t.out = s.out /\ t.stream = s.stream
         /\ \/ /\ i = Len(Content[s.file]) + 1
               /\ t.pc = "done"
            \/ /\ i \in 1 .. Len(Content[s.file])
               /\ t.pc = "fetch"
               /\ t.failed = {}
               /\ t.todo # <<>>
               /\ t.todo = Candidates(NearBlock[Content[s.file][i]])
<1>0. Fields(s) /\ s.file \in Files
  BY FieldTypes DEF Fields
<1>1. s.file \in Files
  BY <1>0
<1>2. Len(Content[s.file]) \in Nat /\ i \in Nat
  BY <1>1, ContentType
<1>3. CASE i > Len(Content[s.file])
  <2>1. t = Rec(s.op, "done", s.file, s.key, i, s.todo, s.missing, s.already,
                s.out, s.stream, s.failed)
    BY <1>3 DEF DownloadFrom, ClientStates, Rec
  <2>2. t \in ClientStates
    BY <1>2, <2>1, <1>0 DEF Fields, Rec, ClientStates
  <2>3. i = Len(Content[s.file]) + 1
    BY <1>2, <1>3
  <2> QED
    BY <2>1, <2>2, <2>3 DEF Rec
<1>4. CASE ~ (i > Len(Content[s.file]))
  <2> DEFINE todo == Candidates(NearBlock[Content[s.file][i]])
  <2>0. i \in 1 .. Len(Content[s.file])
    BY <1>2, <1>4
  <2>1. todo \in Seq(Peers) /\ todo # <<>>
    BY <1>1, <2>0, ContentType, CandidatesFacts
  <2>2. t = [s EXCEPT !.i = i, !.pc = "fetch", !.failed = {}, !.todo = todo]
    BY <1>4 DEF DownloadFrom
  <2> HIDE DEF todo
  <2>4. /\ t \in ClientStates
        /\ t.op = s.op /\ t.file = s.file /\ t.key = s.key /\ t.i = i
        /\ t.out = s.out /\ t.stream = s.stream /\ t.pc = "fetch" /\ t.failed = {} /\ t.todo = todo
    BY <1>2, <2>1, <2>2 DEF ClientStates, Busy
  <2> QED
    BY <2>0, <2>1, <2>4 DEF todo
<1> QED
  BY <1>3, <1>4

\* putFile goes on with chunk i.
LEMMA UploadFromFine ==
  ASSUME NEW s \in ClientStates, s.op = "put",
         NEW i \in 1 .. Len(Content[s.file]) + 1
  PROVE  Fine(UploadFrom(s, i))
<1> DEFINE t == UploadFrom(s, i)
<1>1. /\ t \in ClientStates /\ t.op = "put" /\ t.file = s.file /\ t.i = i
      /\ t.todo # <<>>
      /\ \/ i = Len(Content[s.file]) + 1 /\ t.pc = "manifest"
         \/ i \in 1 .. Len(Content[s.file]) /\ t.pc \in {"has", "put"}
  BY UploadFromFields
<1> HIDE DEF t
<1>2. Fine(t)
  BY <1>1 DEF Fine, Located, SoFar
<1> QED
  BY <1>2 DEF t

\* putFile goes on once a target was asked.
LEMMA AfterAskingFine ==
  ASSUME NEW s \in ClientStates, s.op = "put", s.pc = "has",
         s.i \in 1 .. Len(Content[s.file])
  PROVE  Fine(AfterAsking(s))
<1> DEFINE n == IF Needed(s) < Len(s.missing) THEN Needed(s) ELSE Len(s.missing)
<1>0. Fields(s)
  BY FieldTypes
<1>1. /\ Fields(s)
      /\ Len(s.missing) \in Nat /\ Needed(s) \in Int /\ s.i \in Nat
  BY <1>0, NetAssumption, SMTT(30) DEF Fields, Needed
<1>2. Len(Content[s.file]) \in Nat
  BY <1>1, ContentType DEF Fields
<1>3. CASE s.todo # <<>>
  <2>1. AfterAsking(s) = s
    BY <1>3 DEF AfterAsking
  <2>2. Fine(s)
    BY <1>3 DEF Fine, Located, SoFar
  <2> QED
    BY <2>1, <2>2
<1>4. CASE s.todo = <<>> /\ n <= 0
  <2>1. AfterAsking(s) = UploadFrom(s, s.i + 1)
    BY <1>4 DEF AfterAsking
  <2>2. s.i + 1 \in 1 .. Len(Content[s.file]) + 1
    BY <1>1, <1>2
  <2> QED
    BY <2>1, <2>2, UploadFromFine
<1>5. CASE s.todo = <<>> /\ ~ (n <= 0)
  <2> DEFINE t == AfterAsking(s)
             todo == SubSeq(s.missing, 1, n)
  <2>1. n \in 1 .. Len(s.missing)
    BY <1>1, <1>5
  <2>2. t = Rec(s.op, "put", s.file, s.key, s.i, todo, s.missing, s.already,
                s.out, s.stream, s.failed)
    BY <1>5 DEF AfterAsking, ClientStates, Rec
  <2> HIDE DEF n
  <2>3. todo \in Seq(Peers) /\ todo # <<>>
    BY <1>1, <2>1 DEF Fields
  <2> HIDE DEF t, todo
  <2>4. t \in ClientStates
    BY <1>1, <2>2, <2>3 DEF Busy, Fields, Rec, ClientStates
  <2>5. Fine(t)
    BY <2>2, <2>3, <2>4 DEF Rec, Fine, Located, SoFar
  <2> QED
    BY <2>5 DEF t
<1> QED
  BY <1>1, <1>3, <1>4, <1>5

\* getFile goes on with chunk i when it has written those before.
LEMMA DownloadFromFine ==
  ASSUME NEW s \in ClientStates, s.op = "get",
         NEW i \in 1 .. Len(Content[s.file]) + 1,
         Len(s.out) <= Len(Content[s.file]),
         s.out = SubSeq(Content[s.file], 1, Len(s.out)),
         s.stream = "good" => Len(s.out) = i - 1
  PROVE  Fine(DownloadFrom(s, i))
<1>0. PICK t : t = DownloadFrom(s, i)
  OBVIOUS
<1>1. /\ t \in ClientStates /\ t.op = "get" /\ t.file = s.file /\ t.i = i
      /\ t.out = s.out /\ t.stream = s.stream
      /\ \/ i = Len(Content[s.file]) + 1 /\ t.pc = "done"
         \/ i \in 1 .. Len(Content[s.file]) /\ t.pc = "fetch" /\ t.todo # <<>>
  BY <1>0, DownloadFromFields
<1>2. Content[s.file] \in Seq(Blocks) /\ Len(Content[s.file]) \in Nat
  BY FieldTypes, ContentType DEF Fields
<1>3. s.stream = "good" /\ i = Len(Content[s.file]) + 1 => s.out = Content[s.file]
  <2>1. SubSeq(Content[s.file], 1, Len(Content[s.file])) = Content[s.file]
    BY <1>2, SubSeqFull
  <2> QED
    BY <1>2, <2>1
<1>4. i \in Nat \ {0}
  BY <1>2
<1>5. SoFar(t)
  BY <1>1, <1>2, <1>3, <1>4 DEF SoFar
<1>6. Located(t)
  BY <1>1, <1>2 DEF Located
<1>7. Fine(t)
  BY <1>1, <1>5, <1>6 DEF Fine, Busy
<1> QED
  BY <1>0, <1>7

\* getFile has written nothing yet.
Fresh(s) == s.op = "get" /\ s.i = 0 /\ s.out = <<>> /\ s.stream = "good"

\* A download that has not begun is well formed wherever it stops.
LEMMA FreshFine ==
  ASSUME NEW s \in ClientStates, Fresh(s), s.pc = "refused"
  PROVE  Fine(s)
<1>1. Content[s.file] \in Seq(Blocks) /\ Len(Content[s.file]) \in Nat
  BY FieldTypes, ContentType DEF Fields
<1>2. SubSeq(Content[s.file], 1, 0) = <<>> /\ Len(s.out) = 0
  BY <1>1, SubSeqEmpty DEF Fresh
<1> QED
  BY <1>1, <1>2 DEF Fresh, Fine, Located, SoFar, Busy

\* getFile has the manifest m.
LEMMA WithManifestFine ==
  ASSUME NEW c, NEW s \in ClientStates, Fresh(s),
         NEW m \in Manifests, WithManifest(c, s, m)
  PROVE  \E t : Fine(t) /\ Become(c, t)
<1> DEFINE f == m.file
           k == m.key
<1>0. PICK t, r : t = [s EXCEPT !.file = f, !.key = k]
                  /\ r = [t EXCEPT !.pc = "refused"]
  OBVIOUS
<1>1. f \in Files /\ k \in 0 .. MaxOps
  BY DEF Manifests
<1>2. Become(c, r) \/ Become(c, DownloadFrom(t, 1))
  BY <1>0 DEF WithManifest
<1> HIDE DEF f, k
<1>3. /\ t \in ClientStates /\ r \in ClientStates
      /\ Fresh(t) /\ Fresh(r) /\ r.pc = "refused" /\ t.file = f
  BY <1>0, <1>1 DEF ClientStates, Fresh
<1>4. Content[f] \in Seq(Blocks) /\ Len(Content[f]) \in Nat
  BY <1>1, ContentType
<1>5. SubSeq(Content[f], 1, 0) = <<>>
  BY <1>4, SubSeqEmpty
<1>6. Fine(r)
  BY <1>3, FreshFine
<1>7. Fine(DownloadFrom(t, 1))
  <2>1. 1 \in 1 .. Len(Content[t.file]) + 1
    BY <1>3, <1>4
  <2>2. Len(t.out) = 0 /\ t.op = "get" /\ t.out = <<>>
    BY <1>3 DEF Fresh
  <2>3. t.out = SubSeq(Content[t.file], 1, Len(t.out))
    BY <1>3, <1>5, <2>2
  <2>4. Len(t.out) <= Len(Content[t.file]) /\ Len(t.out) = 1 - 1
    BY <1>3, <1>4, <2>2
  <2> QED
    BY <1>3, <2>1, <2>2, <2>3, <2>4, DownloadFromFine
<1> QED
  BY <1>2, <1>6, <1>7

\* Abort and Skip leave the output alone.
LEMMA AbortFine ==
  ASSUME NEW s, Fine(s)
  PROVE  Fine(Abort(s))
<1> DEFINE t == Abort(s)
<1>1. s \in ClientStates
  BY DEF Fine
<1>2. /\ t \in ClientStates /\ t.op = s.op /\ t.file = s.file /\ t.i = s.i
      /\ t.out = s.out /\ t.stream = s.stream /\ t.pc = "failed"
  BY <1>1 DEF Abort, ClientStates
<1>3. SoFar(s)
  BY DEF Fine
<1> HIDE DEF t
<1>4. Fine(t)
  BY <1>2, <1>3 DEF Fine, Located, SoFar, Busy
<1> QED
  BY <1>4 DEF t

LEMMA SkipFine ==
  ASSUME NEW s, Fine(s), s.pc \in {"find", "fetch"}, NEW p \in Peers, NEW u \in BOOLEAN
  PROVE  Fine(Skip(s, p, u))
<1> DEFINE failed == IF u THEN s.failed \cup {p} ELSE s.failed
           todo == Tail(s.todo)
           t == [s EXCEPT !.todo = todo, !.failed = failed]
<1>1. s \in ClientStates /\ s.todo # <<>> /\ Located(s) /\ SoFar(s)
  BY DEF Fine, Busy
<1>2. todo \in Seq(Peers) /\ failed \in SUBSET Peers
  <2>1. Fields(s)
    BY <1>1, FieldTypes
  <2> QED
    BY <1>1, <2>1 DEF Fields
<1>3. Skip(s, p, u) = IF t.todo = <<>> THEN Abort(t) ELSE t
  BY DEF Skip
<1> HIDE DEF failed, todo
<1>4. /\ t \in ClientStates /\ t.op = s.op /\ t.file = s.file /\ t.i = s.i
      /\ t.out = s.out /\ t.stream = s.stream /\ t.pc = s.pc /\ t.todo = todo
  BY <1>1, <1>2 DEF ClientStates
<1> HIDE DEF t
<1>5. Located(t) /\ SoFar(t)
  BY <1>1, <1>4 DEF Located, SoFar
<1>6. CASE todo # <<>>
  <2>1. Fine(t)
    BY <1>4, <1>5, <1>6 DEF Fine
  <2> QED
    BY <1>3, <1>4, <1>6, <2>1
<1>7. CASE todo = <<>>
  <2> DEFINE r == Abort(t)
  <2>1. /\ r \in ClientStates /\ r.op = t.op /\ r.file = t.file /\ r.i = t.i
        /\ r.out = t.out /\ r.stream = t.stream /\ r.pc = "failed"
    BY <1>4 DEF Abort, ClientStates
  <2> HIDE DEF r
  <2>2. Fine(r)
    BY <1>5, <2>1 DEF Fine, Located, SoFar, Busy
  <2> QED
    BY <1>3, <1>4, <1>7, <2>2 DEF r
<1> QED
  BY <1>6, <1>7

-----------------------------------------------------------------------------
(* Types, and what a download has written.                                 *)

\* The variables that are not a client's own.
NetType ==
  /\ up \subseteq Peers
  /\ chunks \in [Peers -> [Blocks -> Blobs \cup {Nothing, Damaged}]]
  /\ manifests \in [Peers -> SUBSET Manifests]
  /\ local \in [Clients -> [Files -> Manifests \cup {Nothing}]]
  /\ keys \in 0 .. ops
  /\ returned \subseteq Manifests
  /\ ops \in 0 .. MaxOps
  /\ broken \in 0 .. MaxBroken
  /\ losses \in 0 .. MaxLosses

ClientsFine == cl \in [Clients -> ClientStates] /\ \A c \in Clients : Fine(cl[c])

Sound == NetType /\ ClientsFine

\* Sound is the first part of IInv.
LEMMA SoundIs ==
  Sound <=> TypeOK /\ (\A c \in Clients : Located(cl[c])) /\ DownloadIsFile
<1>1. DownloadIsFile <=> \A c \in Clients : SoFar(cl[c])
  BY Zenon DEF DownloadIsFile, SoFar
<1>2. TypeOK <=> /\ NetType
                 /\ cl \in [Clients -> ClientStates]
                 /\ \A c \in Clients :
                      cl[c].pc \in Busy \ {"local"} => cl[c].todo # <<>>
  BY Zenon DEF TypeOK, NetType
<1>3. cl \in [Clients -> ClientStates] => \A c \in Clients : cl[c] \in ClientStates
  OBVIOUS
<1> QED
  BY <1>1, <1>2, <1>3, Zenon DEF Sound, ClientsFine, Fine

LEMMA BecomeFine ==
  ASSUME ClientsFine, NEW c \in Clients, NEW t, Fine(t), Become(c, t)
  PROVE  ClientsFine'
<1>1. t \in ClientStates
  BY DEF Fine
<1>2. cl' \in [Clients -> ClientStates]
  BY <1>1 DEF ClientsFine, Become
<1>3. ASSUME NEW d \in Clients
      PROVE  Fine(cl'[d])
  <2>1. cl'[d] = IF d = c THEN t ELSE cl[d]
    BY DEF ClientsFine, Become
  <2> QED
    BY <2>1 DEF ClientsFine
<1> QED
  BY <1>2, <1>3 DEF ClientsFine

LEMMA IdleType == Idle \in ClientStates
<1>1. (CHOOSE f \in Files : TRUE) \in Files
  BY NetAssumption
<1> DEFINE f0 == CHOOSE f \in Files : TRUE
<1> HIDE DEF f0
<1>2. f0 \in Files
  BY <1>1, Zenon DEF f0
<1>3. [op |-> "none", pc |-> "idle", file |-> f0,
       key |-> 0, i |-> 0, todo |-> <<>>, missing |-> <<>>, already |-> 0,
       out |-> <<>>, stream |-> "good", failed |-> {}] \in ClientStates
  BY <1>2, NetAssumption DEF ClientStates
<1> QED
  BY <1>3, Zenon DEF Idle, f0

LEMMA InitSound == Init => Sound
<1> SUFFICES ASSUME Init
             PROVE  Sound
  OBVIOUS
<1>1. NetType
  BY NetAssumption DEF Init, NetType
<1>2. Fine(Idle)
  BY IdleType DEF Fine, Idle, Located, SoFar, Busy
<1>3. cl \in [Clients -> ClientStates] /\ \A c \in Clients : cl[c] = Idle
  BY IdleType DEF Init
<1> QED
  BY <1>1, <1>2, <1>3 DEF Sound, ClientsFine

LEMMA BreakType ==
  ASSUME NetType, UNCHANGED broken \/ Break
  PROVE  broken' \in 0 .. MaxBroken
BY NetAssumption DEF NetType, Break

LEMMA LoseType ==
  ASSUME NetType, UNCHANGED losses \/ Lose
  PROVE  losses' \in 0 .. MaxLosses
BY NetAssumption DEF NetType, Lose

LEMMA PutFileSound ==
  ASSUME Sound, NEW c \in Clients, NEW f \in Files, PutFile(c, f)
  PROVE  Sound'
<1> DEFINE k == IF c \in Encrypting THEN keys + 1 ELSE 0
           s == [Idle EXCEPT !.op = "put", !.file = f, !.key = k]
<1>1. k \in 0 .. MaxOps /\ k \in 0 .. ops + 1
  BY NetAssumption, SMTT(30) DEF Sound, NetType, PutFile
<1>2. NetType'
  <2>1. UNCHANGED <<up, chunks, manifests, local, returned, broken, losses>>
    BY DEF PutFile, net
  <2>2. ops' \in 0 .. MaxOps /\ keys' \in 0 .. ops'
    BY <1>1, NetAssumption, SMTT(30) DEF Sound, NetType, PutFile
  <2> QED
    BY <2>1, <2>2 DEF Sound, NetType
<1>3. Become(c, UploadFrom(s, 1))
  BY DEF PutFile
<1> HIDE DEF k
<1>4. s \in ClientStates /\ s.op = "put" /\ s.file = f
  BY <1>1, IdleType DEF ClientStates
<1> HIDE DEF s
<1>5. 1 \in 1 .. Len(Content[s.file]) + 1
  BY <1>4, ContentType
<1>6. Fine(UploadFrom(s, 1))
  BY <1>4, <1>5, UploadFromFine
<1> QED
  BY <1>2, <1>3, <1>6, BecomeFine DEF Sound

LEMMA AskHasSound ==
  ASSUME Sound, NEW c \in Clients, AskHas(c)
  PROVE  Sound'
<1> DEFINE s == cl[c]
           p == Head(s.todo)
           With(has) == [s EXCEPT !.todo = Tail(@),
                                  !.already = IF has THEN @ + 1 ELSE @,
                                  !.missing = IF has THEN @ ELSE Append(@, p)]
<1>1. NetType'
  <2>1. UNCHANGED <<up, chunks, manifests, local, keys, returned, ops, losses>>
    BY DEF AskHas, net
  <2>2. UNCHANGED broken \/ Break
    BY Zenon DEF AskHas
  <2> QED
    BY <2>1, <2>2, BreakType DEF Sound, NetType
<1>2. Fine(s) /\ s \in ClientStates /\ s.pc = "has"
  BY DEF Sound, ClientsFine, AskHas
<1>3. \/ \E has \in BOOLEAN : Become(c, AfterAsking(With(has)))
      \/ Become(c, Abort(s))
  BY Zenon DEF AskHas
<1> HIDE DEF s
<1>4. Fields(s) /\ s.op = "put" /\ s.i \in 1 .. Len(Content[s.file]) /\ s.todo # <<>>
  BY <1>2, FieldTypes DEF Fine, Located, Busy
<1>5. ASSUME NEW has \in BOOLEAN
      PROVE  Fine(AfterAsking(With(has)))
  <2> DEFINE todo == Tail(s.todo)
             already == IF has THEN s.already + 1 ELSE s.already
             missing == IF has THEN s.missing ELSE Append(s.missing, p)
             t == [s EXCEPT !.todo = todo, !.already = already, !.missing = missing]
  <2>1. todo \in Seq(Peers) /\ already \in Nat /\ missing \in Seq(Peers)
    BY <1>4 DEF Fields
  <2>2. With(has) = t
    OBVIOUS
  <2> HIDE DEF todo, already, missing
  <2>3. /\ t \in ClientStates
        /\ t.op = s.op /\ t.pc = s.pc /\ t.i = s.i /\ t.file = s.file
    BY <1>2, <2>1 DEF ClientStates
  <2> HIDE DEF t
  <2>4. Fine(AfterAsking(t))
    BY <1>2, <1>4, <2>3, AfterAskingFine
  <2> QED
    BY <2>2, <2>4
<1>6. Fine(Abort(s))
  BY <1>2, AbortFine
<1> QED
  BY <1>1, <1>3, <1>5, <1>6, BecomeFine, Zenon DEF Sound

LEMMA BlockType ==
  ASSUME NEW s \in ClientStates, s.i \in 1 .. Len(Content[s.file])
  PROVE  /\ Block(s) \in Blocks
         /\ Encoded(s.file, s.key, s.i) \in Blobs
         /\ NearBlock[Block(s)] \in Placements
<1>1. s.file \in Files /\ s.key \in 0 .. MaxOps /\ s.i \in Nat
  BY DEF ClientStates
<1>2. Content[s.file][s.i] \in Blocks /\ NearBlock[Content[s.file][s.i]] \in Placements
  BY <1>1, ContentType
<1> QED
  BY <1>1, <1>2, NetAssumption DEF Block, Encoded, Plain, Cipher, Blobs

LEMMA HeadIsPeer ==
  ASSUME NEW s \in ClientStates, s.todo # <<>>
  PROVE  Head(s.todo) \in Peers /\ Tail(s.todo) \in Seq(Peers)
<1>1. s.todo \in Seq(Peers)
  BY DEF ClientStates
<1> QED
  BY <1>1

LEMMA PutChunkSound ==
  ASSUME Sound, NEW c \in Clients, PutChunk(c)
  PROVE  Sound'
<1> DEFINE s == cl[c]
           p == Head(s.todo)
           rest == [s EXCEPT !.todo = Tail(@)]
           stored == [chunks EXCEPT ![p][Block(s)] = Encoded(s.file, s.key, s.i)]
<1>2. Fine(s) /\ s \in ClientStates /\ s.pc = "put"
  BY DEF Sound, ClientsFine, PutChunk
<1>3. \/ Become(c, IF rest.todo = <<>> THEN UploadFrom(s, s.i + 1) ELSE rest)
      \/ Become(c, Abort(s))
  BY Zenon DEF PutChunk
<1>4. chunks' \in {chunks, stored} /\ (UNCHANGED broken \/ Break)
  BY Zenon DEF PutChunk
<1>5. UNCHANGED <<up, manifests, local, keys, returned, ops, losses>>
  BY DEF PutChunk
<1> HIDE DEF s
<1>6. Fields(s) /\ s.op = "put" /\ s.i \in 1 .. Len(Content[s.file]) /\ s.todo # <<>>
  BY <1>2, FieldTypes DEF Fine, Located, Busy
<1>7. NetType'
  <2>1. p \in Peers /\ Block(s) \in Blocks /\ Encoded(s.file, s.key, s.i) \in Blobs
    BY <1>2, <1>6, HeadIsPeer, BlockType
  <2>2. chunks' \in [Peers -> [Blocks -> Blobs \cup {Nothing, Damaged}]]
    <3> DEFINE V == Blobs \cup {Nothing, Damaged}
               b == Block(s)
               e == Encoded(s.file, s.key, s.i)
    <3>1. chunks \in [Peers -> [Blocks -> V]] /\ p \in Peers /\ b \in Blocks /\ e \in V
      BY <2>1 DEF Sound, NetType
    <3>2. chunks' = chunks \/ chunks' = [chunks EXCEPT ![p][b] = e]
      BY <1>4
    <3> HIDE DEF V, b, e, p
    <3>3. chunks' \in [Peers -> [Blocks -> V]]
      BY <3>1, <3>2
    <3> QED
      BY <3>3 DEF V
  <2> QED
    BY <1>4, <1>5, <2>2, BreakType DEF Sound, NetType
<1>8. Fine(UploadFrom(s, s.i + 1))
  <2>1. s.i + 1 \in 1 .. Len(Content[s.file]) + 1
    BY <1>6, ContentType DEF Fields
  <2> QED
    BY <1>2, <1>6, <2>1, UploadFromFine
<1>9. rest.todo # <<>> => Fine(rest)
  <2> DEFINE todo == Tail(s.todo)
  <2>1. todo \in Seq(Peers)
    BY <1>2, <1>6, HeadIsPeer
  <2> HIDE DEF todo
  <2>2. rest = [s EXCEPT !.todo = todo]
    BY DEF todo
  <2>3. /\ rest \in ClientStates /\ rest.op = s.op /\ rest.pc = s.pc
        /\ rest.i = s.i /\ rest.file = s.file
    BY <1>2, <2>1, <2>2 DEF ClientStates
  <2> HIDE DEF rest
  <2> QED
    BY <1>2, <1>6, <2>3 DEF Fine, Located, SoFar
<1>10. Fine(Abort(s))
  BY <1>2, AbortFine
<1>11. PICK t : Fine(t) /\ Become(c, t)
  <2> HIDE DEF rest
  <2> QED
    BY <1>3, <1>8, <1>9, <1>10, Zenon
<1>12. ClientsFine'
  BY <1>11, BecomeFine DEF Sound
<1> QED
  BY <1>7, <1>12 DEF Sound

LEMMA PutManifestSound ==
  ASSUME Sound, NEW c \in Clients, PutManifest(c)
  PROVE  Sound'
<1> DEFINE s == cl[c]
           p == Head(s.todo)
           m == Manifest(s.file, s.key)
           rest == [s EXCEPT !.todo = Tail(@)]
           next == IF rest.todo = <<>> THEN [rest EXCEPT !.pc = "local"] ELSE rest
           stored == [manifests EXCEPT ![p] = @ \cup {m}]
           lost == [manifests EXCEPT ![p] = @ \ {m}]
<1>2. Fine(s) /\ s \in ClientStates /\ s.pc = "manifest"
  BY DEF Sound, ClientsFine, PutManifest
<1>3. Become(c, next) \/ Become(c, Abort(s))
  BY Zenon DEF PutManifest
<1>4. manifests' \in {manifests, stored, lost}
  BY Zenon DEF PutManifest
<1>13. (UNCHANGED broken \/ Break) /\ (UNCHANGED losses \/ Lose)
  BY Zenon DEF PutManifest
<1>5. UNCHANGED <<up, chunks, local, keys, returned, ops>>
  BY DEF PutManifest
<1> HIDE DEF s
<1>6. /\ Fields(s) /\ s.op = "put" /\ s.i = Len(Content[s.file]) + 1
      /\ s.todo # <<>>
  BY <1>2, FieldTypes DEF Fine, Located, Busy
<1>7. NetType'
  <2>1. p \in Peers /\ m \in Manifests
    BY <1>2, <1>6, HeadIsPeer, ManifestType
  <2>2. manifests' \in [Peers -> SUBSET Manifests]
    BY <1>4, <2>1 DEF Sound, NetType
  <2> QED
    BY <1>5, <1>13, <2>2, BreakType, LoseType DEF Sound, NetType
<1>9. Fine(next)
  <2> DEFINE todo == Tail(s.todo)
             r == [s EXCEPT !.todo = todo]
             l == [r EXCEPT !.pc = "local"]
  <2>1. todo \in Seq(Peers)
    BY <1>2, <1>6, HeadIsPeer
  <2>2. next = IF r.todo = <<>> THEN l ELSE r
    OBVIOUS
  <2> HIDE DEF todo
  <2>3. /\ r \in ClientStates /\ r.op = s.op /\ r.pc = s.pc
        /\ r.i = s.i /\ r.file = s.file
    BY <1>2, <2>1 DEF ClientStates
  <2>4. /\ l \in ClientStates /\ l.op = s.op /\ l.pc = "local"
        /\ l.i = s.i /\ l.file = s.file
    BY <1>2, <2>1 DEF ClientStates, Busy
  <2> HIDE DEF l, r, next
  <2>5. Fine(l)
    BY <1>2, <1>6, <2>4 DEF Fine, Located, SoFar
  <2>6. r.todo # <<>> => Fine(r)
    BY <1>2, <1>6, <2>3 DEF Fine, Located, SoFar
  <2> QED
    BY <2>2, <2>5, <2>6
<1>10. Fine(Abort(s))
  BY <1>2, AbortFine
<1>11. PICK t : Fine(t) /\ Become(c, t)
  <2> HIDE DEF next
  <2> QED
    BY <1>3, <1>9, <1>10, Zenon
<1>12. ClientsFine'
  BY <1>11, BecomeFine DEF Sound
<1> QED
  BY <1>7, <1>12 DEF Sound

LEMMA WriteLocalSound ==
  ASSUME Sound, NEW c \in Clients, WriteLocal(c)
  PROVE  Sound'
<1> DEFINE s == cl[c]
           m == Manifest(s.file, s.key)
           done == [s EXCEPT !.pc = "done"]
<1>1. Fine(s) /\ s \in ClientStates /\ s.pc = "local"
  BY DEF Sound, ClientsFine, WriteLocal
<1>2. Become(c, done) \/ Become(c, Abort(s))
  BY Zenon DEF WriteLocal
<1>3. /\ local' \in {local, [local EXCEPT ![c][s.file] = m],
                     [local EXCEPT ![c][s.file] = Nothing]}
      /\ returned' \in {returned, returned \cup {m}}
      /\ UNCHANGED broken \/ Break
  BY Zenon DEF WriteLocal
<1>4. UNCHANGED <<up, chunks, manifests, keys, ops, losses>>
  BY DEF WriteLocal, net
<1> HIDE DEF s
<1>5. s.op = "put" /\ s.file \in Files
  BY <1>1 DEF Fine, Located, ClientStates
<1>6. m \in Manifests
  BY <1>1, ManifestType
<1>7. NetType'
  <2> HIDE DEF m
  <2>1. local' \in [Clients -> [Files -> Manifests \cup {Nothing}]]
    <3> DEFINE V == Manifests \cup {Nothing}
    <3>1. local \in [Clients -> [Files -> V]] /\ m \in V /\ Nothing \in V
      BY <1>6 DEF Sound, NetType
    <3> HIDE DEF V
    <3>2. local' \in [Clients -> [Files -> V]]
      BY <1>3, <1>5, <3>1
    <3> QED
      BY <3>2 DEF V
  <2>2. returned' \subseteq Manifests
    BY <1>3, <1>6 DEF Sound, NetType
  <2> QED
    BY <1>3, <1>4, <2>1, <2>2, BreakType DEF Sound, NetType
<1>8. Fine(done)
  <2>1. done \in ClientStates /\ done.op = s.op /\ done.pc = "done"
    BY <1>1 DEF ClientStates
  <2> QED
    BY <1>5, <2>1 DEF Fine, Located, SoFar, Busy
<1>9. Fine(Abort(s))
  BY <1>1, AbortFine
<1>10. ClientsFine'
  <2> HIDE DEF done
  <2> QED
    BY <1>2, <1>8, <1>9, BecomeFine DEF Sound
<1> QED
  BY <1>7, <1>10 DEF Sound

LEMMA GetFileSound ==
  ASSUME Sound, NEW c \in Clients, NEW m \in returned, GetFile(c, m)
  PROVE  Sound'
<1> DEFINE f == m.file
           k == m.key
           todo == Candidates(NearManifest[m])
           t == [Idle EXCEPT !.op = "get", !.pc = "find", !.file = f, !.key = k,
                             !.todo = todo]
<1>1. m \in Manifests /\ f \in Files /\ k \in 0 .. MaxOps
  BY DEF Sound, NetType, Manifests
<1>2. todo \in Seq(Peers) /\ todo # <<>>
  <2>1. NearManifest[m] \in Placements
    BY <1>1 DEF Placements
  <2> QED
    BY <2>1, CandidatesFacts
<1>3. NetType'
  <2>1. UNCHANGED <<up, chunks, manifests, local, keys, returned, broken, losses>>
    BY DEF GetFile, net
  <2>2. ops' \in 0 .. MaxOps /\ keys' \in 0 .. ops'
    BY <2>1, NetAssumption DEF Sound, NetType, GetFile
  <2> QED
    BY <2>1, <2>2 DEF Sound, NetType
<1>4. Become(c, t)
  BY DEF GetFile
<1> HIDE DEF f, k, todo
<1>5. /\ t \in ClientStates /\ t.op = "get" /\ t.pc = "find" /\ t.file = f
      /\ t.todo = todo
  BY <1>1, <1>2, IdleType DEF ClientStates, Busy
<1>6. t.i = 0 /\ t.out = <<>> /\ t.stream = "good" /\ Len(t.out) = 0
  BY DEF Idle
<1> HIDE DEF t
<1>7. SubSeq(Content[f], 1, 0) = <<>> /\ Len(Content[f]) \in Nat
  BY <1>1, ContentType, SubSeqEmpty
<1>8. Fine(t)
  BY <1>2, <1>5, <1>6, <1>7 DEF Fine, Located, SoFar
<1> QED
  BY <1>3, <1>4, <1>8, BecomeFine DEF Sound

LEMMA GetFileLocalSound ==
  ASSUME Sound, NEW c \in Clients, NEW f \in Files, GetFileLocal(c, f)
  PROVE  Sound'
<1> DEFINE m == local[c][f]
           s == [Idle EXCEPT !.op = "get"]
           r == [Idle EXCEPT !.op = "get", !.file = f, !.pc = "refused"]
<1>1. m \in Manifests
  BY DEF Sound, NetType, GetFileLocal
<1>2. NetType'
  <2>1. UNCHANGED <<up, chunks, manifests, local, keys, returned, losses>>
    BY DEF GetFileLocal, net
  <2>2. ops' \in 0 .. MaxOps /\ keys' \in 0 .. ops'
    <3>1. ops < MaxOps /\ ops' = ops + 1
      BY DEF GetFileLocal
    <3> QED
      BY <2>1, <3>1, NetAssumption DEF Sound, NetType
  <2>3. UNCHANGED broken \/ Break
    BY Zenon DEF GetFileLocal, WithManifest
  <2> QED
    BY <2>1, <2>2, <2>3, BreakType DEF Sound, NetType
<1>3. WithManifest(c, s, m) \/ Become(c, r)
  BY Zenon DEF GetFileLocal
<1>4. s \in ClientStates /\ r \in ClientStates /\ r.pc = "refused"
  BY IdleType DEF ClientStates
<1>5. Fresh(s) /\ Fresh(r)
  BY DEF Fresh, Idle
<1> HIDE DEF m, s, r
<1>6. \E t : Fine(t) /\ Become(c, t)
  BY <1>1, <1>3, <1>4, <1>5, WithManifestFine, FreshFine
<1> QED
  BY <1>2, <1>6, BecomeFine DEF Sound

LEMMA FindManifestSound ==
  ASSUME Sound, NEW c \in Clients, FindManifest(c)
  PROVE  Sound'
<1> DEFINE s == cl[c]
           p == Head(s.todo)
           m == Manifest(s.file, s.key)
<1>1. Fine(s) /\ s \in ClientStates /\ s.pc = "find"
  BY DEF Sound, ClientsFine, FindManifest
<1>2. \/ WithManifest(c, s, m)
      \/ Become(c, Skip(s, p, FALSE))
      \/ Become(c, Skip(s, p, TRUE))
  BY Zenon DEF FindManifest
<1>3. NetType'
  <2>1. UNCHANGED <<up, chunks, manifests, local, keys, returned, ops, losses>>
    BY DEF FindManifest, net
  <2>2. UNCHANGED broken \/ Break
    BY Zenon DEF FindManifest, WithManifest
  <2> QED
    BY <2>1, <2>2, BreakType DEF Sound, NetType
<1> HIDE DEF s
<1>4. s.todo # <<>> /\ Fresh(s)
  BY <1>1 DEF Fine, Located, Busy, Fresh
<1>5. p \in Peers /\ m \in Manifests
  BY <1>1, <1>4, HeadIsPeer, ManifestType
<1> HIDE DEF p, m
<1>6. WithManifest(c, s, m) => \E t : Fine(t) /\ Become(c, t)
  BY <1>1, <1>4, <1>5, WithManifestFine
<1>7. Fine(Skip(s, p, FALSE)) /\ Fine(Skip(s, p, TRUE))
  BY <1>1, <1>5, SkipFine
<1>8. PICK t : Fine(t) /\ Become(c, t)
  BY <1>2, <1>6, <1>7, Zenon
<1> QED
  BY <1>3, <1>8, BecomeFine DEF Sound

\* The block that is written is the one asked for: nothing else is accepted.
LEMMA AcceptedIsBlock ==
  ASSUME NEW s \in ClientStates, s.i \in 1 .. Len(Content[s.file]), NEW x,
         Accepted(x, Manifest(s.file, s.key), s.i)
  PROVE  Written(x) = Content[s.file][s.i]
<1>1. s.file \in Files /\ s.key \in 0 .. MaxOps /\ s.i \in Nat
  BY DEF ClientStates
<1>2. Content[s.file][s.i] \in Blocks
  BY <1>1, ContentType
<1>3. x \in Blobs /\ x.block = Content[s.file][s.i]
  BY <1>1, <1>2, NetAssumption DEF Accepted, Manifest, Plain, Cipher, Blobs
<1> QED
  BY <1>3, NetAssumption DEF Written

\* The output after writing an accepted block x, or after a failed write.
LEMMA WriteBlockBecomes ==
  ASSUME NEW c, NEW s, Fine(s), s.pc = "fetch", NEW x,
         Accepted(x, Manifest(s.file, s.key), s.i), WriteBlock(c, s, x)
  PROVE  \E t \in ClientStates :
           /\ t.op = s.op /\ t.file = s.file /\ t.key = s.key
           /\ Len(t.out) <= Len(Content[t.file])
           /\ t.out = SubSeq(Content[t.file], 1, Len(t.out))
           /\ t.stream = "good" => Len(t.out) = s.i
           /\ Become(c, DownloadFrom(t, s.i + 1))
<1> DEFINE C == Content[s.file]
           i == s.i
<1>1. s \in ClientStates /\ s.op = "get" /\ i \in 1 .. Len(C) /\ SoFar(s)
      /\ Fields(s)
  BY FieldTypes DEF Fine, Located
<1>2. C \in Seq(Blocks) /\ Len(C) \in Nat /\ i \in Nat \ {0}
  BY <1>1, ContentType DEF Fields
<1>3. s.out \in Seq(Blocks \cup {Damaged}) /\ Len(s.out) \in 0 .. Len(C)
      /\ s.out = SubSeq(C, 1, Len(s.out))
  BY <1>1, <1>2 DEF SoFar, Fields
<1>3a. PICK stream \in {"good", "bad"} : \E out :
        /\ Become(c, DownloadFrom([s EXCEPT !.stream = stream, !.out = out], s.i + 1))
        /\ \/ s.stream = "bad" /\ stream = "bad" /\ out = s.out
           \/ s.stream = "good" /\ stream = "good" /\ out = Append(s.out, Written(x))
           \/ stream = "bad" /\ \E n \in 0 .. Len(s.out) : out = SubSeq(s.out, 1, n)
  BY Zenon DEF WriteBlock
<1>4. PICK out :
        /\ Become(c, DownloadFrom([s EXCEPT !.stream = stream, !.out = out], s.i + 1))
        /\ \/ s.stream = "bad" /\ stream = "bad" /\ out = s.out
           \/ s.stream = "good" /\ stream = "good" /\ out = Append(s.out, Written(x))
           \/ stream = "bad" /\ \E n \in 0 .. Len(s.out) : out = SubSeq(s.out, 1, n)
  BY <1>3a
<1>5. /\ out \in Seq(Blocks \cup {Damaged}) /\ Len(out) <= Len(C)
      /\ out = SubSeq(C, 1, Len(out))
      /\ stream = "good" => Len(out) = i
  <2>1. CASE stream = "good" /\ s.stream = "good" /\ out = Append(s.out, Written(x))
    <3>1. Written(x) = C[i]
      BY <1>1, AcceptedIsBlock
    <3>2. Len(s.out) = i - 1
      BY <1>1, <1>2, <2>1 DEF SoFar
    <3>3. s.out = SubSeq(C, 1, i - 1)
      BY <1>3, <3>2
    <3> HIDE DEF C, i
    <3>4. Append(SubSeq(C, 1, i - 1), C[i]) = SubSeq(C, 1, i)
      BY <1>1, <1>2
    <3>5. out = SubSeq(C, 1, i)
      BY <2>1, <3>1, <3>3, <3>4
    <3>6. Len(SubSeq(C, 1, i)) = i /\ SubSeq(C, 1, i) \in Seq(Blocks \cup {Damaged})
      BY <1>1, <1>2
    <3> QED
      BY <1>1, <1>2, <3>5, <3>6
  <2>2. CASE stream = "bad" /\ out = s.out
    BY <1>2, <1>3, <2>2
  <2>3. ASSUME stream = "bad", NEW n \in 0 .. Len(s.out), out = SubSeq(s.out, 1, n)
        PROVE  /\ out \in Seq(Blocks \cup {Damaged}) /\ Len(out) <= Len(C)
               /\ out = SubSeq(C, 1, Len(out))
    <3> HIDE DEF C
    <3>1. n \in Nat /\ n <= Len(C) /\ Len(out) = n
      BY <1>2, <1>3, <2>3
    <3>2. out \in Seq(Blocks \cup {Damaged})
      BY <1>3, <2>3
    <3>3. \A j \in 1 .. n : out[j] = C[j]
      <4>1. \A j \in 1 .. Len(s.out) : s.out[j] = C[j]
        <5>1. PICK k : k = Len(s.out)
          OBVIOUS
        <5>2. k \in 0 .. Len(C) /\ s.out = SubSeq(C, 1, k)
          BY <1>3, <5>1
        <5> QED
          BY <1>2, <5>1, <5>2
      <4>2. \A j \in 1 .. n : out[j] = s.out[j]
        BY <1>3, <2>3
      <4> QED
        BY <1>3, <4>1, <4>2
    <3>4. out = SubSeq(C, 1, n)
      <4>1. SubSeq(C, 1, n) \in Seq(Blocks) /\ Len(SubSeq(C, 1, n)) = n
            /\ \A j \in 1 .. n : SubSeq(C, 1, n)[j] = C[j]
        BY <1>2, <3>1
      <4> QED
        BY <3>1, <3>2, <3>3, <4>1
    <3> QED
      BY <3>1, <3>2, <3>4
  <2> QED
    BY <1>4, <2>1, <2>2, <2>3
<1>6. PICK t : t = [s EXCEPT !.stream = stream, !.out = out]
  OBVIOUS
<1>7. t \in ClientStates /\ t.op = s.op /\ t.file = s.file /\ t.key = s.key
      /\ t.out = out /\ t.stream = stream
  BY <1>1, <1>5, <1>6 DEF ClientStates
<1> QED
  BY <1>4, <1>5, <1>6, <1>7

LEMMA FetchChunkSound ==
  ASSUME Sound, NEW c \in Clients, FetchChunk(c)
  PROVE  Sound'
<1> DEFINE s == cl[c]
           p == Head(s.todo)
           m == Manifest(s.file, s.key)
           x == chunks[p][Block(s)]
<1>1. Fine(s) /\ s \in ClientStates /\ s.pc = "fetch"
  BY DEF Sound, ClientsFine, FetchChunk
<1>2. \/ Accepted(x, m, s.i) /\ WriteBlock(c, s, x)
      \/ Become(c, Skip(s, p, FALSE))
      \/ Become(c, Skip(s, p, TRUE))
  BY Zenon DEF FetchChunk, FetchFrom
<1>3. NetType'
  <2>1. UNCHANGED <<up, chunks, manifests, local, keys, returned, ops, losses>>
    BY DEF FetchChunk, net
  <2>2. UNCHANGED broken \/ Break
    BY Zenon DEF FetchChunk, FetchFrom, WriteBlock
  <2> QED
    BY <2>1, <2>2, BreakType DEF Sound, NetType
<1> HIDE DEF s, x
<1>4. s.todo # <<>> /\ s.op = "get" /\ s.i \in 1 .. Len(Content[s.file])
  BY <1>1 DEF Fine, Located, Busy
<1>5. p \in Peers
  BY <1>1, <1>4, HeadIsPeer
<1>6. ASSUME Accepted(x, m, s.i), WriteBlock(c, s, x)
      PROVE  \E t : Fine(t) /\ Become(c, t)
  <2>1. PICK t \in ClientStates :
          /\ t.op = s.op /\ t.file = s.file
          /\ Len(t.out) <= Len(Content[t.file])
          /\ t.out = SubSeq(Content[t.file], 1, Len(t.out))
          /\ t.stream = "good" => Len(t.out) = s.i
          /\ Become(c, DownloadFrom(t, s.i + 1))
    BY <1>1, <1>6, WriteBlockBecomes
  <2>2. s.i + 1 \in 1 .. Len(Content[t.file]) + 1 /\ (s.i + 1) - 1 = s.i
    BY <1>1, <1>4, <2>1, FieldTypes, ContentType DEF Fields
  <2>3. Fine(DownloadFrom(t, s.i + 1))
    BY <1>4, <2>1, <2>2, DownloadFromFine
  <2> QED
    BY <2>1, <2>3
<1>7. Fine(Skip(s, p, FALSE)) /\ Fine(Skip(s, p, TRUE))
  BY <1>1, <1>5, SkipFine
<1>8. PICK t : Fine(t) /\ Become(c, t)
  BY <1>2, <1>6, <1>7, Zenon
<1> QED
  BY <1>3, <1>8, BecomeFine DEF Sound

LEMMA PeerSound ==
  ASSUME Sound, NEW p \in Peers,
         PeerStops(p) \/ PeerStarts(p) \/ \E b \in Blocks : PeerLoses(p, b)
  PROVE  Sound'
<1>1. CASE PeerStops(p) \/ PeerStarts(p)
  BY <1>1 DEF PeerStops, PeerStarts, Sound, NetType, ClientsFine
<1>2. ASSUME NEW b \in Blocks, PeerLoses(p, b)
      PROVE  Sound'
  <2>1. UNCHANGED <<up, manifests, local, cl, keys, returned, ops, broken>>
    BY <1>2 DEF PeerLoses
  <2>2. PICK x \in {Nothing, Damaged} : chunks' = [chunks EXCEPT ![p][b] = x]
    BY <1>2 DEF PeerLoses
  <2>3. chunks' \in [Peers -> [Blocks -> Blobs \cup {Nothing, Damaged}]]
    <3> DEFINE V == Blobs \cup {Nothing, Damaged}
    <3>1. chunks \in [Peers -> [Blocks -> V]] /\ x \in V
      BY DEF Sound, NetType
    <3> HIDE DEF V
    <3>2. chunks' \in [Peers -> [Blocks -> V]]
      BY <2>2, <3>1
    <3> QED
      BY <3>2 DEF V
  <2>4. losses' \in 0 .. MaxLosses
    BY <1>2, LoseType DEF PeerLoses, Sound
  <2> QED
    BY <2>1, <2>3, <2>4 DEF Sound, NetType, ClientsFine
<1> QED
  BY <1>1, <1>2

\* Every step keeps the types, and what a download has written.
LEMMA NextSound ==
  ASSUME Sound, [Next]_vars
  PROVE  Sound'
<1>1. CASE UNCHANGED vars
  BY <1>1 DEF vars, Sound, NetType, ClientsFine
<1>2. ASSUME NEW c \in Clients, NEW f \in Files, PutFile(c, f) \/ GetFileLocal(c, f)
      PROVE  Sound'
  BY <1>2, PutFileSound, GetFileLocalSound
<1>3. ASSUME NEW c \in Clients, NEW m \in returned, GetFile(c, m)
      PROVE  Sound'
  BY <1>3, GetFileSound
<1>4. ASSUME NEW c \in Clients, ClientStep(c)
      PROVE  Sound'
  BY <1>4, AskHasSound, PutChunkSound, PutManifestSound, WriteLocalSound,
     FindManifestSound, FetchChunkSound
  DEF ClientStep
<1> QED
  BY <1>1, <1>2, <1>3, <1>4, PeerSound, Zenon DEF Next

THEOREM SoundInvariant == Spec => []Sound
BY InitSound, NextSound, PTL DEF Spec

\* Type correctness; in particular a client that talks to a peer always has one
\* to talk to: the loops over targets and candidates never run dry unnoticed.
THEOREM TypeCorrect == Spec => []TypeOK
BY SoundInvariant, SoundIs, PTL

\* getFile writes nothing but a beginning of the file, whatever peers hold, lose
\* or send, and all of it when it returns, unless the output stream failed.
THEOREM DownloadCorrect == Spec => []DownloadIsFile
BY SoundInvariant, SoundIs, PTL

-----------------------------------------------------------------------------
(* Replicas: as long as everyone uploads plaintext and no peer loses a     *)
(* chunk, copies of chunks and of manifests are only added.                *)

Grows(held, held2) ==
  \A p \in Peers, b \in Blocks : held[p][b] = Plain(b) => held2[p][b] = Plain(b)

Learns(known, known2) == \A p \in Peers : known[p] \subseteq known2[p]

\* FailureMeansUnreachable, of one client.
Explained(s) ==
  s.op = "get" /\ s.pc = "failed" /\ s.file \in Readable =>
    \A j \in 1 .. Replicas : Asked(s)[j] \in s.failed

\* What PlainInv and FailureMeansUnreachable say of one client, and of the peers.
Good(held, known, shared, s) ==
  /\ s.key = 0
  /\ Uploading(held, known, s)
  /\ Downloading(held, s)
  /\ s.pc = "find" => Manifest(s.file, s.key) \in shared
  /\ Explained(s)

PeersGood(held, known, shared, copies) ==
  /\ \A p \in Peers, b \in Blocks : held[p][b] \in {Nothing, Plain(b)}
  /\ \A p \in Peers : \A m \in known[p] : Complete(held, m)
  /\ \A m \in shared : m.key = 0 /\ Announced(known, m)
  /\ \A c \in Clients, f \in Files :
       copies[c][f] # Nothing =>
         copies[c][f].key = 0 /\ Complete(held, copies[c][f])

AllGood ==
  /\ PeersGood(chunks, manifests, returned, local)
  /\ \A c \in Clients : Good(chunks, manifests, returned, cl[c])

\* AllGood is the second part of IInv.
LEMMA AllGoodIs ==
  (PlainAndKept => AllGood) <=> PlainInv /\ FailureMeansUnreachable
<1>1. FailureMeansUnreachable <=> (PlainAndKept => \A c \in Clients : Explained(cl[c]))
  BY Zenon DEF FailureMeansUnreachable, Explained
<1> QED
  BY <1>1, Zenon DEF PlainInv, AllGood, Good, PeersGood

LEMMA TargetIsPeer ==
  ASSUME NEW near \in Placements, NEW j \in 1 .. Replicas
  PROVE  near[j] \in Peers
<1>1. near \in Seq(Peers) /\ j \in 1 .. Len(near)
  BY PlacementType, NetAssumption
<1> QED
  BY <1>1

LEMMA ReplicatedToGrows ==
  ASSUME NEW held, NEW held2, Grows(held, held2),
         NEW f \in Files, NEW n \in 0 .. Len(Content[f]), ReplicatedTo(held, f, n)
  PROVE  ReplicatedTo(held2, f, n)
<1> SUFFICES ASSUME NEW i \in 1 .. n, NEW j \in 1 .. Replicas
             PROVE  LET b == Content[f][i] IN held2[NearBlock[b][j]][b] = Plain(b)
  BY DEF ReplicatedTo, Replicated
<1>1. Len(Content[f]) \in Nat /\ i \in 1 .. Len(Content[f])
  BY ContentType
<1>2. PICK b : b = Content[f][i]
  OBVIOUS
<1>3. b \in Blocks /\ NearBlock[b] \in Placements
  BY <1>1, <1>2, ContentType
<1>4. NearBlock[b][j] \in Peers
  BY <1>3, TargetIsPeer
<1>5. held[NearBlock[b][j]][b] = Plain(b)
  BY <1>2 DEF ReplicatedTo, Replicated
<1> QED
  BY <1>2, <1>3, <1>4, <1>5 DEF Grows

LEMMA CompleteGrows ==
  ASSUME NEW held, NEW held2, Grows(held, held2), NEW m \in Manifests, Complete(held, m)
  PROVE  Complete(held2, m)
<1>1. m.file \in Files
  BY DEF Manifests
<1>2. Len(Content[m.file]) \in 0 .. Len(Content[m.file])
  BY <1>1, ContentType
<1> QED
  BY <1>1, <1>2, ReplicatedToGrows DEF Complete

LEMMA AnnouncedGrows ==
  ASSUME NEW known, NEW known2, Learns(known, known2), NEW m \in Manifests,
         Announced(known, m)
  PROVE  Announced(known2, m)
<1>1. NearManifest[m] \in Placements
  BY DEF Placements
<1> QED
  BY <1>1, TargetIsPeer DEF Announced, Learns

\* What a client relies on is not taken away from it.
LEMMA GoodGrows ==
  ASSUME NEW held, NEW held2, Grows(held, held2),
         NEW known, NEW known2, Learns(known, known2),
         NEW shared, NEW shared2, shared \subseteq shared2,
         NEW s, Fine(s), Good(held, known, shared, s)
  PROVE  Good(held2, known2, shared2, s)
<1> DEFINE m == Manifest(s.file, s.key)
<1>1. s \in ClientStates /\ Located(s)
  BY DEF Fine
<1>2. s.file \in Files /\ s.i \in Nat /\ Len(Content[s.file]) \in Nat
  BY <1>1, FieldTypes, ContentType DEF Fields
<1>3. m \in Manifests /\ NearManifest[m] \in Placements /\ m.file = s.file
  BY <1>1, ManifestType DEF Manifest
<1> HIDE DEF m
<1>4. s.pc \in {"has", "put", "manifest", "local"} => ReplicatedTo(held2, s.file, s.i - 1)
  <2> SUFFICES ASSUME s.pc \in {"has", "put", "manifest", "local"}
               PROVE  ReplicatedTo(held2, s.file, s.i - 1)
    OBVIOUS
  <2>1. ReplicatedTo(held, s.file, s.i - 1)
    BY DEF Good, Uploading
  <2>2. s.i - 1 \in 0 .. Len(Content[s.file])
    BY <1>1, <1>2 DEF Located
  <2> QED
    BY <1>2, <2>1, <2>2, ReplicatedToGrows
<1>5. ASSUME s.pc \in {"has", "put"}, NEW j \in 1 .. Replicas,
             NEW p, p = NearBlock[Block(s)][j]
      PROVE  \/ p \in Range(s.todo)
             \/ s.pc = "has" /\ p \in Range(s.missing)
             \/ held2[p][Block(s)] = Plain(Block(s))
  <2>1. \/ p \in Range(s.todo)
        \/ s.pc = "has" /\ p \in Range(s.missing)
        \/ held[p][Block(s)] = Plain(Block(s))
    BY <1>5 DEF Good, Uploading
  <2>2. Block(s) \in Blocks /\ NearBlock[Block(s)] \in Placements
    BY <1>1, <1>5, BlockType DEF Located
  <2>3. p \in Peers
    BY <1>5, <2>2, TargetIsPeer
  <2> QED
    BY <2>1, <2>2, <2>3 DEF Grows
<1>6. ASSUME s.pc = "manifest", NEW j \in 1 .. Replicas,
             NEW p, p = NearManifest[m][j]
      PROVE  p \in Range(s.todo) \/ m \in known2[p]
  <2>1. p \in Range(s.todo) \/ m \in known[p]
    BY <1>6 DEF Good, Uploading, m
  <2> QED
    BY <1>3, <1>6, <2>1, TargetIsPeer DEF Learns
<1>7. s.pc = "local" => Announced(known2, m)
  <2>1. s.pc = "local" => Announced(known, m)
    BY DEF Good, Uploading, m
  <2> QED
    BY <1>3, <2>1, AnnouncedGrows
<1>8. Uploading(held2, known2, s)
  <2>1. s.pc = "has" => s.already + Len(s.missing) + Len(s.todo) = Replicas
    BY DEF Good, Uploading
  <2> QED
    BY <1>4, <1>5, <1>6, <1>7, <2>1, Zenon DEF Uploading, m
<1>9. Downloading(held2, s)
  <2>1. s.pc = "fetch" => Complete(held, m)
    BY DEF Good, Downloading, m
  <2>2. s.pc = "fetch" => Complete(held2, m)
    BY <1>3, <2>1, CompleteGrows
  <2> QED
    BY <2>2 DEF Good, Downloading, m
<1> QED
  BY <1>8, <1>9 DEF Good

-----------------------------------------------------------------------------
(* putFile: of every target it is known that it has the chunk, or it is    *)
(* still to be asked or sent to.                                           *)

LEMMA RangeOfTail ==
  ASSUME NEW q \in Seq(Peers), q # <<>>
  PROVE  Range(q) = {Head(q)} \cup Range(Tail(q))
<1>1. Len(q) \in Nat \ {0} /\ Head(q) = q[1]
      /\ Tail(q) \in Seq(Peers) /\ Len(Tail(q)) = Len(q) - 1
      /\ \A i \in 1 .. Len(q) - 1 : Tail(q)[i] = q[i + 1]
  OBVIOUS
<1>2. DOMAIN q = 1 .. Len(q) /\ DOMAIN Tail(q) = 1 .. Len(q) - 1
  BY <1>1
<1>3. ASSUME NEW i \in 1 .. Len(q)
      PROVE  q[i] \in {Head(q)} \cup Range(Tail(q))
  <2>1. CASE i = 1
    BY <1>1, <2>1
  <2>2. CASE i # 1
    <3>1. i - 1 \in 1 .. Len(q) - 1 /\ (i - 1) + 1 = i
      BY <1>1, <2>2
    <3> QED
      BY <1>1, <1>2, <3>1, ZenonT(60) DEF Range
  <2> QED
    BY <2>1, <2>2
<1>4. ASSUME NEW i \in 1 .. Len(q) - 1
      PROVE  Tail(q)[i] \in Range(q)
  BY <1>1, <1>2 DEF Range
<1>5. Head(q) \in Range(q)
  BY <1>1, <1>2 DEF Range
<1> QED
  BY <1>2, <1>3, <1>4, <1>5 DEF Range

LEMMA RangeOfAppend ==
  ASSUME NEW q \in Seq(Peers), NEW x \in Peers
  PROVE  x \in Range(Append(q, x)) /\ Range(q) \subseteq Range(Append(q, x))
<1>1. /\ Append(q, x) \in Seq(Peers) /\ Len(Append(q, x)) = Len(q) + 1
      /\ Append(q, x)[Len(q) + 1] = x /\ Len(q) \in Nat
      /\ \A i \in 1 .. Len(q) : Append(q, x)[i] = q[i]
  OBVIOUS
<1>2. DOMAIN q = 1 .. Len(q) /\ DOMAIN Append(q, x) = 1 .. Len(q) + 1
  BY <1>1
<1> QED
  BY <1>1, <1>2 DEF Range

LEMMA RangeOfNone == Range(<<>>) = {}
BY DEF Range

\* The manifest follows the last chunk.
LEMMA CompleteAtEnd ==
  ASSUME NEW held, NEW s \in ClientStates, s.i = Len(Content[s.file]) + 1,
         ReplicatedTo(held, s.file, s.i - 1)
  PROVE  Complete(held, Manifest(s.file, s.key))
<1>1. s.i - 1 = Len(Content[s.file])
  BY FieldTypes, ContentType DEF Fields
<1> QED
  BY <1>1 DEF Complete, Manifest

LEMMA UploadFromGood ==
  ASSUME NEW held, NEW known, NEW shared,
         NEW s \in ClientStates, s.op = "put", s.key = 0,
         NEW i \in 1 .. Len(Content[s.file]) + 1,
         ReplicatedTo(held, s.file, i - 1)
  PROVE  Good(held, known, shared, UploadFrom(s, i))
<1>0. PICK t : t = UploadFrom(s, i)
  OBVIOUS
<1>1. /\ t \in ClientStates
      /\ t.op = "put" /\ t.file = s.file /\ t.key = 0 /\ t.i = i
      /\ t.missing = <<>> /\ t.already = 0
      /\ \/ t.pc = "manifest" /\ t.todo = Targets(NearManifest[Manifest(t.file, t.key)])
         \/ /\ i \in 1 .. Len(Content[s.file])
            /\ t.pc = "has" /\ t.todo = Targets(NearBlock[Block(t)])
  <2>1. /\ t \in ClientStates
        /\ t.op = s.op /\ t.file = s.file /\ t.key = s.key /\ t.i = i
        /\ t.missing = <<>> /\ t.already = 0
        /\ \/ t.pc = "manifest" /\ t.todo = Targets(NearManifest[Manifest(s.file, s.key)])
           \/ /\ i \in 1 .. Len(Content[s.file])
              /\ t.pc = IF s.key = 0 THEN "has" ELSE "put"
              /\ t.todo = Targets(NearBlock[Content[s.file][i]])
    BY <1>0, UploadFromFields
  <2> QED
    BY <2>1 DEF Block
<1>2. t.pc = "has" =>
        /\ t.already + Len(t.missing) + Len(t.todo) = Replicas
        /\ \A j \in 1 .. Replicas : NearBlock[Block(t)][j] \in Range(t.todo)
  <2> SUFFICES ASSUME t.pc = "has"
               PROVE  /\ t.already + Len(t.missing) + Len(t.todo) = Replicas
                      /\ \A j \in 1 .. Replicas : NearBlock[Block(t)][j] \in Range(t.todo)
    OBVIOUS
  <2>1. t.i \in 1 .. Len(Content[t.file]) /\ t.todo = Targets(NearBlock[Block(t)])
    BY <1>1
  <2>2. NearBlock[Block(t)] \in Placements
    BY <1>1, <2>1, BlockType
  <2>3. /\ Len(t.todo) = Replicas
        /\ \A j \in 1 .. Replicas : NearBlock[Block(t)][j] \in Range(t.todo)
    BY <2>1, <2>2, TargetsFacts
  <2>4. Len(t.missing) = 0 /\ t.already = 0 /\ Replicas \in Nat
    BY <1>1, NetAssumption
  <2> QED
    BY <2>3, <2>4
<1>3. t.pc = "manifest" =>
        \A j \in 1 .. Replicas :
          NearManifest[Manifest(t.file, t.key)][j] \in Range(t.todo)
  <2>1. NearManifest[Manifest(t.file, t.key)] \in Placements
    BY <1>1, ManifestType
  <2> QED
    BY <1>1, <2>1, TargetsFacts
<1>4. Uploading(held, known, t)
  <2>1. ReplicatedTo(held, t.file, t.i - 1)
    BY <1>1
  <2>2. t.pc \in {"has", "manifest"}
    BY <1>1
  <2> QED
    BY <1>2, <1>3, <2>1, <2>2 DEF Uploading
<1>5. Good(held, known, shared, t)
  BY <1>1, <1>4 DEF Good, Downloading, Explained
<1> QED
  BY <1>0, <1>5

\* The chunk after one that all targets hold.
LEMMA NextChunkGood ==
  ASSUME NEW held, NEW known, NEW shared,
         NEW s \in ClientStates, s.op = "put", s.key = 0,
         s.i \in 1 .. Len(Content[s.file]),
         ReplicatedTo(held, s.file, s.i - 1), Replicated(held, Block(s))
  PROVE  Good(held, known, shared, UploadFrom(s, s.i + 1))
<1>1. s.i \in Nat \ {0} /\ Len(Content[s.file]) \in Nat
  BY FieldTypes, ContentType DEF Fields
<1>2. s.i + 1 \in 1 .. Len(Content[s.file]) + 1 /\ (s.i + 1) - 1 = s.i
  BY <1>1
<1>3. ReplicatedTo(held, s.file, s.i)
  <2> SUFFICES ASSUME NEW i \in 1 .. s.i
               PROVE  Replicated(held, Content[s.file][i])
    BY DEF ReplicatedTo
  <2>1. i = s.i \/ i \in 1 .. s.i - 1
    BY <1>1
  <2> QED
    BY <2>1 DEF ReplicatedTo, Block
<1> QED
  BY <1>2, <1>3, UploadFromGood

LEMMA AfterAskingGood ==
  ASSUME NEW held, NEW known, NEW shared,
         NEW s \in ClientStates, s.op = "put", s.pc = "has", s.key = 0,
         s.i \in 1 .. Len(Content[s.file]),
         Uploading(held, known, s)
  PROVE  Good(held, known, shared, AfterAsking(s))
<1> DEFINE n == IF Needed(s) < Len(s.missing) THEN Needed(s) ELSE Len(s.missing)
           b == Block(s)
<1>0. Fields(s)
  BY FieldTypes
<1>1. /\ ReplicatedTo(held, s.file, s.i - 1)
      /\ s.already + Len(s.missing) + Len(s.todo) = Replicas
      /\ \A j \in 1 .. Replicas :
           \/ NearBlock[b][j] \in Range(s.todo)
           \/ NearBlock[b][j] \in Range(s.missing)
           \/ held[NearBlock[b][j]][b] = Plain(b)
  BY DEF Uploading
<1>2. CASE s.todo # <<>>
  <2>1. AfterAsking(s) = s
    BY <1>2 DEF AfterAsking
  <2>2. Good(held, known, shared, s)
    BY DEF Good, Downloading, Explained
  <2> QED
    BY <2>1, <2>2
<1>3. ASSUME s.todo = <<>>
      PROVE  /\ n = Len(s.missing) /\ n \in Nat /\ s.missing \in Seq(Peers)
             /\ \A j \in 1 .. Replicas :
                  \/ NearBlock[b][j] \in Range(s.missing)
                  \/ held[NearBlock[b][j]][b] = Plain(b)
  <2>1. /\ Len(s.todo) = 0 /\ s.already \in Nat /\ Len(s.missing) \in Nat
        /\ s.missing \in Seq(Peers)
    BY <1>0, <1>3 DEF Fields
  <2>2. Needed(s) = Len(s.missing)
    BY <1>1, <2>1, NetAssumption DEF Needed
  <2>3. Range(s.todo) = {}
    BY <1>3, RangeOfNone
  <2> QED
    BY <1>1, <2>1, <2>2, <2>3
<1>4. CASE s.todo = <<>> /\ n <= 0
  <2>1. AfterAsking(s) = UploadFrom(s, s.i + 1)
    BY <1>4 DEF AfterAsking
  <2>2. Range(s.missing) = {}
    <3>1. s.missing = <<>>
      BY <1>3, <1>4
    <3> QED
      BY <3>1, RangeOfNone
  <2>3. Replicated(held, b)
    BY <1>3, <1>4, <2>2 DEF Replicated
  <2> QED
    BY <1>1, <2>1, <2>3, NextChunkGood
<1>5. CASE s.todo = <<>> /\ ~ (n <= 0)
  <2>1. PICK t : t = AfterAsking(s)
    OBVIOUS
  <2>2. SubSeq(s.missing, 1, n) = s.missing
    BY <1>3, <1>5, SubSeqFull
  <2>3. t = [s EXCEPT !.pc = "put", !.todo = s.missing]
    BY <1>5, <2>1, <2>2 DEF AfterAsking
  <2>4. /\ t.op = "put" /\ t.file = s.file /\ t.key = 0 /\ t.i = s.i
        /\ t.pc = "put" /\ t.todo = s.missing
    BY <2>3 DEF ClientStates
  <2>5. Block(t) = b
    BY <2>4 DEF Block
  <2>6. Uploading(held, known, t)
    BY <1>1, <1>3, <1>5, <2>4, <2>5 DEF Uploading
  <2>7. Good(held, known, shared, t)
    BY <2>4, <2>6 DEF Good, Downloading, Explained
  <2> QED
    BY <2>1, <2>7
<1>6. n \in Nat \/ s.todo # <<>>
  BY <1>3
<1> QED
  BY <1>2, <1>4, <1>5

LEMMA PutStepGood ==
  ASSUME NEW held, NEW known, NEW shared,
         NEW s, Fine(s), s.pc = "put", Good(held, known, shared, s),
         held[Head(s.todo)][Block(s)] = Plain(Block(s)),
         NEW rest, rest = [s EXCEPT !.todo = Tail(@)]
  PROVE  Good(held, known, shared,
              IF rest.todo = <<>> THEN UploadFrom(s, s.i + 1) ELSE rest)
<1> DEFINE b == Block(s)
           todo == Tail(s.todo)
<1>1. /\ s \in ClientStates /\ s.op = "put" /\ s.i \in 1 .. Len(Content[s.file])
      /\ s.todo # <<>> /\ s.todo \in Seq(Peers) /\ s.key = 0
  BY DEF Fine, Located, Busy, Good, ClientStates
<1>2. todo \in Seq(Peers) /\ Range(s.todo) = {Head(s.todo)} \cup Range(todo)
  BY <1>1, HeadIsPeer, RangeOfTail
<1>3. /\ ReplicatedTo(held, s.file, s.i - 1)
      /\ \A j \in 1 .. Replicas :
           NearBlock[b][j] \in Range(s.todo) \/ held[NearBlock[b][j]][b] = Plain(b)
  BY DEF Good, Uploading
<1>4. \A j \in 1 .. Replicas :
        NearBlock[b][j] \in Range(todo) \/ held[NearBlock[b][j]][b] = Plain(b)
  BY <1>2, <1>3
<1> HIDE DEF todo
<1>5. /\ rest \in ClientStates /\ rest.op = s.op /\ rest.pc = s.pc /\ rest.key = s.key
      /\ rest.i = s.i /\ rest.file = s.file /\ rest.todo = todo
  <2>1. rest = [s EXCEPT !.todo = todo]
    BY DEF todo
  <2> QED
    BY <1>1, <1>2, <2>1 DEF ClientStates
<1>6. CASE todo = <<>>
  <2>1. Replicated(held, b)
    BY <1>4, <1>6, RangeOfNone DEF Replicated
  <2>2. Good(held, known, shared, UploadFrom(s, s.i + 1))
    BY <1>1, <1>3, <2>1, NextChunkGood
  <2> QED
    BY <1>5, <1>6, <2>2
<1>7. CASE todo # <<>>
  <2>1. Block(rest) = b
    BY <1>5 DEF Block
  <2>2. Uploading(held, known, rest)
    BY <1>3, <1>4, <1>5, <2>1 DEF Uploading
  <2>3. Good(held, known, shared, rest)
    BY <1>1, <1>5, <2>2 DEF Good, Downloading, Explained
  <2> QED
    BY <1>5, <1>7, <2>3
<1> QED
  BY <1>6, <1>7

LEMMA ManifestStepGood ==
  ASSUME NEW held, NEW known, NEW shared,
         NEW s, Fine(s), s.pc = "manifest", Good(held, known, shared, s),
         Manifest(s.file, s.key) \in known[Head(s.todo)],
         NEW rest, rest = [s EXCEPT !.todo = Tail(@)]
  PROVE  Good(held, known, shared,
              IF rest.todo = <<>> THEN [rest EXCEPT !.pc = "local"] ELSE rest)
<1> DEFINE m == Manifest(s.file, s.key)
           todo == Tail(s.todo)
           last == [rest EXCEPT !.pc = "local"]
<1>1. /\ s \in ClientStates /\ s.op = "put" /\ s.i = Len(Content[s.file]) + 1
      /\ s.todo # <<>> /\ s.todo \in Seq(Peers) /\ s.key = 0
  BY DEF Fine, Located, Busy, Good, ClientStates
<1>2. todo \in Seq(Peers) /\ Range(s.todo) = {Head(s.todo)} \cup Range(todo)
  BY <1>1, HeadIsPeer, RangeOfTail
<1>3. /\ ReplicatedTo(held, s.file, s.i - 1)
      /\ \A j \in 1 .. Replicas :
           NearManifest[m][j] \in Range(s.todo) \/ m \in known[NearManifest[m][j]]
  BY DEF Good, Uploading
<1>4. \A j \in 1 .. Replicas :
        NearManifest[m][j] \in Range(todo) \/ m \in known[NearManifest[m][j]]
  BY <1>2, <1>3
<1> HIDE DEF todo
<1>5. /\ rest \in ClientStates /\ rest.op = s.op /\ rest.pc = s.pc /\ rest.key = s.key
      /\ rest.i = s.i /\ rest.file = s.file /\ rest.todo = todo
  <2>1. rest = [s EXCEPT !.todo = todo]
    BY DEF todo
  <2> QED
    BY <1>1, <1>2, <2>1 DEF ClientStates
<1>6. CASE todo = <<>>
  <2>1. Announced(known, m)
    BY <1>4, <1>6, RangeOfNone DEF Announced
  <2>2. /\ last.op = s.op /\ last.pc = "local" /\ last.key = s.key
        /\ last.i = s.i /\ last.file = s.file
    BY <1>5 DEF ClientStates
  <2> HIDE DEF last
  <2>3. Uploading(held, known, last)
    BY <1>3, <2>1, <2>2 DEF Uploading
  <2>4. Good(held, known, shared, last)
    BY <1>1, <2>2, <2>3 DEF Good, Downloading, Explained
  <2> QED
    BY <1>5, <1>6, <2>4 DEF last
<1>7. CASE todo # <<>>
  <2>1. Uploading(held, known, rest)
    BY <1>1, <1>3, <1>4, <1>5 DEF Uploading
  <2>2. Good(held, known, shared, rest)
    BY <1>1, <1>5, <2>1 DEF Good, Downloading, Explained
  <2> QED
    BY <1>5, <1>7, <2>2
<1> QED
  BY <1>6, <1>7

LEMMA AbortGood ==
  ASSUME NEW held, NEW known, NEW shared,
         NEW s \in ClientStates, s.op = "put", s.key = 0
  PROVE  Good(held, known, shared, Abort(s))
<1>1. PICK t : t = Abort(s)
  OBVIOUS
<1>2. t.op = "put" /\ t.key = 0 /\ t.pc = "failed"
  BY <1>1 DEF Abort, ClientStates
<1>3. Good(held, known, shared, t)
  BY <1>2 DEF Good, Uploading, Downloading, Explained
<1> QED
  BY <1>1, <1>3

-----------------------------------------------------------------------------
(* getFile: a target that was reached was not given up.                    *)

LEMMA DownloadFromGood ==
  ASSUME NEW held, NEW known, NEW shared,
         NEW s \in ClientStates, s.op = "get", s.key = 0,
         NEW i \in 1 .. Len(Content[s.file]) + 1,
         Complete(held, Manifest(s.file, s.key))
  PROVE  Good(held, known, shared, DownloadFrom(s, i))
<1>0. PICK t : t = DownloadFrom(s, i)
  OBVIOUS
<1>1. /\ t \in ClientStates
      /\ t.op = "get" /\ t.file = s.file /\ t.key = s.key /\ t.i = i
      /\ \/ t.pc = "done"
         \/ /\ t.pc = "fetch" /\ i \in 1 .. Len(Content[s.file])
            /\ t.todo = Candidates(NearBlock[Content[s.file][i]])
  BY <1>0, DownloadFromFields
<1>2. t.pc = "fetch" => \A j \in 1 .. Replicas : Asked(t)[j] \in Range(t.todo)
  <2> SUFFICES ASSUME t.pc = "fetch"
               PROVE  \A j \in 1 .. Replicas : Asked(t)[j] \in Range(t.todo)
    OBVIOUS
  <2>1. t.i \in 1 .. Len(Content[t.file]) /\ t.todo = Candidates(NearBlock[Block(t)])
    BY <1>1 DEF Block
  <2>2. NearBlock[Block(t)] \in Placements
    BY <1>1, <2>1, BlockType
  <2>3. Asked(t) = NearBlock[Block(t)]
    BY <2>1 DEF Asked, Block
  <2> QED
    BY <2>1, <2>2, <2>3, CandidatesFacts
<1>3. Complete(held, Manifest(t.file, t.key))
  BY <1>1
<1>4. Good(held, known, shared, t)
  BY <1>1, <1>2, <1>3 DEF Good, Uploading, Downloading, Explained
<1> QED
  BY <1>0, <1>4

\* A download that was refused has nothing to explain.
LEMMA RefusedGood ==
  ASSUME NEW held, NEW known, NEW shared, NEW s, s.key = 0, s.pc = "refused"
  PROVE  Good(held, known, shared, s)
  BY DEF Good, Uploading, Downloading, Explained

LEMMA WithManifestGood ==
  ASSUME NEW held, NEW known, NEW shared, NEW c,
         NEW s \in ClientStates, s.op = "get",
         NEW m \in Manifests, m.key = 0, Complete(held, m), WithManifest(c, s, m)
  PROVE  \E t : Good(held, known, shared, t) /\ Become(c, t)
<1> DEFINE f == m.file
<1>1. PICK t, r : t = [s EXCEPT !.file = f, !.key = 0]
                  /\ r = [t EXCEPT !.pc = "refused"]
  OBVIOUS
<1>2. f \in Files /\ 0 \in 0 .. MaxOps
  BY NetAssumption DEF Manifests
<1>3. Become(c, DownloadFrom(t, 1)) \/ Become(c, r)
  BY <1>1 DEF WithManifest
<1>6. Complete(held, Manifest(f, 0))
  BY DEF Complete, Manifest
<1> HIDE DEF f
<1>4. t \in ClientStates /\ t.op = s.op /\ t.file = f /\ t.key = 0
      /\ r.key = 0 /\ r.pc = "refused"
  BY <1>1, <1>2 DEF ClientStates
<1>5. 1 \in 1 .. Len(Content[t.file]) + 1
  BY <1>2, <1>4, ContentType
<1>7. Good(held, known, shared, DownloadFrom(t, 1))
  BY <1>4, <1>5, <1>6, DownloadFromGood
<1>8. Good(held, known, shared, r)
  BY <1>4, RefusedGood
<1> QED
  BY <1>3, <1>7, <1>8

LEMMA SkipGood ==
  ASSUME NEW held, NEW known, NEW shared,
         NEW s, Fine(s), s.pc \in {"find", "fetch"}, Good(held, known, shared, s),
         NEW p, p = Head(s.todo), NEW u \in BOOLEAN,
         u \/ s.file \notin Readable \/ \A j \in 1 .. Replicas : Asked(s)[j] # p
  PROVE  Good(held, known, shared, Skip(s, p, u))
<1> DEFINE failed == IF u THEN s.failed \cup {p} ELSE s.failed
           todo == Tail(s.todo)
           t == [s EXCEPT !.todo = todo, !.failed = failed]
<1>1. s \in ClientStates /\ s.todo # <<>> /\ s.op = "get" /\ s.todo \in Seq(Peers)
  BY DEF Fine, Busy, Located, ClientStates
<1>2. /\ todo \in Seq(Peers) /\ failed \in SUBSET Peers
      /\ Range(s.todo) = {p} \cup Range(todo)
  <2>1. Fields(s)
    BY <1>1, FieldTypes
  <2> QED
    BY <1>1, <2>1, HeadIsPeer, RangeOfTail DEF Fields
<1>3. Skip(s, p, u) = IF t.todo = <<>> THEN Abort(t) ELSE t
  BY DEF Skip
<1>4. s.file \in Readable =>
        \A j \in 1 .. Replicas : Asked(s)[j] \in Range(todo) \/ Asked(s)[j] \in failed
  BY <1>2 DEF Good, Downloading
<1> HIDE DEF failed, todo
<1>5. /\ t \in ClientStates /\ t.op = s.op /\ t.file = s.file /\ t.i = s.i
      /\ t.key = s.key /\ t.pc = s.pc /\ t.todo = todo /\ t.failed = failed
  BY <1>1, <1>2 DEF ClientStates
<1> HIDE DEF t
<1>6. Asked(t) = Asked(s)
  BY <1>5 DEF Asked
<1>7. CASE todo # <<>>
  <2>1. Downloading(held, t)
    BY <1>4, <1>5, <1>6 DEF Good, Downloading
  <2>2. Good(held, known, shared, t)
    BY <1>1, <1>5, <2>1 DEF Good, Uploading, Explained
  <2> QED
    BY <1>3, <1>5, <1>7, <2>2
<1>8. CASE todo = <<>>
  <2>1. PICK r : r = Abort(t)
    OBVIOUS
  <2>2. /\ r.op = t.op /\ r.file = t.file /\ r.i = t.i /\ r.key = t.key
        /\ r.failed = t.failed /\ r.pc = "failed"
    BY <1>5, <2>1 DEF Abort, ClientStates
  <2>3. Asked(r) = Asked(s)
    BY <1>5, <2>2 DEF Asked
  <2>4. r.file \in Readable => \A j \in 1 .. Replicas : Asked(r)[j] \in r.failed
    BY <1>4, <1>5, <1>8, <2>2, <2>3, RangeOfNone
  <2>5. Good(held, known, shared, r)
    BY <1>5, <2>2, <2>4 DEF Good, Uploading, Downloading, Explained
  <2> QED
    BY <1>3, <1>5, <1>8, <2>1, <2>5
<1> QED
  BY <1>7, <1>8

-----------------------------------------------------------------------------
(* The steps.                                                              *)

\* A step of client c that only adds copies.
LEMMA BecomeGood ==
  ASSUME Sound, AllGood, NEW c \in Clients, NEW t, Become(c, t),
         Grows(chunks, chunks'), Learns(manifests, manifests'),
         returned \subseteq returned',
         PeersGood(chunks', manifests', returned', local'),
         Good(chunks', manifests', returned', t)
  PROVE  AllGood'
<1>1. ASSUME NEW d \in Clients
      PROVE  Good(chunks', manifests', returned', cl'[d])
  <2>1. cl'[d] = IF d = c THEN t ELSE cl[d]
    BY DEF Sound, ClientsFine, Become
  <2>2. Good(chunks, manifests, returned, cl[d]) /\ Fine(cl[d])
    BY DEF AllGood, Sound, ClientsFine
  <2>3. Good(chunks', manifests', returned', cl[d])
    BY <2>2, GoodGrows
  <2> QED
    BY <2>1, <2>3
<1> QED
  BY <1>1 DEF AllGood

\* A step of client c that leaves the peers and the manifests alone.
LEMMA BecomeGoodAlone ==
  ASSUME Sound, AllGood, NEW c \in Clients, NEW t, Become(c, t),
         UNCHANGED <<chunks, manifests, returned, local>>,
         Good(chunks, manifests, returned, t)
  PROVE  AllGood'
<1>1. Grows(chunks, chunks') /\ Learns(manifests, manifests') /\ returned \subseteq returned'
  BY DEF Grows, Learns
<1>2. PeersGood(chunks', manifests', returned', local')
  BY DEF AllGood
<1>3. Good(chunks', manifests', returned', t)
  OBVIOUS
<1> QED
  BY <1>1, <1>2, <1>3, BecomeGood

LEMMA PutFileGood ==
  ASSUME Sound, AllGood, Encrypting = {}, NEW c \in Clients, NEW f \in Files, PutFile(c, f)
  PROVE  AllGood'
<1> DEFINE k == 0
           s == [Idle EXCEPT !.op = "put", !.file = f, !.key = k]
<1>1. Become(c, UploadFrom(s, 1)) /\ UNCHANGED <<chunks, manifests, returned, local>>
  BY DEF PutFile, net
<1>6. k \in 0 .. MaxOps
  BY NetAssumption
<1> HIDE DEF k
<1>7. s \in ClientStates /\ s.op = "put" /\ s.file = f /\ s.key = k
  BY <1>6, IdleType DEF ClientStates
<1> HIDE DEF s
<1>2. s \in ClientStates /\ s.op = "put" /\ s.file = f /\ s.key = 0
  BY <1>7 DEF k
<1>3. 1 \in 1 .. Len(Content[s.file]) + 1
  BY <1>2, ContentType
<1>4. ReplicatedTo(chunks, s.file, 1 - 1)
  BY DEF ReplicatedTo
<1>5. Good(chunks, manifests, returned, UploadFrom(s, 1))
  BY <1>2, <1>3, <1>4, UploadFromGood
<1> QED
  BY <1>1, <1>5, BecomeGoodAlone

LEMMA AskHasGood ==
  ASSUME Sound, AllGood, NEW c \in Clients, AskHas(c)
  PROVE  AllGood'
<1> DEFINE s == cl[c]
           p == Head(s.todo)
           b == Block(s)
           With(has) == [s EXCEPT !.todo = Tail(@),
                                  !.already = IF has THEN @ + 1 ELSE @,
                                  !.missing = IF has THEN @ ELSE Append(@, p)]
<1>1. UNCHANGED <<chunks, manifests, returned, local>>
  BY DEF AskHas, net
<1>2. /\ Fine(s) /\ s \in ClientStates /\ s.pc = "has"
      /\ Good(chunks, manifests, returned, s)
  BY DEF Sound, ClientsFine, AskHas, AllGood
<1>3. \/ \E has \in BOOLEAN : /\ has => chunks[p][b] # Nothing
                              /\ Become(c, AfterAsking(With(has)))
      \/ Become(c, Abort(s))
  BY Zenon DEF AskHas
<1> HIDE DEF s
<1>4. /\ Fields(s) /\ s.op = "put" /\ s.i \in 1 .. Len(Content[s.file])
      /\ s.todo # <<>> /\ s.key = 0
  BY <1>2, FieldTypes DEF Fine, Located, Busy, Good
<1>5. ASSUME NEW has \in BOOLEAN, has => chunks[p][b] # Nothing
      PROVE  Good(chunks, manifests, returned, AfterAsking(With(has)))
  <2> DEFINE todo == Tail(s.todo)
             already == IF has THEN s.already + 1 ELSE s.already
             missing == IF has THEN s.missing ELSE Append(s.missing, p)
             t == [s EXCEPT !.todo = todo, !.already = already, !.missing = missing]
  <2>1. todo \in Seq(Peers) /\ already \in Nat /\ missing \in Seq(Peers)
    BY <1>4 DEF Fields
  <2>2. With(has) = t
    OBVIOUS
  <2>3. p \in Peers /\ Range(s.todo) = {p} \cup Range(todo) /\ b \in Blocks
    BY <1>2, <1>4, HeadIsPeer, RangeOfTail, BlockType DEF Fields
  <2>4. Range(s.missing) \subseteq Range(missing) /\ (has \/ p \in Range(missing))
    BY <1>4, <2>3, RangeOfAppend DEF Fields
  <2>5. has => chunks[p][b] = Plain(b)
    BY <1>5, <2>3 DEF AllGood, PeersGood
  <2>6. already + Len(missing) + Len(todo) = Replicas
    <3>1. s.already + Len(s.missing) + Len(s.todo) = Replicas
      BY <1>2 DEF Good, Uploading
    <3>2. /\ Len(todo) = Len(s.todo) - 1 /\ Len(s.todo) \in Nat
          /\ Len(missing) = IF has THEN Len(s.missing) ELSE Len(s.missing) + 1
          /\ Len(s.missing) \in Nat /\ s.already \in Nat
      BY <1>4, <2>3 DEF Fields
    <3>3. already = IF has THEN s.already + 1 ELSE s.already
      OBVIOUS
    <3> DEFINE ls == Len(s.todo)
               lm == Len(s.missing)
               a == s.already
    <3> HIDE DEF todo, missing, already, ls, lm, a
    <3>4. /\ a + lm + ls = Replicas
          /\ Len(todo) = ls - 1 /\ ls \in Nat /\ lm \in Nat /\ a \in Nat
          /\ Len(missing) = IF has THEN lm ELSE lm + 1
          /\ already = IF has THEN a + 1 ELSE a
      BY <3>1, <3>2, <3>3 DEF ls, lm, a
    <3> QED
      BY <3>4
  <2>7. \A j \in 1 .. Replicas :
           \/ NearBlock[b][j] \in Range(todo)
           \/ NearBlock[b][j] \in Range(missing)
           \/ chunks[NearBlock[b][j]][b] = Plain(b)
    <3>1. \A j \in 1 .. Replicas :
             \/ NearBlock[b][j] \in Range(s.todo)
             \/ NearBlock[b][j] \in Range(s.missing)
             \/ chunks[NearBlock[b][j]][b] = Plain(b)
      BY <1>2 DEF Good, Uploading
    <3> QED
      BY <2>3, <2>4, <2>5, <3>1
  <2> HIDE DEF todo, already, missing
  <2>8. /\ t \in ClientStates
        /\ t.op = s.op /\ t.pc = s.pc /\ t.i = s.i /\ t.file = s.file /\ t.key = s.key
        /\ t.todo = todo /\ t.already = already /\ t.missing = missing
    BY <1>2, <2>1 DEF ClientStates
  <2> HIDE DEF t
  <2>9. Block(t) = b
    BY <2>8 DEF Block
  <2>10. ReplicatedTo(chunks, s.file, s.i - 1)
    BY <1>2 DEF Good, Uploading
  <2>11. Uploading(chunks, manifests, t)
    BY <1>2, <2>6, <2>7, <2>8, <2>9, <2>10 DEF Uploading
  <2>12. Good(chunks, manifests, returned, AfterAsking(t))
    BY <1>2, <1>4, <2>8, <2>11, AfterAskingGood
  <2> QED
    BY <2>2, <2>12
<1>6. Good(chunks, manifests, returned, Abort(s))
  BY <1>2, <1>4, AbortGood
<1>7. PICK t : Good(chunks, manifests, returned, t) /\ Become(c, t)
  BY <1>3, <1>5, <1>6, Zenon
<1> QED
  BY <1>1, <1>7, BecomeGoodAlone

LEMMA PutChunkGood ==
  ASSUME Sound, AllGood, NEW c \in Clients, PutChunk(c)
  PROVE  AllGood'
<1> DEFINE s == cl[c]
           p == Head(s.todo)
           b == Block(s)
           rest == [s EXCEPT !.todo = Tail(@)]
           stored == [chunks EXCEPT ![p][b] = Encoded(s.file, s.key, s.i)]
<1>1. /\ Fine(s) /\ s \in ClientStates /\ s.pc = "put"
      /\ Good(chunks, manifests, returned, s)
  BY DEF Sound, ClientsFine, PutChunk, AllGood
<1>2. \/ /\ chunks' = stored
         /\ Become(c, IF rest.todo = <<>> THEN UploadFrom(s, s.i + 1) ELSE rest)
      \/ chunks' \in {chunks, stored} /\ Become(c, Abort(s))
  BY Zenon DEF PutChunk
<1>3. UNCHANGED <<manifests, local, returned>>
  BY DEF PutChunk
<1> HIDE DEF s
<1>4. /\ s.op = "put" /\ s.i \in 1 .. Len(Content[s.file]) /\ s.todo # <<>> /\ s.key = 0
  BY <1>1 DEF Fine, Located, Busy, Good
<1>5. p \in Peers /\ b \in Blocks /\ Encoded(s.file, s.key, s.i) = Plain(b)
  BY <1>1, <1>4, HeadIsPeer, BlockType DEF Encoded, Block
<1> HIDE DEF p, b
<1>6. /\ \A q \in Peers, d \in Blocks :
           stored[q][d] = IF q = p /\ d = b THEN Plain(b) ELSE chunks[q][d]
      /\ stored[p][b] = Plain(b)
  BY <1>5 DEF Sound, NetType
<1> HIDE DEF stored
<1>7. /\ Grows(chunks, chunks')
      /\ \A q \in Peers, d \in Blocks : chunks'[q][d] \in {Nothing, Plain(d)}
  <2>1. Grows(chunks, stored)
    BY <1>6 DEF Grows
  <2>2. \A q \in Peers, d \in Blocks : stored[q][d] \in {Nothing, Plain(d)}
    BY <1>6 DEF AllGood, PeersGood
  <2>3. chunks' = chunks \/ chunks' = stored
    BY <1>2
  <2> QED
    BY <2>1, <2>2, <2>3 DEF Grows, AllGood, PeersGood
<1>8. PeersGood(chunks', manifests', returned', local')
  <2>1. PeersGood(chunks, manifests, returned, local)
    BY DEF AllGood
  <2>2. ASSUME NEW q \in Peers, NEW m \in manifests[q]
        PROVE  Complete(chunks', m)
    <3>1. m \in Manifests /\ Complete(chunks, m)
      BY <2>1 DEF PeersGood, Sound, NetType
    <3> QED
      BY <1>7, <3>1, CompleteGrows
  <2>3. ASSUME NEW d \in Clients, NEW f \in Files, local[d][f] # Nothing
        PROVE  local[d][f].key = 0 /\ Complete(chunks', local[d][f])
    <3>1. /\ local[d][f] \in Manifests /\ local[d][f].key = 0
          /\ Complete(chunks, local[d][f])
      BY <2>1, <2>3 DEF PeersGood, Sound, NetType
    <3> QED
      BY <1>7, <3>1, CompleteGrows
  <2> QED
    BY <1>3, <1>7, <2>1, <2>2, <2>3 DEF PeersGood
<1>9. Learns(manifests, manifests') /\ returned \subseteq returned'
  BY <1>3 DEF Learns
<1>10. Good(chunks', manifests', returned', s)
  BY <1>1, <1>7, <1>9, GoodGrows
<1>11. chunks' = stored =>
         Good(chunks', manifests', returned',
              IF rest.todo = <<>> THEN UploadFrom(s, s.i + 1) ELSE rest)
  <2> SUFFICES ASSUME chunks' = stored
               PROVE  Good(chunks', manifests', returned',
                           IF rest.todo = <<>> THEN UploadFrom(s, s.i + 1) ELSE rest)
    OBVIOUS
  <2>1. chunks'[Head(s.todo)][Block(s)] = Plain(Block(s))
    BY <1>6 DEF p, b
  <2> HIDE DEF rest
  <2>2. rest = [s EXCEPT !.todo = Tail(@)]
    BY DEF rest
  <2> QED
    BY <1>1, <1>10, <2>1, <2>2, PutStepGood
<1>12. Good(chunks', manifests', returned', Abort(s))
  BY <1>1, <1>4, AbortGood
<1>13. PICK t : Good(chunks', manifests', returned', t) /\ Become(c, t)
  BY <1>2, <1>11, <1>12, Zenon
<1> QED
  BY <1>7, <1>8, <1>9, <1>13, BecomeGood

LEMMA PutManifestGood ==
  ASSUME Sound, AllGood, NEW c \in Clients, PutManifest(c), losses' = 0
  PROVE  AllGood'
<1> DEFINE s == cl[c]
           p == Head(s.todo)
           m == Manifest(s.file, s.key)
           rest == [s EXCEPT !.todo = Tail(@)]
           next == IF rest.todo = <<>> THEN [rest EXCEPT !.pc = "local"] ELSE rest
           stored == [manifests EXCEPT ![p] = @ \cup {m}]
<1>1. /\ Fine(s) /\ s \in ClientStates /\ s.pc = "manifest"
      /\ Good(chunks, manifests, returned, s)
  BY DEF Sound, ClientsFine, PutManifest, AllGood
<1>2. \/ manifests' = stored /\ Become(c, next)
      \/ manifests' \in {manifests, stored} /\ Become(c, Abort(s))
  <2>1. ~ Lose
    BY DEF Lose, Sound, NetType
  <2> QED
    BY <2>1, Zenon DEF PutManifest
<1>3. UNCHANGED <<chunks, local, returned>>
  BY DEF PutManifest
<1> HIDE DEF s
<1>4. /\ s.op = "put" /\ s.i = Len(Content[s.file]) + 1 /\ s.todo # <<>> /\ s.key = 0
  BY <1>1 DEF Fine, Located, Busy, Good
<1>5. p \in Peers /\ m \in Manifests
  BY <1>1, <1>4, HeadIsPeer, ManifestType
<1>6. Complete(chunks, m)
  <2>1. ReplicatedTo(chunks, s.file, s.i - 1)
    BY <1>1 DEF Good, Uploading
  <2> QED
    BY <1>1, <1>4, <2>1, CompleteAtEnd
<1> HIDE DEF p, m
<1>7. /\ \A q \in Peers : stored[q] = IF q = p THEN manifests[q] \cup {m} ELSE manifests[q]
      /\ m \in stored[p]
  BY <1>5 DEF Sound, NetType
<1> HIDE DEF stored, next
<1>8. manifests' = manifests \/ manifests' = stored
  BY <1>2
<1>9. Learns(manifests, manifests') /\ Grows(chunks, chunks') /\ returned \subseteq returned'
  BY <1>3, <1>7, <1>8 DEF Learns, Grows
<1>10. PeersGood(chunks', manifests', returned', local')
  <2>1. PeersGood(chunks, manifests, returned, local)
    BY DEF AllGood
  <2>2. ASSUME NEW q \in Peers, NEW n \in manifests'[q]
        PROVE  Complete(chunks, n)
    <3>1. n = m \/ n \in manifests[q]
      BY <1>7, <1>8
    <3> QED
      BY <1>6, <2>1, <3>1 DEF PeersGood
  <2>3. ASSUME NEW n \in returned
        PROVE  n.key = 0 /\ Announced(manifests', n)
    <3>1. n \in Manifests /\ n.key = 0 /\ Announced(manifests, n)
      BY <2>1 DEF PeersGood, Sound, NetType
    <3> QED
      BY <1>9, <3>1, AnnouncedGrows
  <2> QED
    BY <1>3, <2>1, <2>2, <2>3 DEF PeersGood
<1>11. Good(chunks', manifests', returned', s)
  BY <1>1, <1>9, GoodGrows
<1>12. manifests' = stored => Good(chunks', manifests', returned', next)
  <2> SUFFICES ASSUME manifests' = stored
               PROVE  Good(chunks', manifests', returned', next)
    OBVIOUS
  <2>1. Manifest(s.file, s.key) \in manifests'[Head(s.todo)]
    BY <1>7 DEF p, m
  <2> HIDE DEF rest
  <2>2. rest = [s EXCEPT !.todo = Tail(@)]
    BY DEF rest
  <2>3. next = IF rest.todo = <<>> THEN [rest EXCEPT !.pc = "local"] ELSE rest
    BY Zenon DEF next, rest
  <2>4. Good(chunks', manifests', returned',
             IF rest.todo = <<>> THEN [rest EXCEPT !.pc = "local"] ELSE rest)
    BY <1>1, <1>11, <2>1, <2>2, ManifestStepGood
  <2> QED
    BY <2>3, <2>4
<1>13. Good(chunks', manifests', returned', Abort(s))
  BY <1>1, <1>4, AbortGood
<1>14. PICK t : Good(chunks', manifests', returned', t) /\ Become(c, t)
  BY <1>2, <1>12, <1>13, Zenon
<1> QED
  BY <1>9, <1>10, <1>14, BecomeGood

LEMMA WriteLocalGood ==
  ASSUME Sound, AllGood, NEW c \in Clients, WriteLocal(c)
  PROVE  AllGood'
<1> DEFINE s == cl[c]
           m == Manifest(s.file, s.key)
           done == [s EXCEPT !.pc = "done"]
<1>1. /\ Fine(s) /\ s \in ClientStates /\ s.pc = "local"
      /\ Good(chunks, manifests, returned, s)
  BY DEF Sound, ClientsFine, WriteLocal, AllGood
<1>2. \/ /\ \/ local' = [local EXCEPT ![c][s.file] = m]
            \/ local' = [local EXCEPT ![c][s.file] = Nothing]
         /\ returned' = returned \cup {m}
         /\ Become(c, done)
      \/ Become(c, Abort(s)) /\ UNCHANGED <<local, returned>>
  BY Zenon DEF WriteLocal
<1>3. UNCHANGED <<chunks, manifests>>
  BY DEF WriteLocal, net
<1> HIDE DEF s
<1>4. s.op = "put" /\ s.i = Len(Content[s.file]) + 1 /\ s.key = 0 /\ s.file \in Files
  BY <1>1 DEF Fine, Located, Good, ClientStates
<1>5. m \in Manifests /\ m.key = 0
  BY <1>1, <1>4, ManifestType DEF Manifest
<1>6. Complete(chunks, m) /\ Announced(manifests, m)
  <2>1. ReplicatedTo(chunks, s.file, s.i - 1) /\ Announced(manifests, m)
    BY <1>1 DEF Good, Uploading
  <2> QED
    BY <1>1, <1>4, <2>1, CompleteAtEnd
<1>7. Good(chunks, manifests, returned', done) /\ Good(chunks, manifests, returned', Abort(s))
  <2>1. done.op = s.op /\ done.pc = "done" /\ done.key = s.key
    BY <1>1 DEF ClientStates
  <2> HIDE DEF done
  <2>2. Good(chunks, manifests, returned', done)
    BY <1>4, <2>1 DEF Good, Uploading, Downloading, Explained
  <2> QED
    BY <1>1, <1>4, <2>2, AbortGood
<1>8. PICK f : f = s.file
  OBVIOUS
<1> HIDE DEF m, done
<1>9. /\ returned' = returned \/ returned' = returned \cup {m}
      /\ \A d \in Clients, g \in Files : local'[d][g] \in {local[d][g], m, Nothing}
  <2>1. local \in [Clients -> [Files -> Manifests \cup {Nothing}]]
    BY DEF Sound, NetType
  <2>2. local' \in {local, [local EXCEPT ![c][f] = m],
                    [local EXCEPT ![c][f] = Nothing]}
    BY <1>2, <1>8
  <2>3. returned' = returned \/ returned' = returned \cup {m}
    BY <1>2
  <2> QED
    BY <2>1, <2>2, <2>3
<1>10. PeersGood(chunks', manifests', returned', local')
  <2>1. PeersGood(chunks, manifests, returned, local)
    BY DEF AllGood
  <2> QED
    BY <1>3, <1>5, <1>6, <1>9, <2>1 DEF PeersGood
<1>11. Grows(chunks, chunks') /\ Learns(manifests, manifests') /\ returned \subseteq returned'
  BY <1>3, <1>9 DEF Grows, Learns
<1>12. PICK t : Good(chunks', manifests', returned', t) /\ Become(c, t)
  BY <1>2, <1>3, <1>7
<1> QED
  BY <1>10, <1>11, <1>12, BecomeGood

LEMMA GetFileGood ==
  ASSUME Sound, AllGood, NEW c \in Clients, NEW m \in returned, GetFile(c, m)
  PROVE  AllGood'
<1> DEFINE f == m.file
           k == m.key
           todo == Candidates(NearManifest[m])
           t == [Idle EXCEPT !.op = "get", !.pc = "find", !.file = f, !.key = k,
                             !.todo = todo]
<1>1. /\ m \in Manifests /\ f \in Files /\ k \in 0 .. MaxOps /\ k = 0
      /\ m = Manifest(f, k)
  BY DEF Sound, NetType, Manifests, AllGood, PeersGood, Manifest
<1>2. /\ todo \in Seq(Peers)
      /\ \A j \in 1 .. Replicas : NearManifest[m][j] \in Range(todo)
  <2>1. NearManifest[m] \in Placements
    BY <1>1 DEF Placements
  <2> QED
    BY <2>1, CandidatesFacts
<1>3. Become(c, t) /\ UNCHANGED <<chunks, manifests, returned, local>>
  BY DEF GetFile, net
<1> HIDE DEF f, k, todo
<1>4. /\ t.op = "get" /\ t.pc = "find" /\ t.file = f /\ t.key = k /\ t.todo = todo
  BY <1>1, <1>2, IdleType DEF ClientStates, Busy
<1>5. t.i = 0
  BY DEF Idle
<1> HIDE DEF t
<1>6. Asked(t) = NearManifest[m] /\ Manifest(t.file, t.key) = m
  BY <1>1, <1>4, <1>5 DEF Asked
<1>7. Good(chunks, manifests, returned, t)
  BY <1>1, <1>2, <1>4, <1>6 DEF Good, Uploading, Downloading, Explained
<1> QED
  BY <1>3, <1>7, BecomeGoodAlone

LEMMA GetFileLocalGood ==
  ASSUME Sound, AllGood, NEW c \in Clients, NEW f \in Files, GetFileLocal(c, f)
  PROVE  AllGood'
<1> DEFINE m == local[c][f]
           s == [Idle EXCEPT !.op = "get"]
           r == [Idle EXCEPT !.op = "get", !.file = f, !.pc = "refused"]
<1>1. m \in Manifests /\ m.key = 0 /\ Complete(chunks, m)
  BY DEF Sound, NetType, GetFileLocal, AllGood, PeersGood
<1>2. UNCHANGED <<chunks, manifests, returned, local>>
  BY DEF GetFileLocal, net
<1>3. WithManifest(c, s, m) \/ Become(c, r)
  BY Zenon DEF GetFileLocal
<1>4. s \in ClientStates /\ s.op = "get" /\ r.pc = "refused"
  BY IdleType DEF ClientStates
<1>5. r.key = 0
  BY DEF Idle
<1> HIDE DEF m, s, r
<1>6. \E t : Good(chunks, manifests, returned, t) /\ Become(c, t)
  BY <1>1, <1>3, <1>4, <1>5, WithManifestGood, RefusedGood
<1> QED
  BY <1>2, <1>6, BecomeGoodAlone

LEMMA FindManifestGood ==
  ASSUME Sound, AllGood, NEW c \in Clients, FindManifest(c)
  PROVE  AllGood'
<1> DEFINE s == cl[c]
           p == Head(s.todo)
           m == Manifest(s.file, s.key)
<1>1. /\ Fine(s) /\ s \in ClientStates /\ s.pc = "find"
      /\ Good(chunks, manifests, returned, s)
  BY DEF Sound, ClientsFine, FindManifest, AllGood
<1>2. \/ m \in manifests[p] /\ WithManifest(c, s, m)
      \/ /\ m \notin manifests[p] \/ m.file \notin Readable
         /\ Become(c, Skip(s, p, FALSE))
      \/ Become(c, Skip(s, p, TRUE))
  BY Zenon DEF FindManifest, Offers
<1>3. UNCHANGED <<chunks, manifests, returned, local>>
  BY DEF FindManifest, net
<1> HIDE DEF s
<1>4. s.todo # <<>> /\ s.op = "get" /\ s.i = 0 /\ s.key = 0
  BY <1>1 DEF Fine, Located, Busy, Good
<1>5. p \in Peers /\ m \in Manifests /\ m.key = 0 /\ m.file = s.file
  BY <1>1, <1>4, HeadIsPeer, ManifestType DEF Manifest
<1>6. Announced(manifests, m) /\ Asked(s) = NearManifest[m]
  BY <1>1, <1>4 DEF Good, AllGood, PeersGood, Asked
<1> HIDE DEF m
<1>7. m \in manifests[p] /\ WithManifest(c, s, m) =>
        \E t : Good(chunks, manifests, returned, t) /\ Become(c, t)
  <2>1. m \in manifests[p] => Complete(chunks, m)
    BY <1>5 DEF AllGood, PeersGood
  <2> QED
    BY <1>1, <1>4, <1>5, <2>1, WithManifestGood
<1>8. m \notin manifests[p] \/ m.file \notin Readable =>
        Good(chunks, manifests, returned, Skip(s, p, FALSE))
  <2>1. m \notin manifests[p] => \A j \in 1 .. Replicas : Asked(s)[j] # p
    BY <1>6 DEF Announced
  <2> HIDE DEF p
  <2>2. p = Head(s.todo)
    BY DEF p
  <2> QED
    BY <1>1, <1>5, <2>1, <2>2, SkipGood
<1>9. Good(chunks, manifests, returned, Skip(s, p, TRUE))
  <2> HIDE DEF p
  <2>2. p = Head(s.todo)
    BY DEF p
  <2> QED
    BY <1>1, <2>2, SkipGood
<1>10. PICK t : Good(chunks, manifests, returned, t) /\ Become(c, t)
  BY <1>2, <1>7, <1>8, <1>9, Zenon
<1> QED
  BY <1>3, <1>10, BecomeGoodAlone

LEMMA FetchChunkGood ==
  ASSUME Sound, AllGood, NEW c \in Clients, FetchChunk(c)
  PROVE  AllGood'
<1> DEFINE s == cl[c]
           p == Head(s.todo)
           m == Manifest(s.file, s.key)
           x == chunks[p][Block(s)]
<1>1. /\ Fine(s) /\ s \in ClientStates /\ s.pc = "fetch"
      /\ Good(chunks, manifests, returned, s)
  BY DEF Sound, ClientsFine, FetchChunk, AllGood
<1>2. \/ Accepted(x, m, s.i) /\ WriteBlock(c, s, x)
      \/ ~ Accepted(x, m, s.i) /\ Become(c, Skip(s, p, FALSE))
      \/ Become(c, Skip(s, p, TRUE))
  BY Zenon DEF FetchChunk, FetchFrom
<1>3. UNCHANGED <<chunks, manifests, returned, local>>
  BY DEF FetchChunk, net
<1> HIDE DEF s
<1>4. /\ s.todo # <<>> /\ s.op = "get" /\ s.i \in 1 .. Len(Content[s.file]) /\ s.key = 0
      /\ Complete(chunks, m)
  BY <1>1 DEF Fine, Located, Busy, Good, Downloading
<1>5. /\ Block(s) \in Blocks /\ Block(s) = Content[s.file][s.i]
      /\ Len(Content[s.file]) \in Nat /\ s.i \in Nat \ {0}
      /\ Fields(s)
  BY <1>1, <1>4, BlockType, FieldTypes, ContentType, SMTT(30) DEF Block, Fields
<1>6. Accepted(x, m, s.i) /\ WriteBlock(c, s, x) =>
        \E r : Good(chunks, manifests, returned, r) /\ Become(c, r)
  <2> SUFFICES ASSUME Accepted(x, m, s.i), WriteBlock(c, s, x)
               PROVE  \E r : Good(chunks, manifests, returned, r) /\ Become(c, r)
    OBVIOUS
  <2> HIDE DEF x
  <2>1. PICK t \in ClientStates :
          /\ t.op = s.op /\ t.file = s.file /\ t.key = s.key
          /\ Become(c, DownloadFrom(t, s.i + 1))
    BY <1>1, WriteBlockBecomes
  <2>2. s.i + 1 \in 1 .. Len(Content[t.file]) + 1
    BY <1>4, <1>5, <2>1
  <2>3. Good(chunks, manifests, returned, DownloadFrom(t, s.i + 1))
    BY <1>4, <2>1, <2>2, DownloadFromGood
  <2> QED
    BY <2>1, <2>3
<1>7. ~ Accepted(x, m, s.i) => Good(chunks, manifests, returned, Skip(s, p, FALSE))
  <2> SUFFICES ASSUME ~ Accepted(x, m, s.i)
               PROVE  Good(chunks, manifests, returned, Skip(s, p, FALSE))
    OBVIOUS
  <2>1. Asked(s) = NearBlock[Block(s)]
    BY <1>5 DEF Asked
  <2>2. x # Plain(Block(s))
    BY <1>4, <1>5 DEF Accepted, Manifest
  <2>3. Replicated(chunks, Block(s))
    BY <1>4, <1>5 DEF Complete, ReplicatedTo, Manifest
  <2>4. \A j \in 1 .. Replicas : Asked(s)[j] # p
    BY <2>1, <2>2, <2>3 DEF Replicated
  <2> HIDE DEF p
  <2>5. p = Head(s.todo)
    BY DEF p
  <2> QED
    BY <1>1, <2>4, <2>5, SkipGood
<1>8. Good(chunks, manifests, returned, Skip(s, p, TRUE))
  <2> HIDE DEF p
  <2>2. p = Head(s.todo)
    BY DEF p
  <2> QED
    BY <1>1, <2>2, SkipGood
<1>9. PICK r : Good(chunks, manifests, returned, r) /\ Become(c, r)
  BY <1>2, <1>6, <1>7, <1>8, Zenon
<1> QED
  BY <1>3, <1>9, BecomeGoodAlone

\* Every step keeps it.
LEMMA NextGood ==
  ASSUME Sound, PlainAndKept => AllGood, [Next]_vars, PlainAndKept'
  PROVE  AllGood'
<1>1. losses \in Nat /\ (losses' = losses \/ losses' = losses + 1)
  <2>1. losses \in Nat
    BY DEF Sound, NetType
  <2>2. UNCHANGED losses \/ Lose
    BY ZenonT(60) DEF Next, vars, PutFile, GetFile, GetFileLocal, ClientStep, AskHas,
       PutChunk, PutManifest, WriteLocal, FindManifest, FetchChunk, PeerStops,
       PeerStarts, PeerLoses
  <2> QED
    BY <2>1, <2>2 DEF Lose
<1>2. Encrypting = {} /\ losses = 0 /\ losses' = 0 /\ AllGood
  BY <1>1 DEF PlainAndKept
<1>3. CASE UNCHANGED vars
  BY <1>2, <1>3 DEF vars, AllGood
<1>4. ASSUME NEW c \in Clients, NEW f \in Files, PutFile(c, f) \/ GetFileLocal(c, f)
      PROVE  AllGood'
  BY <1>2, <1>4, PutFileGood, GetFileLocalGood
<1>5. ASSUME NEW c \in Clients, NEW m \in returned, GetFile(c, m)
      PROVE  AllGood'
  BY <1>2, <1>5, GetFileGood
<1>6. ASSUME NEW c \in Clients, ClientStep(c)
      PROVE  AllGood'
  BY <1>2, <1>6, AskHasGood, PutChunkGood, PutManifestGood, WriteLocalGood,
     FindManifestGood, FetchChunkGood
  DEF ClientStep
<1>7. ASSUME NEW p \in Peers, PeerStops(p) \/ PeerStarts(p)
      PROVE  AllGood'
  <2>1. UNCHANGED <<chunks, manifests, returned, local, cl>>
    BY <1>7 DEF PeerStops, PeerStarts
  <2> QED
    BY <1>2, <2>1 DEF AllGood
<1>8. ASSUME NEW p \in Peers, NEW b \in Blocks
      PROVE  ~ PeerLoses(p, b)
  BY <1>2 DEF PeerLoses, Lose
<1> QED
  BY <1>3, <1>4, <1>5, <1>6, <1>7, <1>8, Zenon DEF Next

LEMMA InitGood == Init => AllGood
<1> SUFFICES ASSUME Init
             PROVE  AllGood
  OBVIOUS
<1>1. PeersGood(chunks, manifests, returned, local)
  BY DEF Init, PeersGood
<1>2. Good(chunks, manifests, returned, Idle)
  BY DEF Idle, Good, Uploading, Downloading, Explained
<1>3. \A c \in Clients : cl[c] = Idle
  BY DEF Init
<1> QED
  BY <1>1, <1>2, <1>3 DEF AllGood

\* The inductive invariant holds throughout.
THEOREM Invariance == Spec => []IInv
<1>1. IInv <=> Sound /\ (PlainAndKept => AllGood)
  BY SoundIs, AllGoodIs DEF IInv
<1>2. Init => Sound /\ (PlainAndKept => AllGood)
  BY InitSound, InitGood
<1>3. Sound /\ (PlainAndKept => AllGood) /\ [Next]_vars
      => Sound' /\ (PlainAndKept' => AllGood')
  BY NextSound, NextGood
<1> QED
  BY <1>1, <1>2, <1>3, PTL DEF Spec

\* As long as everyone uploads plaintext and no peer loses a chunk, a manifest
\* that some peer holds leads to all chunks of the file, on all their targets:
\* deduplication by HAS_CHUNK, uploads of the same blocks at the same time, and
\* uploads that are cut off leave no manifest that points at a missing chunk.
THEOREM ManifestsComplete == Spec => []ManifestsAreComplete
<1>1. IInv => ManifestsAreComplete
  <2> SUFFICES ASSUME IInv, PlainAndKept
               PROVE  \A p \in Peers : \A m \in manifests[p] :
                        \A i \in DOMAIN Content[m.file] :
                          Replicated(chunks, Content[m.file][i])
    BY Zenon DEF ManifestsAreComplete, Replicated
  <2>1. ASSUME NEW p \in Peers, NEW m \in manifests[p]
        PROVE  Complete(chunks, m) /\ DOMAIN Content[m.file] = 1 .. Len(Content[m.file])
    <3>1. m.file \in Files
      BY DEF IInv, TypeOK, Manifests
    <3> QED
      BY <3>1, ContentType DEF IInv, PlainInv
  <2> QED
    BY <2>1 DEF Complete, ReplicatedTo
<1> QED
  BY <1>1, Invariance, PTL

\* A download of a share id that putFile returned, of a file whose name can be
\* read back, fails only when it could reach none of the targets of the manifest
\* or of one of the chunks.
THEOREM FailureExplained == Spec => []FailureMeansUnreachable
BY Invariance, PTL DEF IInv

=============================================================================
