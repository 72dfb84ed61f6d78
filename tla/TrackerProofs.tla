--------------------------- MODULE TrackerProofs ----------------------------
(***************************************************************************)
(* Theorems about Tracker, for any peers, chunks, TTL and requests.        *)
(***************************************************************************)
EXTENDS Tracker, TLAPS

\* What a pruning does to both maps, and that they keep their types.
LEMMA PruneTypes ==
  ASSUME TypeOK, PruneStaleAndCleanup
  PROVE  /\ age' \in [Peers -> Ages]
         /\ index' \in [Chunks -> SUBSET Peers]
BY TrackerAssumption
   DEF TypeOK, PruneStaleAndCleanup, Without, Ages, Never

\* Every step of the tracker keeps the types.
LEMMA StepTypes == TypeOK /\ [Next]_vars => TypeOK'
<1> SUFFICES ASSUME TypeOK, [Next]_vars
             PROVE  TypeOK'
  OBVIOUS
<1> USE TrackerAssumption
<1>1. ASSUME NEW p \in Peers, Contact(p)
      PROVE  TypeOK'
  BY <1>1 DEF Contact, TypeOK, Ages, Never, Replies
<1>2. ASSUME NEW c \in Chunks, NEW p \in Peers, Announce(c, p)
      PROVE  TypeOK'
  BY <1>2 DEF Announce, TypeOK, Replies
<1>3. ASSUME NEW c \in Chunks, Where(c)
      PROVE  TypeOK'
  <2>1. Located(c) \subseteq Peers
    BY DEF Located, Known
  <2> QED
    BY <1>3, <2>1 DEF Where, TypeOK, Replies
<1>4. ASSUME NEW desired \in Desireds, NEW limit \in Limits,
             NeedRepair(desired, limit)
      PROVE  TypeOK'
  <2>1. PICK lines \in SUBSET Found(desired) :
          reply' = [cmd |-> "repair", desired |-> desired, limit |-> limit,
                    lines |-> lines]
    BY <1>4 DEF NeedRepair
  <2>2. 1 .. Replicas(desired) - 1 \subseteq Nat
    BY DEF Replicas
  <2>3. lines \in SUBSET (Chunks \X Nat)
    BY <2>1, <2>2 DEF Found
  <2>4. reply' \in Replies
    BY <2>1, <2>3 DEF Replies
  <2> QED
    BY <1>4, <2>4, PruneTypes DEF NeedRepair, TypeOK
<1>5. CASE GetPeers
  <2>1. Known' \subseteq Peers
    BY DEF Known
  <2>2. reply' \in Replies
    BY <1>5, <2>1 DEF GetPeers, Replies
  <2> QED
    BY <1>5, <2>2, PruneTypes DEF GetPeers, TypeOK
<1>6. CASE Invalid
  BY <1>6 DEF Invalid, TypeOK, Replies
<1>7. CASE Tick
  <2>1. age' \in [Peers -> Ages]
    BY <1>7 DEF Tick, TypeOK, Ages, Never
  <2> QED
    BY <1>7, <2>1 DEF Tick, TypeOK, Replies
<1>8. CASE Restart
  BY <1>8 DEF Restart, TypeOK, Ages, Never, Replies
<1>9. CASE UNCHANGED vars
  BY <1>9 DEF vars, TypeOK
<1> QED
  BY <1>1, <1>2, <1>3, <1>4, <1>5, <1>6, <1>7, <1>8, <1>9 DEF Next

\* Type correctness: no request, valid or not, makes an entry that is no peer.
THEOREM TypeCorrect == Spec => []TypeOK
<1>1. Init => TypeOK
  BY TrackerAssumption DEF Init, TypeOK, Ages, Never, Replies
<1> QED
  BY <1>1, StepTypes, PTL DEF Spec

\* A pruning takes away none of the peers that are alive, and makes the index
\* forget the others.
LEMMA PruneForgets ==
  ASSUME TypeOK, PruneStaleAndCleanup
  PROVE  /\ Stale \in SUBSET Peers
         /\ Directory!Forget(Stale)
<1> USE TrackerAssumption
<1>1. Stale \in SUBSET Peers /\ Stale \cap Alive = {}
  BY DEF TypeOK, Stale, Known, Alive, Ages, Never
<1>2. Alive' = Alive
  BY DEF PruneStaleAndCleanup, Without, Stale, Known, Alive, TypeOK, Ages, Never
<1> QED
  BY <1>1, <1>2 DEF Directory!Forget, PruneStaleAndCleanup

\* After a pruning the entries that are left are alive: counting them is
\* counting what WHERE would answer.
LEMMA PruneLeavesAlive ==
  ASSUME TypeOK, PruneStaleAndCleanup
  PROVE  /\ Known' = Alive'
         /\ \A c \in Chunks : Located(c)' = index'[c] \cap Known'
<1> USE TrackerAssumption
<1>1. \A p \in Peers : age'[p] = Never \/ age'[p] \in 0 .. TTL
  BY DEF PruneStaleAndCleanup, Without, Stale, Known, TypeOK, Ages, Never
<1>2. Known' = Alive'
  BY <1>1 DEF Known, Alive, Never
<1>3. \A p \in Known' : age'[p] <= TTL
  BY <1>1 DEF Known, Never
<1> QED
  BY <1>2, <1>3 DEF Located

\* The answers to GET_PEERS and NEED_REPAIR are what WHERE would say at that
\* moment: NEED_REPAIR may count entries without looking at their age.
THEOREM AnswersConsistent == Spec => []AnswersAgree
<1> USE TrackerAssumption
<1>1. Init => AnswersAgree
  BY DEF Init, AnswersAgree, None
<1>2. ASSUME TypeOK, TypeOK', AnswersAgree, [Next]_vars
      PROVE  AnswersAgree'
  <2>1. ASSUME NEW desired \in Desireds, NEW limit \in Limits,
               NeedRepair(desired, limit)
        PROVE  AnswersAgree'
    <3>1. PICK lines \in SUBSET Found(desired) :
            /\ \/ lines = Found(desired) /\ Cardinality(lines) <= Lines(limit)
               \/ Cardinality(lines) = Lines(limit)
            /\ reply' = [cmd |-> "repair", desired |-> desired,
                         limit |-> limit, lines |-> lines]
      BY <2>1 DEF NeedRepair
    <3>2. \A c \in Chunks : Located(c)' = index'[c] \cap Known'
      BY <1>2, <2>1, PruneLeavesAlive DEF NeedRepair
    <3>3. \A line \in Found(desired) :
            /\ line[1] \in Scarce(desired)'
            /\ line[2] = Cardinality(Located(line[1]))'
      BY <3>2 DEF Found, Scarce
    <3>4. Lines(limit) \in Nat
      BY DEF Lines
    <3>5. Cardinality(lines) <= Lines(limit)
      BY <3>1, <3>4
    <3>6. ASSUME Cardinality(lines) < Lines(limit)
          PROVE  Scarce(desired)' \subseteq {line[1] : line \in lines}
      <4>1. lines = Found(desired)
        BY <3>1, <3>4, <3>6
      <4>2. ASSUME NEW c \in Scarce(desired)'
            PROVE  c \in {line[1] : line \in Found(desired)}
        <5>1. c \in Chunks /\ Cardinality(Located(c)') \in 1 .. Replicas(desired) - 1
          BY <4>2 DEF Scarce
        <5>2. <<c, Cardinality(Located(c)')>> \in Found(desired)
          BY <3>2, <5>1 DEF Found
        <5> QED
          BY <5>2
      <4> QED
        BY <4>1, <4>2
    <3> QED
      BY <3>1, <3>3, <3>5, <3>6 DEF AnswersAgree
  <2>2. CASE GetPeers
    BY <1>2, <2>2, PruneLeavesAlive DEF GetPeers, AnswersAgree
  <2>3. ASSUME \/ \E p \in Peers : Contact(p)
               \/ \E c \in Chunks, p \in Peers : Announce(c, p)
               \/ \E c \in Chunks : Where(c)
               \/ Invalid \/ Tick \/ Restart
        PROVE  AnswersAgree'
    <3>1. reply'.cmd \notin {"peers", "repair"}
      BY <2>3 DEF Contact, Announce, Where, Invalid, Tick, Restart, None, Err
    <3> QED
      BY <3>1 DEF AnswersAgree
  <2>4. CASE UNCHANGED vars
    BY <1>2, <2>4 DEF vars, AnswersAgree, Alive, Scarce, Located, Known
  <2> QED
    BY <1>2, <2>1, <2>2, <2>3, <2>4 DEF Next
<1> QED
  BY <1>1, <1>2, TypeCorrect, PTL DEF Spec

\* Who is alive changes by contacts and by the passing of time only, and an
\* announcement is forgotten only while its peer is not alive: the tracker
\* implements ChunkDirectory.
THEOREM Refinement == Spec => ImplementsDirectory
<1> USE TrackerAssumption
<1>1. Init => Directory!Init
  BY DEF Init, Directory!Init, Alive, Never
<1>2. ASSUME TypeOK, [Next]_vars
      PROVE  [Directory!Next]_(Directory!vars)
  <2>1. ASSUME NEW p \in Peers, Contact(p)
        PROVE  Directory!Contact(p)
    <3>1. Alive' = Alive \cup {p}
      BY <1>2, <2>1 DEF Contact, Alive, TypeOK
    <3> QED
      BY <2>1, <3>1 DEF Contact, Directory!Contact
  <2>2. ASSUME NEW c \in Chunks, NEW p \in Peers, Announce(c, p)
        PROVE  Directory!Announce(c, p)
    BY <2>2 DEF Announce, Directory!Announce, Alive
  <2>3. ASSUME NEW desired \in Desireds, NEW limit \in Limits,
               NeedRepair(desired, limit)
        PROVE  Directory!Next
    BY <1>2, <2>3, PruneForgets DEF NeedRepair, Directory!Next
  <2>4. CASE GetPeers
    BY <1>2, <2>4, PruneForgets DEF GetPeers, Directory!Next
  <2>5. CASE Tick
    <3>1. Alive' \subseteq Alive
      BY <1>2, <2>5 DEF Tick, Alive, TypeOK, Ages, Never
    <3>2. /\ Alive \ Alive' \in SUBSET Peers
          /\ Directory!Expire(Alive \ Alive')
      BY <2>5, <3>1 DEF Tick, Directory!Expire, Alive
    <3> QED
      BY <3>2 DEF Directory!Next
  <2>6. CASE Restart
    <3>1. Directory!Reset
      BY <2>6 DEF Restart, Directory!Reset, Alive, Never
    <3> QED
      BY <3>1 DEF Directory!Next
  <2>7. ASSUME NEW c \in Chunks, Where(c)
        PROVE  UNCHANGED Directory!vars
    BY <2>7 DEF Where, Directory!vars, Alive
  <2>8. CASE Invalid \/ UNCHANGED vars
    BY <2>8 DEF Invalid, vars, Directory!vars, Alive
  <2>9. ASSUME NEW c \in Chunks, NEW p \in Peers, Announce(c, p)
        PROVE  Directory!Next
    BY <2>2, <2>9 DEF Directory!Next
  <2>10. ASSUME NEW p \in Peers, Contact(p)
         PROVE  Directory!Next
    BY <2>1, <2>10 DEF Directory!Next
  <2> QED
    BY <1>2, <2>3, <2>4, <2>5, <2>6, <2>7, <2>8, <2>9, <2>10 DEF Next
<1> QED
  BY <1>1, <1>2, TypeCorrect, PTL DEF Spec, ImplementsDirectory, Directory!Spec

=============================================================================
