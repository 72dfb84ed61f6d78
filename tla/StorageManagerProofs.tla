------------------------ MODULE StorageManagerProofs ------------------------
(***************************************************************************)
(* Theorems about StorageManager, for every set of chunks and payloads,    *)
(* every set of limits and every number of kills and errors.               *)
(***************************************************************************)
EXTENDS StorageManager, FiniteSetTheorems, TLAPS

-----------------------------------------------------------------------------
(* File names and the operations on a ledger.                              *)

\* The final and the temporary names are names, and none is used twice.
LEMMA NameFacts ==
  /\ \A c \in Chunks : Fin(c) \in Names /\ Tmp(c) \in Names
  /\ \A c, d : Fin(c) # Tmp(d)
  /\ \A c, d : Fin(c) = Fin(d) => c = d
  /\ \A c, d : Tmp(c) = Tmp(d) => c = d
  BY DEF Fin, Tmp, Names

\* There are finitely many of them.
LEMMA NamesFinite == IsFiniteSet(Names)
<1>1. IsFiniteSet({"fin"}) /\ IsFiniteSet({"tmp"})
  BY FS_Singleton
<1>2. IsFiniteSet({"fin"} \cup {"tmp"})
  BY <1>1, FS_Union
<1>3. {"fin"} \cup {"tmp"} = {"fin", "tmp"}
  OBVIOUS
<1> QED
  BY <1>2, <1>3, FS_Product, ContentAssumption DEF Names

\* usedBytes_ stays a number.
LEMMA WrapType == \A x \in Int : Wrap(x) \in Nat
  BY LimitAssumption DEF Wrap

\* The ledger loadMetadata starts from is a ledger.
LEMMA EmptyLedgerType == EmptyLedger \in Ledger
  BY DEF EmptyLedger, Ledger

\* meta_.erase keeps the type of the ledger.
LEMMA EraseType ==
  ASSUME NEW l \in Ledger, NEW n \in Names
  PROVE  Erase(l, n) \in Ledger
  BY DEF Erase, Ledger

\* Deducting the bytes of an entry never goes below zero.
LEMMA DeductedType ==
  ASSUME NEW l \in Ledger, NEW n \in Names
  PROVE  DeductedUsed(l, n) \in Nat
  BY DEF DeductedUsed, Ledger

\* Assigning usedBytes_ keeps the type of the ledger.
LEMMA SetUsedType ==
  ASSUME NEW l \in Ledger, NEW u \in Nat
  PROVE  [l EXCEPT !.used = u] \in Ledger
  BY DEF Ledger

\* Evicting an entry keeps the type, even where usedBytes_ wraps.
LEMMA EvictedType ==
  ASSUME NEW l \in Ledger, NEW n \in Names
  PROVE  Evicted(l, n) \in Ledger
<1>1. Erase(l, n) \in Ledger /\ Erase(l, n).used = l.used
  BY EraseType DEF Erase, Ledger
<1>2. Wrap(Erase(l, n).used - l.size[n]) \in Nat
  BY <1>1, WrapType DEF Ledger
<1> QED
  BY <1>1, <1>2, SetUsedType DEF Evicted

\* touch() keeps the type of the ledger.
LEMMA TouchType ==
  ASSUME NEW l \in Ledger, NEW n \in Names
  PROVE  Touch(l, n) \in Ledger
<1>1. [l.last EXCEPT ![n] = l.counter + 1] \in [Names -> Nat]
  BY DEF Ledger
<1> QED
  BY <1>1 DEF Touch, Ledger

\* Recording a chunk keeps the type of the ledger.
LEMMA RecordType ==
  ASSUME NEW l \in Ledger, NEW n \in Names, NEW s \in Nat
  PROVE  Record(l, n, s) \in Ledger
<1>1. Wrap(l.used + s) \in Nat
  BY WrapType DEF Ledger
<1>2. [l.last EXCEPT ![n] = l.counter + 1] \in [Names -> Nat]
  BY DEF Ledger
<1>3. [l.size EXCEPT ![n] = s] \in [Names -> Nat]
  BY DEF Ledger
<1> QED
  BY <1>1, <1>2, <1>3 DEF Record, Ledger

\* Reading some of the entries of metadata.db gives a ledger.
LEMMA ReducedType ==
  ASSUME NEW l \in Ledger, NEW S \in SUBSET l.known
  PROVE  Reduced(l, S) \in Ledger
  BY DEF Reduced, Ledger

\* A metadata.db cut short still holds a ledger, with a part of the entries,
\* no lastAccess in it is larger than it was, and at most one is smaller.
LEMMA CutFacts ==
  ASSUME NEW l \in Ledger, NEW S \in SUBSET l.known, NEW k \in Cut(l, S)
  PROVE  /\ k \in Ledger
         /\ k.counter = l.counter
         /\ k.known = S
         /\ \A n \in S : k.last[n] <= l.last[n]
         /\ \A m, n \in S :
              k.last[m] # l.last[m] /\ k.last[n] # l.last[n] => m = n
<1>1. Reduced(l, S) \in Ledger
  BY ReducedType
<1>2. /\ Reduced(l, S).counter = l.counter
      /\ Reduced(l, S).known = S
      /\ \A n \in S : Reduced(l, S).last[n] = l.last[n]
  BY DEF Reduced, Ledger
<1>3. CASE k = Reduced(l, S)
  BY <1>1, <1>2, <1>3 DEF Ledger
<1>4. ASSUME NEW n \in S, NEW v \in Prefixes(l.last[n]),
             k = [Reduced(l, S) EXCEPT !.last = [@ EXCEPT ![n] = v]]
      PROVE  /\ k \in Ledger
             /\ k.counter = l.counter
             /\ k.known = S
             /\ \A m \in S : k.last[m] <= l.last[m]
             /\ \A m \in S : m # n => k.last[m] = l.last[m]
  <2>1. v \in Nat /\ v <= l.last[n]
    BY DEF Prefixes, Ledger
  <2>2. [Reduced(l, S).last EXCEPT ![n] = v] \in [Names -> Nat]
    BY <1>1, <2>1 DEF Ledger
  <2>3. k \in Ledger
    BY <1>1, <1>4, <2>2 DEF Ledger
  <2>4. \A m \in S : k.last[m] <= l.last[m]
    BY <1>1, <1>2, <1>4, <2>1 DEF Ledger
  <2>5. \A m \in S : m # n => k.last[m] = l.last[m]
    BY <1>1, <1>2, <1>4 DEF Ledger
  <2> QED
    BY <1>1, <1>2, <1>4, <2>3, <2>4, <2>5 DEF Ledger
<1> QED
  BY <1>3, <1>4 DEF Cut

-----------------------------------------------------------------------------
(* Type correctness.                                                       *)

\* The parts of TypeOK that a step on the disk or on the ledger changes.
LEMMA RemoveFileType ==
  ASSUME TypeOK, NEW n \in Names, RemoveFile(n)
  PROVE  /\ files' \in [Names -> Content]
         /\ faults' \in 0 .. MaxFaults
         /\ StillOnDisk \subseteq Chunks
  BY BoundAssumption DEF TypeOK, RemoveFile, StillOnDisk, Content

\* The end of a call, in storeChunk with an acknowledgement, is well typed.
LEMMA ReturnType ==
  ASSUME TypeOK, Return
  PROVE  pc' \in Steps /\ call' \in Calls /\ acked' \subseteq Chunks
<1>1. call.op = "store" => call \in StoreCalls
  BY DEF TypeOK, Calls, NoCall, StoreCalls
<1> QED
  BY <1>1 DEF TypeOK, Return, Steps, Calls, StoreCalls

\* The order of use stays a relation between file names.
LEMMA OlderType ==
  ASSUME TypeOK, NEW n \in Names
  PROVE  /\ UsedNow(n) \subseteq Names \X Names
         /\ Forget(n) \subseteq Names \X Names
         /\ scanned \ {n} \subseteq Names /\ scanned \cup {n} \subseteq Names
  BY DEF TypeOK, Ledger, UsedNow, Forget

\* The state before the first init() is well typed.
LEMMA InitType == Init => TypeOK
<1> SUFFICES ASSUME Init PROVE TypeOK
  OBVIOUS
<1>1. /\ crashes \in 0 .. MaxCrashes
      /\ faults \in 0 .. MaxFaults
      /\ shortWrites \in 0 .. MaxShortWrites
  BY BoundAssumption DEF Init
<1>2. files \in [Names -> Content] /\ older \subseteq Names \X Names
  BY DEF Init, Content
<1> QED
  BY <1>1, <1>2, EmptyLedgerType, Zenon DEF Init, TypeOK, Steps, Calls

\* Every step of every call, error and kill keeps the types.
LEMMA TypeStep == TypeOK /\ InFlight /\ [Next]_vars => TypeOK'
<1> SUFFICES ASSUME TypeOK, InFlight, [Next]_vars PROVE TypeOK'
  OBVIOUS
<1> USE DEF disk, ghost, uses, uses
<1>1. ASSUME NEW m \in Limits, LoadMetadata(m) PROVE TypeOK'
  BY <1>1 DEF TypeOK, LoadMetadata, Steps
<1>2. ASSUME NEW m \in Limits, RebuildMetadataFromDisk(m) PROVE TypeOK'
  BY <1>2, EmptyLedgerType DEF TypeOK, RebuildMetadataFromDisk, Steps, Calls
<1>3. ASSUME NEW c \in Chunks, NEW d \in Data, StoreChunk(c, d) PROVE TypeOK'
  <2>1. mem' \in Ledger
    BY <1>3, NameFacts, DeductedType, SetUsedType DEF TypeOK, StoreChunk
  <2>2. files' \in [Names -> Content]
    BY <1>3, NameFacts DEF TypeOK, StoreChunk, Content
  <2>3. call' \in Calls /\ pc' \in Steps
    BY <1>3 DEF StoreChunk, Calls, StoreCalls, Steps
  <2> QED
    BY <1>3, <2>1, <2>2, <2>3 DEF TypeOK, StoreChunk
<1>4. ASSUME NEW c \in Chunks, StoreOpenFails(c) PROVE TypeOK'
  <2>1. mem' \in Ledger
    BY <1>4, NameFacts, DeductedType, SetUsedType DEF TypeOK, StoreOpenFails
  <2> QED
    BY <1>4, <2>1, BoundAssumption DEF TypeOK, StoreOpenFails
<1>5. ASSUME NEW c \in Chunks, LoadChunk(c) PROVE TypeOK'
  <2>1. mem' \in Ledger
    BY <1>5, NameFacts, TouchType DEF TypeOK, LoadChunk
  <2>2. older' \subseteq Names \X Names /\ scanned' \subseteq Names /\ unfair' = unfair
    BY <1>5, NameFacts, OlderType DEF TypeOK, LoadChunk, Use, uses
  <2> QED
    BY <1>5, <2>1, <2>2 DEF TypeOK, LoadChunk, Steps, Calls
<1>6. ASSUME NEW c \in Chunks, DeleteChunk(c) PROVE TypeOK'
  <2>1. mem' \in Ledger
    BY <1>6, NameFacts, EraseType, DeductedType, SetUsedType
    DEF TypeOK, DeleteChunk
  <2>2. /\ files' \in [Names -> Content]
        /\ faults' \in 0 .. MaxFaults
        /\ acked' \subseteq Chunks
        /\ older' \subseteq Names \X Names
        /\ scanned' \subseteq Names
    BY <1>6, NameFacts, RemoveFileType, OlderType DEF DeleteChunk, Drop
  <2> QED
    BY <1>6, <2>1, <2>2 DEF TypeOK, DeleteChunk, Steps, Calls
<1>7. ASSUME NEW m \in Limits, SetMaxBytes(m) PROVE TypeOK'
  BY <1>7 DEF TypeOK, SetMaxBytes, Steps, Calls
<1>8. ASSUME NEW n \in Names, ScanFile(n) PROVE TypeOK'
  <2>1. FileSize(files[n]) \in Nat
    BY <1>8, ContentAssumption DEF TypeOK, ScanFile, Present, Content, FileSize
  <2>2. mem' \in Ledger
    BY <1>8, <2>1, RecordType DEF TypeOK, ScanFile
  <2> QED
    BY <1>8, <2>2, OlderType DEF TypeOK, ScanFile
<1>9. CASE ScanDone
  BY <1>9, BoundAssumption DEF TypeOK, ScanDone, Steps
<1>10. CASE StoreWrite
  <2>1. call \in StoreCalls
    BY <1>10 DEF StoreWrite, InFlight
  <2>2. files' \in [Names -> Content] /\ shortWrites' \in 0 .. MaxShortWrites
    BY <1>10, <2>1, NameFacts, BoundAssumption
    DEF TypeOK, StoreWrite, StoreCalls, Content
  <2> QED
    BY <1>10, <2>2 DEF TypeOK, StoreWrite, Steps
<1>11. CASE StoreRename
  <2>1. call.chunk \in Chunks /\ call.data \in Data
    BY <1>11 DEF StoreRename, InFlight, StoreCalls
  <2>2. SizeOf[call.data] \in Nat
    BY <2>1, ContentAssumption
  <2>3. mem' \in Ledger
    BY <1>11, <2>1, <2>2, NameFacts, RecordType DEF TypeOK, StoreRename
  <2>4. files' \in [Names -> Content]
    BY <1>11, <2>1, NameFacts DEF TypeOK, StoreRename, Content
  <2>5. older' \subseteq Names \X Names /\ scanned' \subseteq Names /\ unfair' = unfair
    BY <1>11, <2>1, NameFacts, OlderType DEF StoreRename, Use
  <2> QED
    BY <1>11, <2>3, <2>4, <2>5 DEF TypeOK, StoreRename, Steps
<1>12. CASE StoreRenameFails
  <2>1. call.chunk \in Chunks
    BY <1>12 DEF StoreRenameFails, InFlight, StoreCalls
  <2>2. files' \in [Names -> Content]
    BY <1>12, <2>1, NameFacts DEF TypeOK, StoreRenameFails, RemoveTmp, Content
  <2> QED
    BY <1>12, <2>2, BoundAssumption DEF TypeOK, StoreRenameFails, Steps, Calls
<1>13. ASSUME NEW n \in Names, EnforceLimit(n) PROVE TypeOK'
  <2>1. mem' \in Ledger
    BY <1>13, EvictedType DEF TypeOK, EnforceLimit
  <2>2. /\ files' \in [Names -> Content]
        /\ faults' \in 0 .. MaxFaults
        /\ acked' \subseteq Chunks
        /\ older' \subseteq Names \X Names
        /\ scanned' \subseteq Names
        /\ unfair' \in Nat
    BY <1>13, RemoveFileType, OlderType DEF TypeOK, EnforceLimit, Drop
  <2> QED
    BY <1>13, <2>1, <2>2 DEF TypeOK, EnforceLimit
<1>14. CASE EnforceLimitDone
  BY <1>14 DEF TypeOK, EnforceLimitDone, Steps
<1>15. CASE EnforceNoLimit
  BY <1>15, ReturnType DEF TypeOK, EnforceNoLimit
<1>16. CASE PersistMetadata
  <2>1. faults' \in 0 .. MaxFaults
    BY <1>16, BoundAssumption DEF TypeOK, PersistMetadata
  <2>2. dbOk' \in BOOLEAN /\ db' \in Ledger
    <3>1. CASE Unfinished
      BY <3>1, EmptyLedgerType, CutFacts DEF TypeOK, Unfinished
    <3> QED
      BY <1>16, <3>1, Zenon DEF TypeOK, PersistMetadata
  <2> QED
    BY <1>16, <2>1, <2>2, ReturnType DEF TypeOK, PersistMetadata
<1>17. CASE Stop
  BY <1>17, EmptyLedgerType DEF TypeOK, Stop, Steps
<1>18. CASE Crash
  <2>1. dbOk' \in BOOLEAN /\ db' \in Ledger
    BY <1>18, EmptyLedgerType, CutFacts DEF TypeOK, Crash, Unfinished
  <2> QED
    BY <1>18, <2>1, EmptyLedgerType, BoundAssumption
    DEF TypeOK, Crash, Steps, Calls
<1>19. CASE UNCHANGED vars
  BY <1>19 DEF TypeOK, vars
<1> QED
  BY <1>1, <1>2, <1>3, <1>4, <1>5, <1>6, <1>7, <1>8, <1>9, <1>10, <1>11,
     <1>12, <1>13, <1>14, <1>15, <1>16, <1>17, <1>18, <1>19
  DEF Next, Start, CallStep

-----------------------------------------------------------------------------
(* The chunk files.                                                        *)

\* How one step changes the file of a chunk c: not at all, by removing it, or
\* by the rename that ends the writing of c.
LEMMA FileStep ==
  ASSUME TypeOK, InFlight, [Next]_vars, NEW c \in Chunks
  PROVE  \/ files'[Fin(c)] = files[Fin(c)]
         \/ /\ files'[Fin(c)] = Absent
            /\ acked' = StillOnDisk
         \/ StoreRename /\ call.chunk = c /\ files'[Fin(c)] = files[Tmp(c)]
<1> USE DEF disk, ghost, uses, uses
<1>1. ASSUME NEW x \in Chunks, NEW d \in Data, StoreChunk(x, d)
      PROVE  files'[Fin(c)] = files[Fin(c)]
  BY <1>1, NameFacts DEF TypeOK, StoreChunk
<1>2. ASSUME NEW x \in Chunks, DeleteChunk(x)
      PROVE  \/ files'[Fin(c)] = files[Fin(c)]
             \/ files'[Fin(c)] = Absent /\ acked' = StillOnDisk
  BY <1>2, NameFacts DEF TypeOK, DeleteChunk, RemoveFile
<1>3. CASE StoreWrite
  <2>1. call.chunk \in Chunks
    BY <1>3 DEF StoreWrite, InFlight, StoreCalls
  <2> QED
    BY <1>3, <2>1, NameFacts DEF TypeOK, StoreWrite
<1>4. CASE StoreRename
  <2>1. call.chunk \in Chunks
    BY <1>4 DEF StoreRename, InFlight, StoreCalls
  <2>2. Fin(call.chunk) # Tmp(call.chunk) /\ Fin(c) # Tmp(call.chunk)
    BY NameFacts
  <2>3. Fin(c) \in DOMAIN files /\ Fin(call.chunk) \in DOMAIN files
    BY <2>1, NameFacts DEF TypeOK
  <2>4. CASE call.chunk = c
    BY <1>4, <2>2, <2>3, <2>4 DEF StoreRename
  <2>5. CASE call.chunk # c
    BY <1>4, <2>2, <2>3, <2>5, NameFacts DEF StoreRename
  <2> QED
    BY <2>4, <2>5
<1>5. CASE StoreRenameFails
  BY <1>5, NameFacts DEF TypeOK, StoreRenameFails, RemoveTmp
<1>6. ASSUME NEW n \in Names, EnforceLimit(n)
      PROVE  \/ files'[Fin(c)] = files[Fin(c)]
             \/ files'[Fin(c)] = Absent /\ acked' = StillOnDisk
  BY <1>6, NameFacts DEF TypeOK, EnforceLimit, RemoveFile
<1>7. CASE UNCHANGED files
  BY <1>7
<1>8. \/ \E x \in Chunks, d \in Data : StoreChunk(x, d)
      \/ \E x \in Chunks : DeleteChunk(x)
      \/ StoreWrite \/ StoreRename \/ StoreRenameFails
      \/ \E n \in Names : EnforceLimit(n)
      \/ UNCHANGED files
  BY DEF Next, Start, CallStep, vars, LoadMetadata, RebuildMetadataFromDisk,
         StoreOpenFails, LoadChunk, SetMaxBytes, ScanFile, ScanDone,
         EnforceLimitDone, EnforceNoLimit, PersistMetadata, Stop, Crash
<1> QED
  BY <1>1, <1>2, <1>3, <1>4, <1>5, <1>6, <1>7, <1>8

\* What a store call owns stays as it is until the rename.
LEMMA InFlightStep == TypeOK /\ InFlight /\ [Next]_vars => InFlight'
<1> SUFFICES ASSUME TypeOK, InFlight, [Next]_vars, pc' \in {"write", "rename"}
             PROVE  InFlight'
  BY DEF InFlight
<1> USE DEF disk, ghost, uses, uses
<1>1. ASSUME NEW c \in Chunks, NEW d \in Data, StoreChunk(c, d) PROVE InFlight'
  BY <1>1, NameFacts, ContentAssumption
  DEF TypeOK, StoreChunk, InFlight, StoreCalls
<1>2. CASE StoreWrite
  <2>1. call \in StoreCalls /\ call' = call /\ pc' = "rename"
    BY <1>2 DEF StoreWrite, InFlight
  <2>2. call.chunk \in Chunks /\ call.data \in Data
    BY <2>1 DEF StoreCalls
  <2>3. files[Tmp(call.chunk)] # Absent /\ Tmp(call.chunk) \in Names
    BY <1>2, <2>2, NameFacts DEF StoreWrite, InFlight
  <2>4. \/ files'[Tmp(call.chunk)] = call.data
        \/ files' = files /\ shortWrites' # 0
    BY <1>2, <2>3, BoundAssumption DEF TypeOK, StoreWrite
  <2> QED
    BY <2>1, <2>2, <2>3, <2>4, ContentAssumption DEF InFlight
<1>3. CASE UNCHANGED vars
  BY <1>3 DEF vars, InFlight
<1>4. \/ \E c \in Chunks, d \in Data : StoreChunk(c, d)
      \/ StoreWrite
      \/ UNCHANGED vars
  BY DEF Next, Start, CallStep, LoadMetadata, RebuildMetadataFromDisk,
         StoreOpenFails, LoadChunk, DeleteChunk, SetMaxBytes, ScanFile,
         ScanDone, StoreRename, StoreRenameFails, EnforceLimit,
         EnforceLimitDone, EnforceNoLimit, PersistMetadata, Return, Stop, Crash
<1> QED
  BY <1>1, <1>2, <1>3, <1>4

\* Only the rename of a payload that was cut short puts a torn file in place.
LEMMA WholeChunksStep ==
  TypeOK /\ InFlight /\ WholeChunks /\ [Next]_vars => WholeChunks'
<1> SUFFICES ASSUME TypeOK, InFlight, WholeChunks, [Next]_vars,
                    shortWrites' = 0, NEW c \in Chunks
             PROVE  files'[Fin(c)] # Torn
  BY DEF WholeChunks
<1>1. shortWrites = 0
  BY BoundAssumption
  DEF TypeOK, disk, ghost, uses, Next, Start, CallStep, vars, LoadMetadata,
      RebuildMetadataFromDisk, StoreChunk, StoreOpenFails, LoadChunk,
      DeleteChunk, SetMaxBytes, ScanFile, ScanDone, StoreWrite, StoreRename,
      StoreRenameFails, EnforceLimit, EnforceLimitDone, EnforceNoLimit,
      PersistMetadata, Stop, Crash
<1>2. files[Fin(c)] # Torn
  BY <1>1 DEF WholeChunks
<1>3. StoreRename => files[Tmp(call.chunk)] \in Data
  BY <1>1 DEF StoreRename, InFlight
<1> QED
  BY <1>2, <1>3, FileStep, ContentAssumption

\* An acknowledged chunk keeps a whole file until it is dropped.
LEMMA AckedDurableStep ==
  TypeOK /\ InFlight /\ AckedDurable /\ [Next]_vars => AckedDurable'
<1> SUFFICES ASSUME TypeOK, InFlight, AckedDurable, [Next]_vars, NEW c \in acked'
             PROVE  files'[Fin(c)] \in Data
  BY DEF AckedDurable
<1>1. TypeOK'
  BY TypeStep
<1>2. c \in Chunks
  BY <1>1 DEF TypeOK
<1>3. CASE c \notin acked
  <2>1. Return /\ files' = files
    BY <1>3
    DEF disk, ghost, uses, Next, Start, CallStep, vars, LoadMetadata,
        RebuildMetadataFromDisk, StoreChunk, StoreOpenFails, LoadChunk,
        DeleteChunk, SetMaxBytes, ScanFile, ScanDone, StoreWrite, StoreRename,
        StoreRenameFails, EnforceLimit, EnforceLimitDone, EnforceNoLimit,
        PersistMetadata, Stop, Crash, StillOnDisk
  <2> QED
    BY <1>3, <2>1 DEF Return
<1>4. CASE c \in acked
  <2>1. files[Fin(c)] \in Data
    BY <1>4 DEF AckedDurable
  <2>2. CASE files'[Fin(c)] = Absent /\ acked' = StillOnDisk
    BY <2>2 DEF StillOnDisk
  <2>3. CASE StoreRename /\ call.chunk = c /\ files'[Fin(c)] = files[Tmp(c)]
    <3>1. files[Tmp(c)] # Torn
      BY <2>3 DEF StoreRename
    <3>2. files[Tmp(c)] # Absent
      BY <2>3 DEF StoreRename, InFlight
    <3>3. files[Tmp(c)] \in Content
      BY <1>2, NameFacts DEF TypeOK
    <3> QED
      BY <2>3, <3>1, <3>2, <3>3 DEF Content
  <2> QED
    BY <1>2, <2>1, <2>2, <2>3, FileStep
<1> QED
  BY <1>3, <1>4

-----------------------------------------------------------------------------
(* The order of use.                                                       *)

\* What the operations on a ledger do to accessCounter_ and lastAccess.
LEMMA LedgerFacts ==
  ASSUME NEW l \in Ledger, NEW n \in Names
  PROVE  /\ \A u : /\ [l EXCEPT !.used = u].counter = l.counter
                   /\ [l EXCEPT !.used = u].known = l.known
                   /\ [l EXCEPT !.used = u].last = l.last
         /\ Erase(l, n).counter = l.counter
         /\ Erase(l, n).known = l.known \ {n}
         /\ \A m \in Names \ {n} : Erase(l, n).last[m] = l.last[m]
         /\ \A s : /\ Record(l, n, s).counter = l.counter + 1
                   /\ Record(l, n, s).known = l.known \cup {n}
                   /\ Record(l, n, s).last[n] = l.counter + 1
                   /\ \A m \in Names \ {n} : Record(l, n, s).last[m] = l.last[m]
         /\ n \in l.known =>
              /\ Touch(l, n).counter = l.counter + 1
              /\ Touch(l, n).known = l.known
              /\ Touch(l, n).last[n] = l.counter + 1
              /\ \A m \in Names \ {n} : Touch(l, n).last[m] = l.last[m]
         /\ n \notin l.known => Touch(l, n) = l
<1>1. \A u : /\ [l EXCEPT !.used = u].counter = l.counter
             /\ [l EXCEPT !.used = u].known = l.known
             /\ [l EXCEPT !.used = u].last = l.last
  BY DEF Ledger
<1>2. /\ Erase(l, n).counter = l.counter
      /\ Erase(l, n).known = l.known \ {n}
      /\ \A m \in Names \ {n} : Erase(l, n).last[m] = l.last[m]
  BY DEF Ledger, Erase
<1>3. \A s : /\ Record(l, n, s).counter = l.counter + 1
             /\ Record(l, n, s).known = l.known \cup {n}
             /\ Record(l, n, s).last[n] = l.counter + 1
             /\ \A m \in Names \ {n} : Record(l, n, s).last[m] = l.last[m]
  BY DEF Ledger, Record
<1>4. n \in l.known =>
        /\ Touch(l, n).counter = l.counter + 1
        /\ Touch(l, n).known = l.known
        /\ Touch(l, n).last[n] = l.counter + 1
        /\ \A m \in Names \ {n} : Touch(l, n).last[m] = l.last[m]
  BY DEF Ledger, Touch
<1>5. n \notin l.known => Touch(l, n) = l
  BY DEF Touch
<1> QED
  BY <1>1, <1>2, <1>3, <1>4, <1>5

\* The part of CounterAhead about one ledger.
AheadIn(l) == \A n \in l.known : l.last[n] <= l.counter

\* The operations on a ledger keep accessCounter_ ahead of its entries.
LEMMA AheadFacts ==
  ASSUME NEW l \in Ledger, AheadIn(l), NEW n \in Names
  PROVE  /\ \A u : AheadIn([l EXCEPT !.used = u])
         /\ AheadIn(Erase(l, n))
         /\ AheadIn(Evicted(l, n))
         /\ \A s : AheadIn(Record(l, n, s))
         /\ AheadIn(Touch(l, n))
<1>1. \A u : AheadIn([l EXCEPT !.used = u])
  BY LedgerFacts DEF AheadIn
<1>2. AheadIn(Erase(l, n))
  BY LedgerFacts DEF AheadIn, Ledger
<1>3. AheadIn(Evicted(l, n))
  BY <1>2, EraseType, LedgerFacts DEF AheadIn, Evicted
<1>4. \A s : AheadIn(Record(l, n, s))
  BY LedgerFacts DEF AheadIn, Ledger
<1>5. AheadIn(Touch(l, n))
  BY LedgerFacts DEF AheadIn, Ledger
<1> QED
  BY <1>1, <1>2, <1>3, <1>4, <1>5

\* accessCounter_ never falls behind: not even what a kill leaves of metadata.db
\* holds a lastAccess beyond the counter stored with it.
LEMMA CounterAheadStep ==
  TypeOK /\ InFlight /\ CounterAhead /\ [Next]_vars => CounterAhead'
<1> SUFFICES ASSUME TypeOK, InFlight, CounterAhead, [Next]_vars
             PROVE  AheadIn(mem') /\ AheadIn(db')
  BY DEF CounterAhead, AheadIn
<1> USE DEF disk, ghost, uses, uses
<1>a. mem \in Ledger /\ db \in Ledger
  BY DEF TypeOK
<1>b. AheadIn(mem) /\ AheadIn(db)
  BY DEF CounterAhead, AheadIn
<1>c. AheadIn(EmptyLedger)
  BY DEF AheadIn, EmptyLedger
<1>1. ASSUME NEW c \in Chunks, NEW d \in Data, StoreChunk(c, d)
      PROVE  AheadIn(mem') /\ AheadIn(db')
  BY <1>1, <1>a, <1>b, NameFacts, AheadFacts DEF StoreChunk
<1>2. ASSUME NEW c \in Chunks, StoreOpenFails(c)
      PROVE  AheadIn(mem') /\ AheadIn(db')
  BY <1>2, <1>a, <1>b, NameFacts, AheadFacts DEF StoreOpenFails
<1>3. ASSUME NEW c \in Chunks, LoadChunk(c)
      PROVE  AheadIn(mem') /\ AheadIn(db')
  BY <1>3, <1>a, <1>b, NameFacts, AheadFacts DEF LoadChunk
<1>4. ASSUME NEW c \in Chunks, DeleteChunk(c)
      PROVE  AheadIn(mem') /\ AheadIn(db')
  <2>1. Erase(mem, Fin(c)) \in Ledger /\ AheadIn(Erase(mem, Fin(c)))
    BY <1>a, <1>b, NameFacts, EraseType, AheadFacts
  <2> QED
    BY <1>4, <1>b, <2>1, NameFacts, AheadFacts DEF DeleteChunk
<1>5. ASSUME NEW n \in Names, ScanFile(n)
      PROVE  AheadIn(mem') /\ AheadIn(db')
  BY <1>5, <1>a, <1>b, AheadFacts DEF ScanFile
<1>6. CASE StoreRename
  <2>1. call.chunk \in Chunks
    BY <1>6 DEF StoreRename, InFlight, StoreCalls
  <2> QED
    BY <1>6, <2>1, <1>a, <1>b, NameFacts, AheadFacts DEF StoreRename
<1>7. ASSUME NEW n \in Names, EnforceLimit(n)
      PROVE  AheadIn(mem') /\ AheadIn(db')
  BY <1>7, <1>a, <1>b, AheadFacts DEF EnforceLimit
<1>8. ASSUME Unfinished PROVE AheadIn(db')
  <2>1. ASSUME NEW S \in SUBSET mem.known, NEW k \in Cut(mem, S)
        PROVE  AheadIn(k)
    <3>1. /\ k \in Ledger
          /\ k.counter = mem.counter
          /\ k.known = S
          /\ \A n \in S : k.last[n] <= mem.last[n]
      BY <1>a, CutFacts
    <3>2. \A n \in S : /\ n \in Names
                       /\ mem.last[n] <= mem.counter
      BY <1>a, <1>b DEF AheadIn, Ledger
    <3>3. /\ k.last \in [Names -> Nat]
          /\ mem.last \in [Names -> Nat]
          /\ mem.counter \in Nat
      BY <1>a, <3>1 DEF Ledger
    <3> QED
      BY <3>1, <3>2, <3>3 DEF AheadIn
  <2>2. \/ db' = db
        \/ db' = EmptyLedger
        \/ \E S \in SUBSET mem.known : db' \in Cut(mem, S)
    BY <1>8 DEF Unfinished
  <2> QED
    BY <1>b, <1>c, <2>1, <2>2
<1>8a. CASE Crash \/ PersistMetadata
  BY <1>8, <1>8a, <1>b, <1>c DEF Crash, PersistMetadata
<1>9. ASSUME mem' \in {mem, db, EmptyLedger}, db' \in {mem, db}
      PROVE  AheadIn(mem') /\ AheadIn(db')
  BY <1>9, <1>b, <1>c
<1>10. \/ \E c \in Chunks, d \in Data : StoreChunk(c, d)
       \/ \E c \in Chunks : StoreOpenFails(c) \/ LoadChunk(c) \/ DeleteChunk(c)
       \/ \E n \in Names : ScanFile(n) \/ EnforceLimit(n)
       \/ StoreRename
       \/ Crash \/ PersistMetadata
       \/ mem' \in {mem, db, EmptyLedger} /\ db' \in {mem, db}
  BY DEF Next, Start, CallStep, vars, LoadMetadata, RebuildMetadataFromDisk,
         SetMaxBytes, ScanDone, StoreWrite, StoreRenameFails, EnforceLimitDone,
         EnforceNoLimit, Stop
<1> QED
  BY <1>1, <1>2, <1>3, <1>4, <1>5, <1>6, <1>7, <1>8a, <1>9, <1>10

\* Every call under a limit that can write metadata.db ends by writing it.
LEMMA SavedStep == TypeOK /\ Saved /\ [Next]_vars => Saved'
<1> SUFFICES ASSUME TypeOK, Saved, [Next]_vars,
                    faults' = 0, 0 \notin Limits, pc' = "idle"
             PROVE  dbOk' /\ db' = mem'
  BY DEF Saved, Ordering
<1> USE DEF disk, ghost, uses, uses
<1>1. faults \in Nat /\ max # 0
  BY BoundAssumption DEF TypeOK
<1>2. \/ \E m \in Limits : LoadMetadata(m)
      \/ PersistMetadata
      \/ UNCHANGED vars
  BY <1>1 DEF Next, Start, CallStep, RebuildMetadataFromDisk, StoreChunk,
         StoreOpenFails, LoadChunk, DeleteChunk, SetMaxBytes, ScanFile,
         ScanDone, StoreWrite, StoreRename, StoreRenameFails, EnforceLimit,
         EnforceLimitDone, EnforceNoLimit, Stop, Crash
<1>3. CASE \E m \in Limits : LoadMetadata(m)
  <2>1. UNCHANGED dbOk /\ db' = mem'
    BY <1>3 DEF LoadMetadata
  <2>2. dbOk
    BY <1>3, Zenon DEF LoadMetadata
  <2> QED
    BY <2>1, <2>2, Zenon
<1>4. CASE PersistMetadata
  <2>1. faults' # faults + 1
    BY <1>1
  <2> QED
    BY <1>4, <2>1, Zenon DEF PersistMetadata
<1>5. CASE UNCHANGED vars
  <2>1. UNCHANGED faults /\ UNCHANGED pc /\ UNCHANGED dbOk /\ UNCHANGED db
        /\ UNCHANGED mem
    BY <1>5 DEF vars
  <2> QED
    BY <2>1, Zenon DEF Saved, Ordering
<1> QED
  BY <1>2, <1>3, <1>4, <1>5

\* A ~dbOk metadata.db has nothing to read, and a scan lists what it found.
LEMMA ScanningStep == TypeOK /\ Scanning /\ [Next]_vars => Scanning'
<1> SUFFICES ASSUME TypeOK, Scanning, [Next]_vars PROVE Scanning'
  OBVIOUS
<1> USE DEF disk, ghost, uses
<1>1. ASSUME NEW m \in Limits, RebuildMetadataFromDisk(m) PROVE Scanning'
  BY <1>1, Zenon DEF RebuildMetadataFromDisk, Scanning, EmptyLedger
<1>2. ASSUME NEW n \in Names, ScanFile(n) PROVE Scanning'
  <2>1. mem'.known = mem.known \cup {n} /\ scanned' = scanned \cup {n}
    BY <1>2, LedgerFacts DEF ScanFile, TypeOK
  <2>2. ~dbOk /\ db = EmptyLedger /\ mem.known \subseteq scanned
    BY <1>2, Zenon DEF ScanFile, Scanning
  <2>3. UNCHANGED dbOk /\ UNCHANGED db
    BY <1>2, Zenon DEF ScanFile
  <2>4. mem'.known \subseteq scanned'
    BY <2>1, <2>2
  <2> QED
    BY <2>2, <2>3, <2>4, Zenon DEF Scanning
<1>3. CASE Crash \/ PersistMetadata
  <2>1. pc' # "scan"
    BY <1>3 DEF Crash, PersistMetadata, Return
  <2>2. ~dbOk' => db' = EmptyLedger
    <3>1. CASE Unfinished
      BY <3>1, Zenon DEF Unfinished, Scanning
    <3>2. CASE UNCHANGED <<dbOk, db>>
      BY <3>2, Zenon DEF Scanning
    <3> QED
      BY <1>3, <3>1, <3>2, Zenon DEF Crash, PersistMetadata
  <2> QED
    BY <2>1, <2>2, Zenon DEF Scanning
<1>4. CASE UNCHANGED vars
  <2>1. UNCHANGED dbOk /\ UNCHANGED db /\ UNCHANGED pc /\ UNCHANGED mem
        /\ UNCHANGED scanned
    BY <1>4 DEF vars
  <2> QED
    BY <2>1, Zenon DEF Scanning
<1>5. ASSUME UNCHANGED <<dbOk, db>>, pc' # "scan" PROVE Scanning'
  BY <1>5, Zenon DEF Scanning
<1>6. \/ \E m \in Limits : RebuildMetadataFromDisk(m)
      \/ \E n \in Names : ScanFile(n)
      \/ Crash \/ PersistMetadata
      \/ UNCHANGED vars
      \/ UNCHANGED <<dbOk, db>> /\ pc' # "scan"
  BY DEF Next, Start, CallStep, LoadMetadata, StoreChunk, StoreOpenFails,
         LoadChunk, DeleteChunk, SetMaxBytes, ScanDone, StoreWrite, StoreRename,
         StoreRenameFails, EnforceLimit, EnforceLimitDone, EnforceNoLimit,
         Return, Stop
<1> QED
  BY <1>1, <1>2, <1>3, <1>4, <1>5, <1>6

\* Errors are not undone.
LEMMA FaultsStay ==
  ASSUME TypeOK, [Next]_vars, faults' = 0
  PROVE  faults = 0
  BY BoundAssumption
  DEF disk, ghost, uses, TypeOK, Next, Start, CallStep, vars, LoadMetadata,
      RebuildMetadataFromDisk, StoreChunk, StoreOpenFails, LoadChunk,
      DeleteChunk, SetMaxBytes, ScanFile, ScanDone, StoreWrite, StoreRename,
      StoreRenameFails, EnforceLimit, EnforceLimitDone, EnforceNoLimit,
      PersistMetadata, Stop, Crash, RemoveFile

\* The part of Behind about two ledgers: k is behind l by at most one use, and
\* what it holds of entries that l dropped is in no pair of R.
BehindBy(k, l, R) ==
  /\ \A m, n \in l.known \cap k.known :
       k.last[m] # l.last[m] /\ k.last[n] # l.last[n] => m = n
  /\ \A n \in l.known \cap k.known : k.last[n] <= l.last[n]
  /\ \A n \in k.known \ l.known, p \in R : p[1] # n /\ p[2] # n

\* A ledger is not behind itself, nor is an empty one behind any other.
LEMMA BehindSelf ==
  ASSUME NEW k \in Ledger, NEW l \in Ledger, NEW R,
         k.known = {} \/ (k.known = l.known /\ k.last = l.last)
  PROVE  BehindBy(k, l, R)
<1>1. k.last \in [Names -> Nat] /\ k.known \subseteq Names
  BY DEF Ledger
<1>2. \A n \in k.known : k.last[n] <= k.last[n]
  BY <1>1
<1> QED
  BY <1>2 DEF BehindBy

\* Behind, in terms of BehindBy.
LEMMA BehindIs ==
  ASSUME TypeOK, Ordering
  PROVE  Behind <=>
           (pc # "down" =>
              /\ BehindBy(db, mem, older)
              /\ pc \in {"write", "rename"} =>
                   db.known = mem.known /\ db.last = mem.last)
<1>1. db.last \in [Names -> Nat] /\ mem.last \in [Names -> Nat]
      /\ db.known \subseteq Names /\ mem.known \subseteq Names
  BY DEF TypeOK, Ledger
<1>2. \A n \in mem.known \cap db.known : db.last[n] = mem.last[n] => db.last[n] <= mem.last[n]
  BY <1>1
<1> QED
  BY <1>2 DEF Behind, BehindBy, Unsaved

\* Dropping an entry from the ledger leaves metadata.db behind by what it was.
LEMMA BehindDrop ==
  ASSUME TypeOK, NEW n \in Names, NEW l, BehindBy(db, mem, older),
         l.known = mem.known \ {n}, \A m \in Names \ {n} : l.last[m] = mem.last[m]
  PROVE  BehindBy(db, l, Forget(n))
<1>1. db.known \subseteq Names /\ mem.known \subseteq Names
  BY DEF TypeOK, Ledger
<1>2. \A m \in l.known \cap db.known : m \in mem.known \cap db.known
                                       /\ l.last[m] = mem.last[m]
  BY <1>1
<1>3. \A m \in db.known \ l.known, p \in Forget(n) : p[1] # m /\ p[2] # m
  BY DEF Forget, BehindBy
<1> QED
  BY <1>2, <1>3 DEF BehindBy

\* Using an entry while metadata.db is up to date leaves it one use behind.
LEMMA BehindUse ==
  ASSUME TypeOK, AheadIn(mem), NEW n \in Names, NEW l,
         db.known = mem.known, db.last = mem.last,
         l.known = mem.known \cup {n}, l.last[n] = mem.counter + 1,
         \A m \in Names \ {n} : l.last[m] = mem.last[m]
  PROVE  BehindBy(db, l, UsedNow(n))
<1>1. /\ mem.known \subseteq Names /\ mem.last \in [Names -> Nat]
      /\ mem.counter \in Nat
  BY DEF TypeOK, Ledger
<1>2. \A m \in db.known : m # n => db.last[m] = l.last[m] /\ db.last[m] <= l.last[m]
  BY <1>1
<1>3. n \in db.known => db.last[n] <= l.last[n]
  BY <1>1 DEF AheadIn
<1>4. db.known \ l.known = {}
  OBVIOUS
<1> QED
  BY <1>2, <1>3, <1>4 DEF BehindBy

\* Every step leaves metadata.db behind the ledger by at most one use.
LEMMA BehindStep == OrderInv /\ [Next]_vars => Behind'
<1> HAVE OrderInv /\ [Next]_vars
<1> SUFFICES ASSUME Ordering', pc' # "down"
             PROVE  /\ BehindBy(db', mem', older')
                    /\ pc' \in {"write", "rename"} =>
                         db'.known = mem'.known /\ db'.last = mem'.last
  <2>1. TypeOK'
    BY TypeStep DEF OrderInv
  <2>2. ASSUME Ordering', BehindBy(db', mem', older'),
               pc' \in {"write", "rename"} =>
                 db'.known = mem'.known /\ db'.last = mem'.last
        PROVE  Behind'
    <3>1. db'.last \in [Names -> Nat] /\ mem'.last \in [Names -> Nat]
          /\ db'.known \subseteq Names /\ mem'.known \subseteq Names
      BY <2>1 DEF TypeOK, Ledger
    <3> QED
      BY <2>2, <3>1 DEF Behind, BehindBy, Unsaved
  <2>3. ~Ordering' \/ pc' = "down" => Behind'
    BY DEF Behind
  <2> QED
    BY <2>2, <2>3
<1> USE DEF disk, ghost, uses
<1> DEFINE Goal == /\ BehindBy(db', mem', older')
                   /\ pc' \in {"write", "rename"} =>
                        db'.known = mem'.known /\ db'.last = mem'.last
<1>a. TypeOK /\ InFlight /\ AheadIn(mem)
      /\ mem \in Ledger /\ db \in Ledger /\ faults \in Nat
  BY BoundAssumption DEF OrderInv, CounterAhead, AheadIn, TypeOK
<1>b. Ordering /\ faults = 0 /\ faults' = 0 /\ max # 0
  BY <1>a, FaultsStay DEF Ordering, TypeOK
<1>c. pc # "down" =>
        /\ BehindBy(db, mem, older)
        /\ pc \in {"write", "rename"} => db.known = mem.known /\ db.last = mem.last
  BY <1>a, <1>b, BehindIs DEF OrderInv
<1>d. pc = "idle" => db = mem
  BY <1>b DEF OrderInv, Saved
<1>e. TypeOK'
  BY TypeStep DEF OrderInv
<1>f. mem' \in Ledger /\ db' \in Ledger
  BY <1>e DEF TypeOK
<1>g. EmptyLedger.known = {}
  BY DEF EmptyLedger
<1>1. ASSUME NEW m \in Limits, LoadMetadata(m) PROVE Goal
  BY <1>1, <1>f, BehindSelf DEF LoadMetadata
<1>2. ASSUME NEW m \in Limits, RebuildMetadataFromDisk(m) PROVE Goal
  <2>1. db = EmptyLedger
    BY <1>2, Zenon DEF RebuildMetadataFromDisk, OrderInv, Scanning
  <2> QED
    BY <1>2, <1>f, <1>g, <2>1, BehindSelf DEF RebuildMetadataFromDisk
<1>3. ASSUME NEW n \in Names, ScanFile(n) PROVE Goal
  <2>1. db = EmptyLedger
    BY <1>3, Zenon DEF ScanFile, OrderInv, Scanning
  <2> QED
    BY <1>3, <1>f, <1>g, <2>1, BehindSelf DEF ScanFile
<1>4. ASSUME NEW c \in Chunks, NEW d \in Data, StoreChunk(c, d) PROVE Goal
  <2>1. mem'.known = mem.known /\ mem'.last = mem.last /\ db' = db
    BY <1>4, <1>a, NameFacts, LedgerFacts DEF StoreChunk
  <2>2. db = mem
    BY <1>4, <1>d DEF StoreChunk
  <2> QED
    BY <1>f, <2>1, <2>2, BehindSelf
<1>5. ASSUME NEW c \in Chunks, LoadChunk(c) PROVE Goal
  <2>1. Fin(c) \in Names /\ db = mem /\ db' = db /\ pc' = "persist"
    BY <1>5, <1>d, NameFacts DEF LoadChunk
  <2>2. CASE Fin(c) \in mem.known
    <3>1. mem' = Touch(mem, Fin(c)) /\ older' = UsedNow(Fin(c))
      BY <1>5, <2>2 DEF LoadChunk, Use
    <3>2. /\ mem'.known = mem.known \cup {Fin(c)}
          /\ mem'.last[Fin(c)] = mem.counter + 1
          /\ \A m \in Names \ {Fin(c)} : mem'.last[m] = mem.last[m]
      BY <1>a, <2>1, <2>2, <3>1, LedgerFacts
    <3>3. BehindBy(db, mem', UsedNow(Fin(c)))
      BY <1>a, <2>1, <3>2, BehindUse
    <3> QED
      BY <2>1, <3>1, <3>3
  <2>3. CASE Fin(c) \notin mem.known
    <3>1. mem' = mem
      BY <1>5, <1>a, <2>1, <2>3, LedgerFacts DEF LoadChunk
    <3> QED
      BY <1>f, <2>1, <3>1, BehindSelf
  <2> QED
    BY <2>2, <2>3
<1>6. ASSUME NEW n \in Names, older' = Forget(n), db' = db, pc # "down",
             pc' \notin {"write", "rename"}, NEW u,
             mem' = [Erase(mem, n) EXCEPT !.used = u]
      PROVE  Goal
  <2>1. /\ mem'.known = mem.known \ {n}
        /\ \A m \in Names \ {n} : mem'.last[m] = mem.last[m]
    BY <1>6, <1>a, EraseType, LedgerFacts
  <2>2. BehindBy(db, mem', Forget(n))
    BY <1>6, <1>a, <1>c, <2>1, BehindDrop
  <2> QED
    BY <1>6, <2>2
<1>7. ASSUME NEW c \in Chunks, DeleteChunk(c) PROVE Goal
  BY <1>7, <1>6, NameFacts DEF DeleteChunk, Drop
<1>8. ASSUME NEW n \in Names, EnforceLimit(n) PROVE Goal
  BY <1>8, <1>6 DEF EnforceLimit, Drop, Evicted
<1>9. CASE StoreRename
  <2>1. call.chunk \in Chunks
    BY <1>9, <1>a DEF StoreRename, InFlight, StoreCalls
  <2>2. /\ mem'.known = mem.known \cup {Fin(call.chunk)}
        /\ mem'.last[Fin(call.chunk)] = mem.counter + 1
        /\ \A m \in Names \ {Fin(call.chunk)} : mem'.last[m] = mem.last[m]
    BY <1>9, <1>a, <2>1, NameFacts, LedgerFacts DEF StoreRename
  <2>3. db.known = mem.known /\ db.last = mem.last
    BY <1>9, <1>c DEF StoreRename
  <2>4. BehindBy(db, mem', UsedNow(Fin(call.chunk)))
    BY <1>a, <2>1, <2>2, <2>3, NameFacts, BehindUse
  <2> QED
    BY <1>9, <2>4 DEF StoreRename, Use
<1>10. CASE PersistMetadata
  BY <1>10, <1>b, <1>f, BehindSelf DEF PersistMetadata, Return
<1>11. ASSUME pc # "down", UNCHANGED <<mem, db, older>>,
              pc' \in {"write", "rename"} => pc \in {"write", "rename"}
       PROVE  Goal
  BY <1>11, <1>c
<1>12. \/ \E m \in Limits : LoadMetadata(m) \/ RebuildMetadataFromDisk(m)
       \/ \E n \in Names : ScanFile(n) \/ EnforceLimit(n)
       \/ \E c \in Chunks, d \in Data : StoreChunk(c, d)
       \/ \E c \in Chunks : LoadChunk(c) \/ DeleteChunk(c)
       \/ StoreRename \/ PersistMetadata
       \/ /\ pc # "down" /\ UNCHANGED <<mem, db, older>>
          /\ pc' \in {"write", "rename"} => pc \in {"write", "rename"}
  BY <1>a, <1>b DEF Next, Start, CallStep, vars, SetMaxBytes, ScanDone, StoreWrite,
         StoreOpenFails, StoreRenameFails, EnforceLimitDone, EnforceNoLimit,
         Return, Stop, Crash
<1> QED
  BY <1>1, <1>2, <1>3, <1>4, <1>5, <1>7, <1>8, <1>9, <1>10, <1>11, <1>12

\* Misplaced, for the pairs R and the scanned entries F.
MisplacedIn(l, R, F) ==
  {b \in l.known \ F :
     \E a \in l.known : <<a, b>> \in R /\ l.last[a] >= l.last[b]}

\* The entry used last is not misplaced, and none becomes so by its use.
LEMMA MisplacedUse ==
  ASSUME TypeOK, AheadIn(mem), NEW n \in Names, NEW l,
         l.known = mem.known \cup {n}, l.last[n] = mem.counter + 1,
         \A m \in Names \ {n} : l.last[m] = mem.last[m]
  PROVE  MisplacedIn(l, UsedNow(n), scanned \ {n})
           \subseteq MisplacedIn(mem, older, scanned)
<1>1. /\ mem.known \subseteq Names /\ mem.last \in [Names -> Nat]
      /\ mem.counter \in Nat
  BY DEF TypeOK, Ledger
<1> SUFFICES ASSUME NEW b \in MisplacedIn(l, UsedNow(n), scanned \ {n})
             PROVE  b \in MisplacedIn(mem, older, scanned)
  OBVIOUS
<1>2. PICK a \in l.known : <<a, b>> \in UsedNow(n) /\ l.last[a] >= l.last[b]
  BY DEF MisplacedIn
<1>3. CASE b = n
  <2>1. a \in mem.known /\ a # n
    BY <1>2, <1>3 DEF UsedNow, Forget
  <2>2. l.last[a] = mem.last[a] /\ mem.last[a] <= mem.counter
        /\ mem.last[a] \in Nat
    BY <1>1, <2>1 DEF AheadIn
  <2> QED
    BY <1>1, <1>2, <1>3, <2>2
<1>4. CASE b # n
  <2>1. <<a, b>> \in older /\ a # n
    BY <1>2, <1>4 DEF UsedNow, Forget
  <2>2. a \in mem.known /\ b \in mem.known /\ b \notin scanned
    BY <1>2, <1>4, <2>1 DEF MisplacedIn
  <2>3. l.last[a] = mem.last[a] /\ l.last[b] = mem.last[b]
    BY <1>1, <1>4, <2>1, <2>2
  <2> QED
    BY <1>2, <2>1, <2>2, <2>3 DEF MisplacedIn
<1> QED
  BY <1>3, <1>4

\* Dropping an entry misplaces none.
LEMMA MisplacedDrop ==
  ASSUME TypeOK, NEW n \in Names, NEW l,
         l.known = mem.known \ {n}, \A m \in Names \ {n} : l.last[m] = mem.last[m]
  PROVE  MisplacedIn(l, Forget(n), scanned \ {n})
           \subseteq MisplacedIn(mem, older, scanned) \ {n}
<1>1. mem.known \subseteq Names
  BY DEF TypeOK, Ledger
<1> SUFFICES ASSUME NEW b \in MisplacedIn(l, Forget(n), scanned \ {n})
             PROVE  b \in MisplacedIn(mem, older, scanned) \ {n}
  OBVIOUS
<1>2. PICK a \in l.known : <<a, b>> \in Forget(n) /\ l.last[a] >= l.last[b]
  BY DEF MisplacedIn
<1>3. /\ a \in mem.known /\ b \in mem.known /\ b \notin scanned
      /\ a # n /\ b # n /\ <<a, b>> \in older
  BY <1>2 DEF MisplacedIn, Forget
<1>4. l.last[a] = mem.last[a] /\ l.last[b] = mem.last[b]
  BY <1>1, <1>3
<1> QED
  BY <1>2, <1>3, <1>4 DEF MisplacedIn

\* A ledger that is one use behind misplaces at most one entry more.
LEMMA MisplacedBehind ==
  ASSUME NEW k \in Ledger, NEW l \in Ledger, NEW R, NEW F, BehindBy(k, l, R),
         NEW b \in MisplacedIn(k, R, F) \ MisplacedIn(l, R, F),
         NEW c \in MisplacedIn(k, R, F) \ MisplacedIn(l, R, F)
  PROVE  b = c
<1>1. /\ k.last \in [Names -> Nat] /\ l.last \in [Names -> Nat]
      /\ k.known \subseteq Names /\ l.known \subseteq Names
  BY DEF Ledger
<1>2. ASSUME NEW x \in MisplacedIn(k, R, F) \ MisplacedIn(l, R, F)
      PROVE  x \in k.known \cap l.known /\ k.last[x] # l.last[x]
  <2>1. PICK a \in k.known : <<a, x>> \in R /\ k.last[a] >= k.last[x]
    BY <1>2 DEF MisplacedIn
  <2>2. x \in k.known /\ x \notin F
    BY <1>2 DEF MisplacedIn
  <2>3. a \in l.known /\ x \in l.known
    BY <2>1, <2>2 DEF BehindBy
  <2>4. k.last[a] <= l.last[a]
    BY <2>1, <2>3 DEF BehindBy
  <2>5. ASSUME k.last[x] = l.last[x] PROVE FALSE
    <3>1. l.last[a] >= l.last[x]
      BY <1>1, <2>1, <2>2, <2>3, <2>4, <2>5
    <3> QED
      BY <1>2, <2>1, <2>2, <2>3, <3>1 DEF MisplacedIn
  <2> QED
    BY <2>2, <2>3, <2>5
<1> QED
  BY <1>2 DEF BehindBy

\* A set with at most one element that T has not is at most one larger.
LEMMA OneMore ==
  ASSUME NEW T, IsFiniteSet(T), NEW S, \A b, c \in S \ T : b = c
  PROVE  /\ Cardinality(S) \in Nat /\ Cardinality(T) \in Nat
         /\ Cardinality(S) <= Cardinality(T) + 1
<1>1. CASE S \subseteq T
  BY <1>1, FS_Subset, FS_CardinalityType
<1>2. ASSUME NEW e \in S \ T PROVE Cardinality(S) <= Cardinality(T) + 1
                                   /\ Cardinality(S) \in Nat
  <2>1. S \subseteq T \cup {e}
    BY <1>2
  <2>2. IsFiniteSet(T \cup {e}) /\ Cardinality(T \cup {e}) = Cardinality(T) + 1
    BY <1>2, FS_AddElement
  <2> QED
    BY <2>1, <2>2, FS_Subset, FS_CardinalityType
<1> QED
  BY <1>1, <1>2, FS_CardinalityType

\* The number of misplaced entries is a number.
LEMMA MisplacedFinite ==
  ASSUME TypeOK
  PROVE  /\ IsFiniteSet(Misplaced(Current))
         /\ Cardinality(Misplaced(Current)) \in Nat
<1>1. IsFiniteSet(Names)
  BY NamesFinite
<1>2. Misplaced(Current) \subseteq Names
  BY DEF TypeOK, Ledger, Current, Misplaced
<1> QED
  BY <1>1, <1>2, FS_Subset, FS_CardinalityType

\* Every kill pays for the entry it misplaces, and no other step misplaces one.
LEMMA PaidStep == OrderInv /\ [Next]_vars => Paid'
<1> SUFFICES ASSUME OrderInv, [Next]_vars, Ordering'
             PROVE  Cardinality(Misplaced(Current)') + unfair' <= crashes'
  BY DEF Paid
<1> USE DEF disk, ghost, uses
<1> DEFINE Old == Misplaced(Current)
           New == Misplaced(Current)'
           Goal == Cardinality(New) + unfair' <= crashes'
<1>a. TypeOK /\ InFlight /\ AheadIn(mem) /\ mem \in Ledger /\ db \in Ledger
      /\ unfair \in Nat /\ crashes \in Nat
  BY BoundAssumption DEF OrderInv, CounterAhead, AheadIn, TypeOK
<1>b. Ordering /\ faults = 0 /\ faults' = 0 /\ max # 0
  BY <1>a, FaultsStay DEF Ordering, TypeOK
<1>c. Cardinality(Old) + unfair <= crashes
  BY <1>b DEF OrderInv, Paid
<1>d. IsFiniteSet(Old) /\ Cardinality(Old) \in Nat
  BY <1>a, MisplacedFinite
<1>e. /\ Old = MisplacedIn(Current, older, scanned)
      /\ New = MisplacedIn(Current', older', scanned')
  BY DEF Misplaced, MisplacedIn
<1>f. pc # "down" => Current = mem
  BY DEF Current
<1>g. pc = "down" => Current = db
  BY DEF Current
<1>h. (pc' # "down" => Current' = mem') /\ (pc' = "down" => Current' = db')
  BY DEF Current
<1>i. ASSUME New \subseteq Old, unfair' = unfair, crashes' = crashes PROVE Goal
  <2>1. Cardinality(New) \in Nat /\ Cardinality(New) <= Cardinality(Old)
    BY <1>d, <1>i, FS_Subset, FS_CardinalityType
  <2> QED
    BY <1>a, <1>c, <1>d, <1>i, <2>1
<1>1. ASSUME NEW m \in Limits, LoadMetadata(m) PROVE Goal
  <2>1. New = Old /\ unfair' = unfair /\ crashes' = crashes
    BY <1>1, <1>e, <1>g, <1>h DEF LoadMetadata
  <2> QED
    BY <1>i, <2>1
<1>2. ASSUME NEW m \in Limits, RebuildMetadataFromDisk(m) PROVE Goal
  <2>1. New = {}
    BY <1>2, <1>e, <1>h DEF RebuildMetadataFromDisk, EmptyLedger, MisplacedIn
  <2> QED
    BY <1>2, <1>i, <2>1 DEF RebuildMetadataFromDisk
<1>3. ASSUME NEW n \in Names, ScanFile(n) PROVE Goal
  <2>1. mem'.known \subseteq scanned'
    BY <1>3, ScanningStep DEF OrderInv, ScanFile, Scanning
  <2>2. New = {}
    BY <1>3, <1>e, <1>h, <2>1 DEF ScanFile, MisplacedIn
  <2> QED
    BY <1>3, <1>i, <2>2 DEF ScanFile
<1>4. ASSUME NEW c \in Chunks, NEW d \in Data, StoreChunk(c, d) PROVE Goal
  <2>1. mem'.known = mem.known /\ mem'.last = mem.last
    BY <1>4, <1>a, NameFacts, LedgerFacts DEF StoreChunk
  <2>2. New = Old
    BY <1>4, <1>e, <1>f, <1>h, <2>1 DEF StoreChunk, MisplacedIn
  <2> QED
    BY <1>4, <1>i, <2>2 DEF StoreChunk
<1>5. ASSUME NEW c \in Chunks, LoadChunk(c) PROVE Goal
  <2>1. Fin(c) \in Names /\ Current = mem /\ Current' = mem'
        /\ unfair' = unfair /\ crashes' = crashes
    BY <1>5, <1>f, <1>h, NameFacts DEF LoadChunk, Use
  <2>2. CASE Fin(c) \in mem.known
    <3>1. mem' = Touch(mem, Fin(c)) /\ older' = UsedNow(Fin(c))
          /\ scanned' = scanned \ {Fin(c)}
      BY <1>5, <2>2 DEF LoadChunk, Use
    <3>2. /\ mem'.known = mem.known \cup {Fin(c)}
          /\ mem'.last[Fin(c)] = mem.counter + 1
          /\ \A m \in Names \ {Fin(c)} : mem'.last[m] = mem.last[m]
      BY <1>a, <2>1, <2>2, <3>1, LedgerFacts
    <3>3. New \subseteq Old
      BY <1>a, <1>e, <2>1, <3>1, <3>2, MisplacedUse
    <3> QED
      BY <1>i, <2>1, <3>3
  <2>3. CASE Fin(c) \notin mem.known
    <3>1. mem' = mem /\ older' = older /\ scanned' = scanned
      BY <1>5, <1>a, <2>1, <2>3, LedgerFacts DEF LoadChunk
    <3> QED
      BY <1>e, <1>i, <2>1, <3>1
  <2> QED
    BY <2>2, <2>3
<1>6. ASSUME NEW n \in Names, Drop(n), pc # "down", pc' # "down", NEW u,
             mem' = [Erase(mem, n) EXCEPT !.used = u]
      PROVE  New \subseteq Old \ {n}
  <2>1. /\ mem'.known = mem.known \ {n}
        /\ \A m \in Names \ {n} : mem'.last[m] = mem.last[m]
    BY <1>6, <1>a, EraseType, LedgerFacts
  <2> QED
    BY <1>6, <1>a, <1>e, <1>f, <1>h, <2>1, MisplacedDrop DEF Drop
<1>7. ASSUME NEW c \in Chunks, DeleteChunk(c) PROVE Goal
  <2>1. New \subseteq Old \ {Fin(c)}
    BY <1>7, <1>6, NameFacts DEF DeleteChunk
  <2> QED
    BY <1>7, <1>i, <2>1 DEF DeleteChunk
<1>8. ASSUME NEW n \in Names, EnforceLimit(n) PROVE Goal
  <2>1. New \subseteq Old \ {n} /\ crashes' = crashes
    BY <1>8, <1>6 DEF EnforceLimit, Evicted
  <2>2. CASE ~Unfair(n)
    BY <1>8, <1>i, <2>1, <2>2 DEF EnforceLimit
  <2>3. CASE Unfair(n)
    <3>1. PICK m \in mem.known : <<m, n>> \in older
      BY <2>3 DEF Unfair
    <3>2. n \in mem.known /\ mem.last[n] <= mem.last[m] /\ Current = mem
      BY <1>8, <1>f, <3>1 DEF EnforceLimit, Victims
    <3>3. mem.last[n] \in Nat /\ mem.last[m] \in Nat
      BY <1>a, <3>1, <3>2 DEF Ledger
    <3>4. n \in Old
      BY <1>e, <2>3, <3>1, <3>2, <3>3 DEF MisplacedIn, Unfair
    <3>5. IsFiniteSet(Old \ {n}) /\ Cardinality(Old \ {n}) = Cardinality(Old) - 1
      BY <1>d, <3>4, FS_RemoveElement
    <3>6. Cardinality(New) \in Nat /\ Cardinality(New) <= Cardinality(Old) - 1
      BY <2>1, <3>5, FS_Subset, FS_CardinalityType
    <3>7. unfair' = unfair + 1
      BY <1>8, <2>3 DEF EnforceLimit
    <3> QED
      BY <1>a, <1>c, <1>d, <2>1, <3>6, <3>7
  <2> QED
    BY <2>2, <2>3
<1>9. CASE StoreRename
  <2>1. call.chunk \in Chunks
    BY <1>9, <1>a DEF StoreRename, InFlight, StoreCalls
  <2>2. /\ mem'.known = mem.known \cup {Fin(call.chunk)}
        /\ mem'.last[Fin(call.chunk)] = mem.counter + 1
        /\ \A m \in Names \ {Fin(call.chunk)} : mem'.last[m] = mem.last[m]
    BY <1>9, <1>a, <2>1, NameFacts, LedgerFacts DEF StoreRename
  <2>3. Current = mem /\ Current' = mem' /\ older' = UsedNow(Fin(call.chunk))
        /\ scanned' = scanned \ {Fin(call.chunk)}
        /\ unfair' = unfair /\ crashes' = crashes
    BY <1>9, <1>f, <1>h DEF StoreRename, Use
  <2>4. New \subseteq Old
    BY <1>a, <1>e, <2>1, <2>2, <2>3, NameFacts, MisplacedUse
  <2> QED
    BY <1>i, <2>3, <2>4
<1>10. CASE Stop
  <2>1. Current = mem /\ Current' = db /\ db = mem
    BY <1>10, <1>b, <1>f, <1>h DEF Stop, OrderInv, Saved
  <2> QED
    BY <1>10, <1>e, <1>i, <2>1 DEF Stop
<1>11. CASE Crash
  <2>1. Current = mem /\ Current' = db' /\ UNCHANGED <<older, scanned, unfair>>
        /\ crashes' = crashes + 1 /\ pc # "down"
    BY <1>11, <1>f, <1>h DEF Crash
  <2>2. BehindBy(db', mem, older) /\ db' \in Ledger
    <3>1. BehindBy(db, mem, older)
      BY <1>a, <1>b, <2>1, BehindIs DEF OrderInv
    <3>2. EmptyLedger \in Ledger /\ BehindBy(EmptyLedger, mem, older)
      <4>1. EmptyLedger.known = {}
        BY DEF EmptyLedger
      <4> QED
        BY <1>a, <4>1, EmptyLedgerType, BehindSelf
    <3>3. ASSUME NEW S \in SUBSET mem.known, NEW k \in Cut(mem, S)
          PROVE  BehindBy(k, mem, older) /\ k \in Ledger
      BY <1>a, CutFacts DEF BehindBy
    <3> QED
      BY <1>11, <1>a, <3>1, <3>2, <3>3 DEF Crash, Unfinished
  <2>3. \A b, c \in New \ Old : b = c
    BY <1>a, <1>e, <2>1, <2>2, MisplacedBehind
  <2> QED
    BY <1>a, <1>c, <1>d, <2>1, <2>3, OneMore
<1>12. ASSUME pc # "down", pc' # "down", UNCHANGED <<mem, older, scanned, unfair, crashes>>
       PROVE  Goal
  BY <1>12, <1>e, <1>f, <1>h, <1>i
<1>13. CASE UNCHANGED vars
  BY <1>13, <1>e, <1>i DEF vars, Current
<1>14. \/ \E m \in Limits : LoadMetadata(m) \/ RebuildMetadataFromDisk(m)
       \/ \E n \in Names : ScanFile(n) \/ EnforceLimit(n)
       \/ \E c \in Chunks, d \in Data : StoreChunk(c, d)
       \/ \E c \in Chunks : LoadChunk(c) \/ DeleteChunk(c)
       \/ StoreRename \/ Stop \/ Crash
       \/ pc # "down" /\ pc' # "down"
          /\ UNCHANGED <<mem, older, scanned, unfair, crashes>>
       \/ UNCHANGED vars
  BY <1>b DEF Next, Start, CallStep, SetMaxBytes, ScanDone, StoreWrite,
         StoreOpenFails, StoreRenameFails, EnforceLimitDone, EnforceNoLimit,
         PersistMetadata, Return
<1> QED
  BY <1>1, <1>2, <1>3, <1>4, <1>5, <1>7, <1>8, <1>9, <1>10, <1>11, <1>12,
     <1>13, <1>14

-----------------------------------------------------------------------------
(* The inductive invariant and what follows from it.                       *)

\* The state before the first init() satisfies the inductive invariant.
LEMMA InitOrderInv == Init => OrderInv
<1> SUFFICES ASSUME Init PROVE OrderInv
  OBVIOUS
<1>1. TypeOK
  BY InitType
<1>2. InFlight /\ AckedDurable /\ CounterAhead
  BY DEF Init, InFlight, AckedDurable, CounterAhead, EmptyLedger
<1>3. WholeChunks
  BY NameFacts, ContentAssumption DEF Init, WholeChunks
<1>4. Saved /\ Behind /\ Scanning
  BY DEF Init, Saved, Behind, Scanning
<1>5. Misplaced(Current) = {} /\ unfair = 0 /\ crashes = 0
  BY DEF Init, Misplaced
<1>6. Paid
  BY <1>5, FS_EmptySet DEF Paid
<1> QED
  BY <1>1, <1>2, <1>3, <1>4, <1>6 DEF OrderInv

\* OrderInv is an invariant: whatever calls, errors and kills happen.
THEOREM OrderInvariance == Spec => []OrderInv
<1>1. OrderInv /\ [Next]_vars => OrderInv'
  <2> SUFFICES ASSUME OrderInv, [Next]_vars PROVE OrderInv'
    OBVIOUS
  <2>1. TypeOK' /\ InFlight' /\ AckedDurable' /\ WholeChunks' /\ CounterAhead'
    BY TypeStep, InFlightStep, AckedDurableStep, WholeChunksStep,
       CounterAheadStep DEF OrderInv
  <2>2. Saved' /\ Behind' /\ Scanning' /\ Paid'
    BY SavedStep, BehindStep, ScanningStep, PaidStep DEF OrderInv
  <2> QED
    BY <2>1, <2>2 DEF OrderInv
<1> QED
  BY <1>1, InitOrderInv, PTL DEF Spec

\* Type correctness: usedBytes_ included, whatever errors leak from it.
THEOREM TypeCorrect == Spec => []TypeOK
<1>1. OrderInv => TypeOK
  BY DEF OrderInv
<1> QED
  BY <1>1, OrderInvariance, PTL

\* No kill ever leaves a partly written file under the name of a chunk.
THEOREM ChunksAreWhole == Spec => []WholeChunks
<1>1. OrderInv => WholeChunks
  BY DEF OrderInv
<1> QED
  BY <1>1, OrderInvariance, PTL

\* While metadata.db can be written, lastAccess orders the entries as they were
\* used, through restarts, and every kill misplaces at most one of them.
THEOREM OrderIsFaithful == Spec => []LruFaithful
<1>1. OrderInv => LruFaithful
  BY MisplacedFinite DEF OrderInv, Paid, LruFaithful, TypeOK
<1> QED
  BY <1>1, OrderInvariance, PTL

\* enforceLimit evicts an entry and keeps one that was used before it at most
\* once for every kill.
THEOREM EvictsOldestFirst == Spec => []LruEviction
<1>1. OrderInv => LruEviction
  BY MisplacedFinite DEF OrderInv, Paid, LruEviction, TypeOK
<1> QED
  BY <1>1, OrderInvariance, PTL

-----------------------------------------------------------------------------
(* StorageManager implements ChunkStore.                                   *)

\* The map that a reader of the chunk files sees.
Visible == [c \in Chunks |->
              IF files[Fin(c)] \in Data THEN files[Fin(c)] ELSE Absent]

\* The chunk files behave as a ChunkStore: payloads appear whole, and an
\* acknowledged chunk stays until it is overwritten, evicted or deleted.
THEOREM Refinement == Spec => ImplementsChunkStore
<1>1. Init => CS!Init
  BY NameFacts, ContentAssumption DEF Init, CS!Init
<1>2. OrderInv /\ [Next]_vars => [CS!Next]_CS!vars
  <2> SUFFICES ASSUME OrderInv, [Next]_vars, ~UNCHANGED CS!vars PROVE CS!Next
    OBVIOUS
  <2> USE DEF disk, ghost, uses, uses
  <2>a. TypeOK /\ InFlight /\ AckedDurable
    BY DEF OrderInv
  <2>b. ASSUME UNCHANGED <<files, acked>> PROVE FALSE
    BY <2>b DEF CS!vars
  <2>1. ASSUME NEW n \in Names, RemoveFile(n), acked' = StillOnDisk
        PROVE  CS!Next
    <3>1. PICK c \in Chunks : n = Fin(c) \/ n = Tmp(c)
      BY DEF Names, Fin, Tmp
    <3>2. \A x \in Chunks : x # c => files'[Fin(x)] = files[Fin(x)]
      BY <2>1, <2>a, <3>1, NameFacts DEF TypeOK, RemoveFile
    <3>3. \A x \in acked : files[Fin(x)] # Absent
      BY <2>a, ContentAssumption DEF AckedDurable
    <3>4. CASE files'[Fin(c)] = files[Fin(c)]
      <4>1. Visible' = Visible
        BY <3>2, <3>4 DEF Visible
      <4>2. acked' = acked
        BY <2>1, <2>a, <3>2, <3>3, <3>4 DEF StillOnDisk, TypeOK
      <4> QED
        BY <4>1, <4>2 DEF Visible, CS!vars
    <3>5. CASE files'[Fin(c)] = Absent
      <4>1. Visible' = [Visible EXCEPT ![c] = Absent]
        BY <3>2, <3>5, ContentAssumption DEF Visible
      <4>2. acked' = acked \ {c}
        BY <2>1, <2>a, <3>2, <3>3, <3>5 DEF StillOnDisk, TypeOK
      <4> QED
        BY <4>1, <4>2 DEF Visible, CS!Next, CS!Drop
    <3> QED
      BY <2>1, <2>a, <3>1, <3>4, <3>5, NameFacts DEF RemoveFile, TypeOK
  <2>2. ASSUME Return, UNCHANGED files PROVE CS!Next
    <3>1. acked' = acked \cup {call.chunk} /\ call.op = "store"
          /\ files[Fin(call.chunk)] \in Data
      BY <2>2, <2>b DEF Return
    <3>2. call.chunk \in Chunks
      BY <3>1, <2>a DEF TypeOK, Calls, NoCall, StoreCalls
    <3>3. Visible' = Visible /\ Visible[call.chunk] # Absent
      BY <2>2, <3>1, <3>2, ContentAssumption DEF Visible
    <3> QED
      BY <3>1, <3>2, <3>3 DEF Visible, CS!Next, CS!Ack
  <2>3. CASE StoreRename
    <3> DEFINE c == call.chunk
    <3>1. c \in Chunks /\ files[Tmp(c)] \in Data \cup {Torn}
      <4>1. c \in Chunks /\ files[Tmp(c)] # Absent
        BY <2>3, <2>a DEF StoreRename, InFlight, StoreCalls
      <4> QED
        BY <4>1, <2>a, NameFacts DEF TypeOK, Content
    <3>2. files'[Fin(c)] = files[Tmp(c)]
          /\ \A x \in Chunks : x # c => files'[Fin(x)] = files[Fin(x)]
      BY <2>3, <2>a, <3>1, NameFacts DEF StoreRename, TypeOK
    <3>3. CASE files[Tmp(c)] \in Data
      <4>1. Visible' = [Visible EXCEPT ![c] = files[Tmp(c)]]
        BY <3>2, <3>3 DEF Visible
      <4>2. acked' = acked
        BY <2>3, <3>3, ContentAssumption DEF StoreRename
      <4> QED
        BY <3>1, <3>3, <4>1, <4>2 DEF Visible, CS!Next, CS!Put
    <3>4. CASE files[Tmp(c)] = Torn
      <4>1. Visible' = [Visible EXCEPT ![c] = Absent]
        BY <3>2, <3>4, ContentAssumption DEF Visible
      <4>2. acked' = acked \ {c}
        BY <2>3, <3>4 DEF StoreRename
      <4> QED
        BY <3>1, <4>1, <4>2 DEF Visible, CS!Next, CS!Drop
    <3> QED
      BY <3>1, <3>3, <3>4
  <2>4. ASSUME UNCHANGED acked, \A c \in Chunks : files'[Fin(c)] = files[Fin(c)]
        PROVE  FALSE
    <3>1. Visible' = Visible
      BY <2>4 DEF Visible
    <3> QED
      BY <2>4, <3>1 DEF Visible, CS!vars
  <2>5. CASE StoreRename \/ \E c \in Chunks : DeleteChunk(c)
    BY <2>1, <2>3, <2>5, NameFacts DEF DeleteChunk
  <2>6. CASE \E n \in Names : EnforceLimit(n)
    BY <2>1, <2>6 DEF EnforceLimit
  <2>7. CASE EnforceNoLimit \/ PersistMetadata
    BY <2>2, <2>7 DEF EnforceNoLimit, PersistMetadata
  <2>8. CASE UNCHANGED acked /\ ~StoreRename
             /\ (\A c \in Chunks : ~DeleteChunk(c))
             /\ (\A n \in Names : ~EnforceLimit(n))
    <3>1. \A c \in Chunks : files'[Fin(c)] = files[Fin(c)] \/ UNCHANGED files
      <4> SUFFICES ASSUME NEW c \in Chunks, ~UNCHANGED files
                   PROVE  files'[Fin(c)] = files[Fin(c)]
        OBVIOUS
      <4>1. ASSUME NEW x \in Chunks, NEW d \in Data, StoreChunk(x, d)
            PROVE  files'[Fin(c)] = files[Fin(c)]
        BY <4>1, <2>a, NameFacts DEF StoreChunk, TypeOK
      <4>2. CASE StoreWrite
        BY <4>2, <2>a, NameFacts DEF StoreWrite, TypeOK
      <4>3. CASE StoreRenameFails
        BY <4>3, <2>a, NameFacts DEF StoreRenameFails, RemoveTmp, TypeOK
      <4> QED
        BY <2>8, <4>1, <4>2, <4>3
        DEF Next, Start, CallStep, vars, LoadMetadata, RebuildMetadataFromDisk,
            StoreOpenFails, LoadChunk, SetMaxBytes, ScanFile, ScanDone,
            EnforceLimitDone, EnforceNoLimit, PersistMetadata, Stop, Crash
    <3> QED
      BY <2>8, <2>4, <3>1
  <2> QED
    BY <2>5, <2>6, <2>7, <2>8
    DEF Next, Start, CallStep, vars, LoadMetadata, RebuildMetadataFromDisk,
        StoreChunk, StoreOpenFails, LoadChunk, SetMaxBytes, ScanFile, ScanDone,
        StoreWrite, StoreRenameFails, EnforceLimitDone, Stop, Crash
<1> QED
  BY <1>1, <1>2, OrderInvariance, PTL DEF Spec, ImplementsChunkStore, CS!Spec

-----------------------------------------------------------------------------
(* Sums of sizes.                                                          *)

\* There are finitely many files, and finitely many bytes in them.
LEMMA BytesFinite ==
  ASSUME NEW S \in SUBSET Names, NEW size, \A n \in S : size[n] \in Nat
  PROVE  IsFiniteSet(S) /\ IsFiniteSet(Bytes(size, S))
<1>1. IsFiniteSet(Names)
  BY NamesFinite
<1>2. IsFiniteSet(S)
  BY <1>1, FS_Subset
<1> DEFINE Of(n) == {n} \X (1 .. size[n])
           P == {Of(n) : n \in S}
           f == [n \in S |-> Of(n)]
<1>3. IsFiniteSet(P)
  <2>1. f \in Surjection(S, P)
    <3>1. f \in [S -> P]
      OBVIOUS
    <3>2. \A t \in P : \E n \in S : f[n] = t
      OBVIOUS
    <3> QED
      BY <3>1, <3>2 DEF Surjection
  <2> HIDE DEF P, f
  <2> QED
    BY <1>2, <2>1, FS_Surjection
<1>4. ASSUME NEW n \in S
      PROVE  IsFiniteSet(Of(n))
  <2>1. PICK k \in Nat : k = size[n]
    OBVIOUS
  <2>2. IsFiniteSet({n})
    BY FS_Singleton
  <2>3. IsFiniteSet(1 .. k)
    BY FS_Interval
  <2> QED
    BY <2>1, <2>2, <2>3, FS_Product
<1>5. \A T \in P : IsFiniteSet(T)
  BY <1>4
<1> HIDE DEF P
<1>6. IsFiniteSet(UNION P)
  BY <1>3, <1>5, FS_UNION
<1> QED
  BY <1>2, <1>6 DEF Bytes, P

LEMMA SumType ==
  ASSUME NEW S \in SUBSET Names, NEW size, \A n \in S : size[n] \in Nat
  PROVE  SumSizes(size, S) \in Nat
BY BytesFinite, FS_CardinalityType DEF SumSizes

LEMMA SumEmpty ==
  ASSUME NEW size
  PROVE  SumSizes(size, {}) = 0
<1>1. Bytes(size, {}) = {}
  BY DEF Bytes
<1> QED
  BY <1>1, FS_EmptySet DEF SumSizes

\* One more entry adds its size.
LEMMA SumAdd ==
  ASSUME NEW S \in SUBSET Names, NEW size, \A n \in S : size[n] \in Nat,
         NEW n \in Names \ S, size[n] \in Nat
  PROVE  SumSizes(size, S \cup {n}) = SumSizes(size, S) + size[n]
<1> DEFINE A == Bytes(size, S)
           B == {n} \X (1 .. size[n])
<1>1. Bytes(size, S \cup {n}) = A \cup B
  BY DEF Bytes
<1>2. A \cap B = {}
  BY DEF Bytes
<1>3. IsFiniteSet(A) /\ Cardinality(A) \in Nat
  BY BytesFinite, FS_CardinalityType
<1>0. PICK k \in Nat : k = size[n]
  OBVIOUS
<1>4. IsFiniteSet(B) /\ Cardinality(B) = k
  <2>1. IsFiniteSet({n}) /\ Cardinality({n}) = 1
    BY FS_Singleton
  <2>2. IsFiniteSet(1 .. k) /\ Cardinality(1 .. k) = k
    BY FS_Interval, SMTT(30)
  <2>3. PICK U : U = {n}
    OBVIOUS
  <2>4. PICK V : V = 1 .. k
    OBVIOUS
  <2>5. IsFiniteSet(U) /\ IsFiniteSet(V) /\ Cardinality(U) = 1 /\ Cardinality(V) = k
    BY <2>1, <2>2, <2>3, <2>4
  <2>6. IsFiniteSet(U \X V) /\ Cardinality(U \X V) = Cardinality(U) * Cardinality(V)
    BY <2>5, FS_Product
  <2>7. IsFiniteSet(U \X V) /\ Cardinality(U \X V) = k
    BY <2>5, <2>6
  <2>8. B = U \X V
    BY <1>0, <2>3, <2>4
  <2> QED
    BY <2>7, <2>8
<1> HIDE DEF A, B
<1>5. Cardinality(A \cup B) = Cardinality(A) + Cardinality(B) - Cardinality(A \cap B)
  BY <1>3, <1>4, FS_Union
<1>6. Cardinality(A \cap B) = 0
  BY <1>2, FS_EmptySet
<1>7. Cardinality(A \cup B) = Cardinality(A) + k
  BY <1>3, <1>4, <1>5, <1>6
<1> QED
  BY <1>0, <1>1, <1>7 DEF SumSizes, A

\* The sum depends on the sizes of the entries alone.
LEMMA SumSame ==
  ASSUME NEW S, NEW size, NEW size2, \A n \in S : size2[n] = size[n]
  PROVE  SumSizes(size2, S) = SumSizes(size, S)
<1>1. Bytes(size2, S) = Bytes(size, S)
  BY DEF Bytes
<1> QED
  BY <1>1 DEF SumSizes

LEMMA SumMonotone ==
  ASSUME NEW S \in SUBSET Names, NEW size, \A n \in S : size[n] \in Nat,
         NEW T \in SUBSET S
  PROVE  SumSizes(size, T) <= SumSizes(size, S)
<1>1. IsFiniteSet(Bytes(size, S))
  BY BytesFinite
<1>2. Bytes(size, T) \in SUBSET Bytes(size, S)
  BY DEF Bytes
<1> QED
  BY <1>1, <1>2, FS_Subset DEF SumSizes

\* Removing an entry takes its size away.
LEMMA SumRemove ==
  ASSUME NEW S \in SUBSET Names, NEW size, \A n \in S : size[n] \in Nat, NEW n \in S
  PROVE  /\ SumSizes(size, S \ {n}) = SumSizes(size, S) - size[n]
         /\ size[n] <= SumSizes(size, S)
<1>1. SumSizes(size, (S \ {n}) \cup {n}) = SumSizes(size, S \ {n}) + size[n]
  BY SumAdd
<1>2. (S \ {n}) \cup {n} = S
  OBVIOUS
<1>3. PICK k \in Nat : k = size[n]
  OBVIOUS
<1>4. PICK s \in Nat : s = SumSizes(size, S \ {n})
  BY SumType
<1>5. SumSizes(size, S) = s + k
  BY <1>1, <1>2, <1>3, <1>4
<1> QED
  BY <1>3, <1>4, <1>5

LEMMA FileSizesAreNat == FileSizes \subseteq Nat
BY ContentAssumption DEF FileSizes, FileSize

\* What the entries of a ledger add up to fits on the disk.
LEMMA SumFits ==
  ASSUME NEW S \in SUBSET Names, NEW size, \A n \in S : size[n] \in FileSizes
  PROVE  SumSizes(size, S) <= Capacity
<1> DEFINE any == FileSize(Torn)
           full == [n \in Names |-> IF n \in S THEN size[n] ELSE any]
<1>1. any \in FileSizes
  BY DEF FileSizes
<1> HIDE DEF any
<1>2. full \in [Names -> FileSizes]
  BY <1>1
<1>3. \A n \in S : full[n] = size[n]
  OBVIOUS
<1> HIDE DEF full
<1>4. SumSizes(full, Names) <= Capacity
  BY <1>2, CapacityAssumption
<1>5. \A n \in Names : full[n] \in Nat
  BY <1>2, FileSizesAreNat
<1>6. SumSizes(full, S) <= SumSizes(full, Names)
  BY <1>5, SumMonotone
<1>7. SumSizes(size, S) = SumSizes(full, S)
  BY <1>3, SumSame
<1>8. /\ SumSizes(full, S) \in Nat /\ SumSizes(full, Names) \in Nat
      /\ Capacity \in Nat
  BY <1>5, SumType, CapacityAssumption
<1> QED
  BY <1>4, <1>6, <1>7, <1>8

-----------------------------------------------------------------------------
(* usedBytes_.                                                             *)

\* What the operations on a ledger do to usedBytes_ and the sizes.
LEMMA SizeFacts ==
  ASSUME NEW l \in Ledger, NEW n \in Names
  PROVE  /\ \A u : /\ [l EXCEPT !.used = u].used = u
                   /\ [l EXCEPT !.used = u].known = l.known
                   /\ [l EXCEPT !.used = u].size = l.size
         /\ \A u : /\ [Erase(l, n) EXCEPT !.used = u].used = u
                   /\ [Erase(l, n) EXCEPT !.used = u].known = l.known \ {n}
                   /\ \A m \in Names \ {n} :
                        [Erase(l, n) EXCEPT !.used = u].size[m] = l.size[m]
         /\ Evicted(l, n) = [Erase(l, n) EXCEPT !.used = Wrap(l.used - l.size[n])]
         /\ \A s : /\ Record(l, n, s).used = Wrap(l.used + s)
                   /\ Record(l, n, s).known = l.known \cup {n}
                   /\ Record(l, n, s).size[n] = s
                   /\ \A m \in Names \ {n} : Record(l, n, s).size[m] = l.size[m]
         /\ Touch(l, n).used = l.used
         /\ Touch(l, n).known = l.known
         /\ Touch(l, n).size = l.size
<1>1. \A u : /\ [l EXCEPT !.used = u].used = u
             /\ [l EXCEPT !.used = u].known = l.known
             /\ [l EXCEPT !.used = u].size = l.size
  BY DEF Ledger
<1>2. /\ Erase(l, n) \in Ledger
      /\ Erase(l, n).used = l.used
      /\ Erase(l, n).known = l.known \ {n}
      /\ \A m \in Names \ {n} : Erase(l, n).size[m] = l.size[m]
  <2>1. Erase(l, n) \in Ledger
    BY EraseType
  <2>2. /\ Erase(l, n).used = l.used
        /\ Erase(l, n).known = l.known \ {n}
        /\ \A m \in Names \ {n} : Erase(l, n).size[m] = l.size[m]
    BY DEF Erase, Ledger
  <2> QED
    BY <2>1, <2>2
<1>3. \A u : /\ [Erase(l, n) EXCEPT !.used = u].used = u
             /\ [Erase(l, n) EXCEPT !.used = u].known = Erase(l, n).known
             /\ [Erase(l, n) EXCEPT !.used = u].size = Erase(l, n).size
  BY <1>2 DEF Ledger
<1>4. Evicted(l, n) = [Erase(l, n) EXCEPT !.used = Wrap(l.used - l.size[n])]
  BY <1>2 DEF Evicted
<1>5. \A s : /\ Record(l, n, s).used = Wrap(l.used + s)
             /\ Record(l, n, s).known = l.known \cup {n}
             /\ Record(l, n, s).size[n] = s
             /\ \A m \in Names \ {n} : Record(l, n, s).size[m] = l.size[m]
  BY DEF Record, Ledger
<1>6. /\ Touch(l, n).used = l.used
      /\ Touch(l, n).known = l.known
      /\ Touch(l, n).size = l.size
  BY DEF Touch, Ledger
<1> QED
  BY <1>1, <1>2, <1>3, <1>4, <1>5, <1>6

\* The entries of l have real sizes; usedBytes_ counts those in S after k kills.
Real(l) == \A n \in l.known : l.size[n] \in FileSizes

CountsAfter(l, S, k) ==
  /\ SumSizes(l.size, S) <= l.used
  /\ l.used <= SumSizes(l.size, S) + k * Capacity

LEMMA RealFacts ==
  ASSUME NEW l \in Ledger, Real(l), NEW n \in Names
  PROVE  /\ \A u : Real([l EXCEPT !.used = u])
         /\ \A u : Real([Erase(l, n) EXCEPT !.used = u])
         /\ Real(Evicted(l, n))
         /\ \A s \in FileSizes : Real(Record(l, n, s))
         /\ Real(Touch(l, n))
         /\ Real(EmptyLedger)
<1>0. l.known \subseteq Names
  BY DEF Ledger
<1>1. \A u : Real([l EXCEPT !.used = u])
  BY SizeFacts DEF Real
<1>2. \A u : Real([Erase(l, n) EXCEPT !.used = u])
  BY <1>0, SizeFacts DEF Real
<1>3. Real(Evicted(l, n))
  BY <1>2, SizeFacts
<1>4. \A s \in FileSizes : Real(Record(l, n, s))
  BY <1>0, SizeFacts DEF Real
<1>5. Real(Touch(l, n))
  BY SizeFacts DEF Real
<1>6. Real(EmptyLedger)
  BY DEF Real, EmptyLedger
<1> QED
  BY <1>1, <1>2, <1>3, <1>4, <1>5, <1>6

\* Numbers below 2^64 are not changed.
LEMMA WrapSmall ==
  ASSUME NEW x \in Nat, x < Modulus
  PROVE  Wrap(x) = x
BY LimitAssumption DEF Wrap

\* The drift after k kills, and one disk more, is below 2^64.
LEMMA DriftFits ==
  ASSUME NEW k \in 0 .. MaxCrashes
  PROVE  /\ k * Capacity \in Nat
         /\ k * Capacity + Capacity < Modulus
         /\ (k + 1) * Capacity = k * Capacity + Capacity
<1>1. /\ MaxCrashes \in Nat /\ Capacity \in Nat /\ Modulus \in Nat
      /\ (MaxCrashes + 1) * Capacity < Modulus
  BY BoundAssumption, CapacityAssumption, LimitAssumption
<1>2. PICK j \in Nat : MaxCrashes = k + j
  <2>1. MaxCrashes - k \in Nat /\ MaxCrashes = k + (MaxCrashes - k)
    BY <1>1
  <2> QED
    BY <2>1
<1>3. (k + j + 1) * Capacity = k * Capacity + Capacity + j * Capacity
  BY <1>1
<1>4. j * Capacity \in Nat /\ k * Capacity \in Nat
  BY <1>1
<1>5. (k + 1) * Capacity = k * Capacity + Capacity
  BY <1>1
<1>6. (k + j + 1) * Capacity < Modulus
  BY <1>1, <1>2
<1> QED
  BY <1>1, <1>3, <1>4, <1>5, <1>6

\* The sums over a ledger are numbers, and fit.
LEMMA LedgerSums ==
  ASSUME NEW l \in Ledger, Real(l), NEW S \in SUBSET l.known
  PROVE  /\ SumSizes(l.size, S) \in Nat /\ SumSizes(l.size, S) <= Capacity
         /\ l.used \in Nat
         /\ S \in SUBSET Names
         /\ \A n \in S : l.size[n] \in Nat
<1>1. S \in SUBSET Names /\ l.used \in Nat
  BY DEF Ledger
<1>2. \A n \in S : l.size[n] \in FileSizes
  BY DEF Real
<1>3. \A n \in S : l.size[n] \in Nat
  BY <1>2, FileSizesAreNat
<1> QED
  BY <1>1, <1>2, <1>3, SumType, SumFits

\* The count of l passes on to a ledger with the same bytes.
LEMMA CountsSame ==
  ASSUME NEW l, NEW l2, NEW S, NEW k, l2.used = l.used,
         \A n \in S : l2.size[n] = l.size[n], CountsAfter(l, S, k)
  PROVE  CountsAfter(l2, S, k)
BY SumSame DEF CountsAfter

\* Recording an entry whose bytes are not counted.
LEMMA RecordCounts ==
  ASSUME NEW l \in Ledger, Real(l), NEW n \in Names, NEW s \in FileSizes,
         NEW k \in 0 .. MaxCrashes, CountsAfter(l, l.known \ {n}, k)
  PROVE  CountsAfter(Record(l, n, s), l.known \cup {n}, k)
<1> DEFINE S == l.known \ {n}
           r == Record(l, n, s)
<1>1. /\ r.used = Wrap(l.used + s) /\ r.size[n] = s
      /\ \A m \in S : r.size[m] = l.size[m]
  <2>1. l.known \subseteq Names
    BY DEF Ledger
  <2> QED
    BY <2>1, SizeFacts
<1>2. PICK sum \in Nat : sum = SumSizes(l.size, S)
  BY LedgerSums
<1>3. /\ S \in SUBSET Names /\ l.used \in Nat /\ s \in Nat
      /\ \A m \in S : l.size[m] \in Nat
  BY LedgerSums, FileSizesAreNat
<1>4. SumSizes(r.size, S) = sum
  BY <1>1, <1>2, SumSame
<1>5. SumSizes(r.size, S \cup {n}) = sum + s
  <2>1. \A m \in S : r.size[m] \in Nat
    BY <1>1, <1>3
  <2> HIDE DEF r, S
  <2>2. n \notin S
    BY DEF S
  <2>3. SumSizes(r.size, S \cup {n}) = SumSizes(r.size, S) + r.size[n]
    BY <1>1, <1>3, <2>1, <2>2, SumAdd, ZenonT(60)
  <2> QED
    BY <1>1, <1>4, <2>3
<1>6. S \cup {n} = l.known \cup {n}
  OBVIOUS
<1>7. sum + s <= Capacity
  <2>1. SumSizes(r.size, S \cup {n}) <= Capacity
    <3>1. \A m \in S \cup {n} : r.size[m] \in FileSizes
      BY <1>1 DEF Real
    <3> HIDE DEF r, S
    <3> QED
      BY <1>3, <3>1, SumFits
  <2> QED
    BY <1>5, <2>1
<1>8. /\ sum <= l.used /\ l.used <= sum + k * Capacity
      /\ k * Capacity \in Nat /\ k * Capacity + Capacity < Modulus
  BY <1>2, DriftFits DEF CountsAfter
<1>9. /\ l.used + s \in Nat /\ l.used + s < Modulus
      /\ sum + s <= l.used + s /\ l.used + s <= sum + s + k * Capacity
  <2> DEFINE D == k * Capacity
             u == l.used
  <2> HIDE DEF D, u
  <2>3. Modulus \in Nat /\ Capacity \in Nat
    BY LimitAssumption, CapacityAssumption
  <2>1. /\ sum <= u /\ u <= sum + D /\ D \in Nat /\ D + Capacity < Modulus
        /\ u \in Nat /\ Modulus \in Nat /\ Capacity \in Nat
    BY <1>3, <1>8, <2>3, Zenon DEF D, u
  <2>2. u + s < Modulus /\ sum + s <= u + s /\ u + s <= sum + s + D /\ u + s \in Nat
    BY <1>3, <1>7, <2>1
  <2> QED
    BY <2>2 DEF D, u
<1>10. r.used = l.used + s
  BY <1>1, <1>9, WrapSmall
<1> QED
  BY <1>5, <1>6, <1>9, <1>10 DEF CountsAfter

\* Deducting the bytes of an entry: usedBytes_ does not fall below zero, so the
\* test for that does nothing.
LEMMA DeductedCounts ==
  ASSUME NEW l \in Ledger, Real(l), NEW n \in Names, NEW k \in 0 .. MaxCrashes,
         CountsAfter(l, l.known, k), NEW u, u = DeductedUsed(l, n)
  PROVE  /\ SumSizes(l.size, l.known \ {n}) <= u
         /\ u <= SumSizes(l.size, l.known \ {n}) + k * Capacity
         /\ n \in l.known => u = l.used - l.size[n] /\ l.used - l.size[n] \in Nat
<1>1. CASE n \notin l.known
  <2>1. l.known \ {n} = l.known /\ u = l.used
    BY <1>1 DEF DeductedUsed
  <2> QED
    BY <1>1, <2>1 DEF CountsAfter
<1>2. CASE n \in l.known
  <2>1. PICK sum \in Nat, a \in Nat, z \in Nat :
          sum = SumSizes(l.size, l.known) /\ a = l.used /\ z = l.size[n]
    BY <1>2, LedgerSums
  <2>2. SumSizes(l.size, l.known \ {n}) = sum - z /\ z <= sum
    <3>1. l.known \in SUBSET Names /\ \A m \in l.known : l.size[m] \in Nat
      BY LedgerSums
    <3> QED
      BY <1>2, <2>1, <3>1, SumRemove
  <2>3. PICK D \in Nat : D = k * Capacity
    BY DriftFits
  <2>4. sum <= a /\ a <= sum + D
    BY <2>1, <2>3 DEF CountsAfter
  <2>5. u = a - z /\ a - z \in Nat
    BY <1>2, <2>1, <2>2, <2>4 DEF DeductedUsed
  <2>6. sum - z <= a - z /\ a - z <= (sum - z) + D
    BY <2>4
  <2> QED
    BY <2>1, <2>2, <2>3, <2>5, <2>6
<1> QED
  BY <1>1, <1>2

\* storeChunk, deleteChunk and enforceLimit take the bytes of an entry off.
LEMMA RemovalCounts ==
  ASSUME NEW l \in Ledger, Real(l), NEW n \in Names, NEW k \in 0 .. MaxCrashes,
         CountsAfter(l, l.known, k)
  PROVE  /\ CountsAfter([l EXCEPT !.used = DeductedUsed(l, n)], l.known \ {n}, k)
         /\ CountsAfter([Erase(l, n) EXCEPT !.used = DeductedUsed(l, n)],
                        l.known \ {n}, k)
         /\ n \in l.known => CountsAfter(Evicted(l, n), l.known \ {n}, k)
<1>0. PICK u : u = DeductedUsed(l, n)
  OBVIOUS
<1>1. /\ SumSizes(l.size, l.known \ {n}) <= u
      /\ u <= SumSizes(l.size, l.known \ {n}) + k * Capacity
      /\ n \in l.known => u = l.used - l.size[n] /\ l.used - l.size[n] \in Nat
  BY <1>0, DeductedCounts
<1>2. l.known \ {n} \subseteq Names \ {n}
  BY DEF Ledger
<1>3. CountsAfter([l EXCEPT !.used = u], l.known \ {n}, k)
  BY <1>1, SizeFacts DEF CountsAfter
<1>4. CountsAfter([Erase(l, n) EXCEPT !.used = u], l.known \ {n}, k)
  <2> DEFINE e == [Erase(l, n) EXCEPT !.used = u]
  <2>1. e.used = u /\ \A m \in l.known \ {n} : e.size[m] = l.size[m]
    BY <1>2, SizeFacts
  <2> HIDE DEF e
  <2>2. SumSizes(e.size, l.known \ {n}) = SumSizes(l.size, l.known \ {n})
    BY <2>1, SumSame
  <2>3. CountsAfter(e, l.known \ {n}, k)
    BY <1>1, <2>1, <2>2 DEF CountsAfter
  <2> QED
    BY <2>3 DEF e
<1>5. ASSUME n \in l.known
      PROVE  Evicted(l, n) = [Erase(l, n) EXCEPT !.used = u]
  <2>1. u = l.used - l.size[n] /\ u \in Nat
    BY <1>1, <1>5
  <2>2. u < Modulus
    <3>1. /\ SumSizes(l.size, l.known \ {n}) \in Nat
          /\ SumSizes(l.size, l.known \ {n}) <= Capacity
      BY LedgerSums
    <3>2. PICK sum \in Nat, D \in Nat :
            sum = SumSizes(l.size, l.known \ {n}) /\ D = k * Capacity
      BY <3>1, DriftFits
    <3>3. sum <= Capacity /\ D + Capacity < Modulus /\ u <= sum + D
      BY <1>1, <3>1, <3>2, DriftFits
    <3> QED
      BY <2>1, <3>3, CapacityAssumption, LimitAssumption
  <2>3. Wrap(l.used - l.size[n]) = u
    BY <2>1, <2>2, WrapSmall
  <2> QED
    BY <2>3, SizeFacts
<1> QED
  BY <1>0, <1>3, <1>4, <1>5

\* What a kill leaves of metadata.db has usedBytes_ and some of the entries.
LEMMA CutSizes ==
  ASSUME NEW l \in Ledger, NEW S \in SUBSET l.known, NEW c \in Cut(l, S)
  PROVE  /\ c.used = l.used /\ c.known = S
         /\ \A n \in S : c.size[n] = l.size[n]
         /\ Real(l) => Real(c)
<1>1. /\ c.used = l.used /\ c.known = S
      /\ \A n \in S : c.size[n] = l.size[n]
  <2>1. /\ Reduced(l, S) \in Ledger
        /\ Reduced(l, S).used = l.used /\ Reduced(l, S).known = S
        /\ \A n \in S : Reduced(l, S).size[n] = l.size[n]
    BY ReducedType DEF Reduced, Ledger
  <2>2. \A v : /\ [Reduced(l, S) EXCEPT !.last = v].used = Reduced(l, S).used
               /\ [Reduced(l, S) EXCEPT !.last = v].known = Reduced(l, S).known
               /\ [Reduced(l, S) EXCEPT !.last = v].size = Reduced(l, S).size
    BY <2>1 DEF Ledger
  <2>3. c = Reduced(l, S) \/ \E v : c = [Reduced(l, S) EXCEPT !.last = v]
    BY DEF Cut
  <2> QED
    BY <2>1, <2>2, <2>3
<1> QED
  BY <1>1 DEF Real

\* It still counts the entries it lost.
LEMMA CutCounts ==
  ASSUME NEW l \in Ledger, Real(l), NEW k \in 0 .. MaxCrashes,
         CountsAfter(l, l.known, k), NEW S \in SUBSET l.known, NEW c \in Cut(l, S)
  PROVE  CountsAfter(c, S, k + 1)
<1>1. c.used = l.used /\ \A n \in S : c.size[n] = l.size[n]
  BY CutSizes
<1>3. SumSizes(c.size, S) = SumSizes(l.size, S)
  BY <1>1, SumSame
<1>4. PICK sum \in Nat, all \in Nat, D \in Nat, u \in Nat :
        /\ sum = SumSizes(l.size, S) /\ all = SumSizes(l.size, l.known)
        /\ D = k * Capacity /\ u = l.used
  <2>1. l.known \in SUBSET l.known
    OBVIOUS
  <2> QED
    BY <2>1, LedgerSums, DriftFits
<1>5. sum <= all /\ all <= Capacity
  <2>1. l.known \in SUBSET l.known
    OBVIOUS
  <2>2. /\ l.known \in SUBSET Names /\ \A n \in l.known : l.size[n] \in Nat
        /\ SumSizes(l.size, l.known) <= Capacity
    BY <2>1, LedgerSums
  <2>3. SumSizes(l.size, S) <= SumSizes(l.size, l.known)
    BY <2>2, SumMonotone
  <2> QED
    BY <1>4, <2>2, <2>3
<1>6. all <= u /\ u <= all + D
  BY <1>4 DEF CountsAfter
<1>7. sum <= u /\ u <= sum + (D + Capacity)
  BY <1>5, <1>6, CapacityAssumption
<1>8. (k + 1) * Capacity = D + Capacity
  BY <1>4, DriftFits
<1> QED
  BY <1>1, <1>3, <1>4, <1>7, <1>8 DEF CountsAfter

LEMMA MoreCrashesCount ==
  ASSUME NEW l \in Ledger, Real(l), NEW S \in SUBSET l.known,
         NEW k \in 0 .. MaxCrashes, CountsAfter(l, S, k)
  PROVE  CountsAfter(l, S, k + 1)
<1>1. PICK sum \in Nat, D \in Nat, u \in Nat :
        sum = SumSizes(l.size, S) /\ D = k * Capacity /\ u = l.used
  BY LedgerSums, DriftFits
<1>2. sum <= u /\ u <= sum + D
  BY <1>1 DEF CountsAfter
<1>3. Capacity \in Nat
  BY CapacityAssumption
<1>4. u <= sum + (D + Capacity)
  BY <1>2, <1>3
<1>5. (k + 1) * Capacity = D + Capacity
  BY <1>1, DriftFits
<1> QED
  BY <1>1, <1>2, <1>4, <1>5 DEF CountsAfter

LEMMA EmptyCounts ==
  ASSUME NEW k \in 0 .. MaxCrashes
  PROVE  CountsAfter(EmptyLedger, EmptyLedger.known, k)
         /\ CountsAfter(EmptyLedger, EmptyLedger.known, k + 1)
<1>1. EmptyLedger.used = 0 /\ EmptyLedger.known = {}
  BY DEF EmptyLedger
<1>2. SumSizes(EmptyLedger.size, {}) = 0
  BY SumEmpty
<1>3. k * Capacity \in Nat /\ (k + 1) * Capacity = k * Capacity + Capacity /\ Capacity \in Nat
  BY DriftFits, CapacityAssumption
<1> QED
  BY <1>1, <1>2, <1>3 DEF CountsAfter

\* The history counters only grow.
LEMMA HistoryStep ==
  ASSUME TypeOK, [Next]_vars
  PROVE  /\ faults' = 0 => faults = 0
         /\ crashes' = 0 => crashes = 0
         /\ shortWrites' = 0 => shortWrites = 0
<1>1. faults \in Nat /\ crashes \in Nat /\ shortWrites \in Nat
  BY DEF TypeOK
<1> QED
  BY <1>1
  DEF disk, ghost, uses, Next, Start, CallStep, vars, LoadMetadata,
      RebuildMetadataFromDisk, StoreChunk, StoreOpenFails, LoadChunk,
      DeleteChunk, SetMaxBytes, ScanFile, ScanDone, StoreWrite, StoreRename,
      StoreRenameFails, EnforceLimit, EnforceLimitDone, EnforceNoLimit,
      PersistMetadata, Stop, Crash, RemoveFile

\* The sizes that are recorded are sizes of files.
LEMMA RecordedSizes ==
  ASSUME TypeOK, InFlight
  PROVE  /\ \A n \in Names : files[n] # Absent => FileSize(files[n]) \in FileSizes
         /\ pc = "rename" => /\ SizeOf[call.data] \in FileSizes
                             /\ SizeOf[call.data] = FileSize(call.data)
                             /\ call.chunk \in Chunks
<1>1. ASSUME NEW n \in Names, files[n] # Absent
      PROVE  FileSize(files[n]) \in FileSizes
  <2>1. files[n] \in Data \cup {Torn}
    BY <1>1 DEF TypeOK, Content
  <2> QED
    BY <2>1 DEF FileSizes
<1>2. ASSUME pc = "rename"
      PROVE  /\ SizeOf[call.data] \in FileSizes
             /\ SizeOf[call.data] = FileSize(call.data)
             /\ call.chunk \in Chunks
  <2>1. call.data \in Data /\ call.chunk \in Chunks
    BY <1>2 DEF InFlight, StoreCalls
  <2>2. SizeOf[call.data] = FileSize(call.data)
    BY <2>1, ContentAssumption DEF FileSize
  <2> QED
    BY <2>1, <2>2 DEF FileSizes
<1> QED
  BY <1>1, <1>2

\* Every entry has the size of a file.
LEMMA RealSizesStep ==
  ASSUME TypeOK, InFlight, RealSizes, [Next]_vars
  PROVE  RealSizes'
<1> SUFFICES Real(mem') /\ Real(db')
  BY DEF RealSizes, Real
<1> USE DEF disk, ghost, uses, uses
<1>a. mem \in Ledger /\ db \in Ledger
  BY DEF TypeOK
<1>b. Real(mem) /\ Real(db)
  BY DEF RealSizes, Real
<1>c. Real(EmptyLedger)
  BY DEF Real, EmptyLedger
<1>1. ASSUME NEW c \in Chunks,
             (\E d \in Data : StoreChunk(c, d)) \/ StoreOpenFails(c)
      PROVE  Real(mem') /\ Real(db')
  BY <1>1, <1>a, <1>b, NameFacts, RealFacts DEF StoreChunk, StoreOpenFails
<1>2. ASSUME NEW c \in Chunks, LoadChunk(c) \/ DeleteChunk(c)
      PROVE  Real(mem') /\ Real(db')
  <2>1. Fin(c) \in Names /\ db' = db
    BY <1>2, NameFacts DEF LoadChunk, DeleteChunk
  <2>2. \/ mem' = Touch(mem, Fin(c))
        \/ \E u : mem' = [Erase(mem, Fin(c)) EXCEPT !.used = u]
    BY <1>2 DEF LoadChunk, DeleteChunk
  <2>3. Real(Touch(mem, Fin(c))) /\ \A u : Real([Erase(mem, Fin(c)) EXCEPT !.used = u])
    BY <1>a, <1>b, <2>1, RealFacts
  <2> QED
    BY <1>b, <2>1, <2>2, <2>3
<1>3. ASSUME NEW n \in Names, ScanFile(n)
      PROVE  Real(mem') /\ Real(db')
  <2>1. FileSize(files[n]) \in FileSizes
    BY <1>3, RecordedSizes DEF ScanFile, Present
  <2> QED
    BY <1>3, <1>a, <1>b, <2>1, RealFacts DEF ScanFile
<1>4. CASE StoreRename
  <2>1. SizeOf[call.data] \in FileSizes /\ call.chunk \in Chunks
    BY <1>4, RecordedSizes DEF StoreRename
  <2> QED
    BY <1>4, <1>a, <1>b, <2>1, NameFacts, RealFacts DEF StoreRename
<1>5. ASSUME NEW n \in Names, EnforceLimit(n)
      PROVE  Real(mem') /\ Real(db')
  BY <1>5, <1>a, <1>b, RealFacts DEF EnforceLimit
<1>6. CASE Crash \/ PersistMetadata
  <2>1. mem' \in {mem, EmptyLedger}
    BY <1>6 DEF Crash, PersistMetadata
  <2>2. \/ db' \in {db, mem}
        \/ db' = EmptyLedger
        \/ \E S \in SUBSET mem.known : db' \in Cut(mem, S)
    BY <1>6 DEF Crash, PersistMetadata, Unfinished
  <2>3. ASSUME NEW S \in SUBSET mem.known, db' \in Cut(mem, S)
        PROVE  Real(db')
    BY <1>a, <1>b, <2>3, CutSizes
  <2> QED
    BY <1>b, <1>c, <2>1, <2>2, <2>3
<1>7. ASSUME mem' \in {mem, db, EmptyLedger}, db' \in {mem, db}
      PROVE  Real(mem') /\ Real(db')
  BY <1>7, <1>b, <1>c
<1>8. \/ \E c \in Chunks : (\E d \in Data : StoreChunk(c, d)) \/ StoreOpenFails(c)
      \/ \E c \in Chunks : LoadChunk(c) \/ DeleteChunk(c)
      \/ \E n \in Names : ScanFile(n) \/ EnforceLimit(n)
      \/ StoreRename
      \/ Crash \/ PersistMetadata
      \/ mem' \in {mem, db, EmptyLedger} /\ db' \in {mem, db}
  BY DEF Next, Start, CallStep, vars, LoadMetadata, RebuildMetadataFromDisk,
         SetMaxBytes, ScanDone, StoreWrite, StoreRenameFails, EnforceLimitDone,
         EnforceNoLimit, Stop
<1> QED
  BY <1>1, <1>2, <1>3, <1>4, <1>5, <1>6, <1>7, <1>8

\* As long as the file system reports no error, every step takes off and adds the
\* bytes that it should.
LEMMA AccountedStep ==
  ASSUME TypeOK, InFlight, RealSizes, Accounted, [Next]_vars
  PROVE  Accounted'
<1> DEFINE Counted == IF Storing THEN mem.known \ {Fin(call.chunk)} ELSE mem.known
<1> SUFFICES ASSUME faults' = 0
             PROVE  /\ CountsAfter(db', db'.known, crashes')
                    /\ CountsAfter(mem', Counted', crashes')
  BY DEF Accounted, Counts, CountsAfter
<1> USE DEF disk, ghost, uses, uses
<1>a. mem \in Ledger /\ db \in Ledger /\ crashes \in 0 .. MaxCrashes
  BY DEF TypeOK
<1>b. Real(mem) /\ Real(db)
  BY DEF RealSizes, Real
<1>c. faults = 0
  BY HistoryStep
<1>d. /\ CountsAfter(db, db.known, crashes)
      /\ CountsAfter(mem, Counted, crashes)
  BY <1>c DEF Accounted, Counts, CountsAfter
<1>e. pc \notin {"write", "rename"} => CountsAfter(mem, mem.known, crashes)
  BY <1>d DEF Storing
<1>f. CountsAfter(EmptyLedger, EmptyLedger.known, crashes)
      /\ CountsAfter(EmptyLedger, EmptyLedger.known, crashes + 1)
  BY <1>a, EmptyCounts
<1> HIDE DEF Counted
<1>g. pc' \notin {"write", "rename"} => Counted' = mem'.known
  BY DEF Counted, Storing
<1>1. ASSUME NEW c \in Chunks, NEW d \in Data, StoreChunk(c, d)
      PROVE  /\ CountsAfter(db', db'.known, crashes')
             /\ CountsAfter(mem', Counted', crashes')
  <2>1. pc = "idle" /\ mem' = [mem EXCEPT !.used = DeductedUsed(mem, Fin(c))]
        /\ pc' = "write" /\ call' = [op |-> "store", chunk |-> c, data |-> d]
        /\ UNCHANGED <<db, crashes>> /\ Fin(c) \in Names
    BY <1>1, NameFacts DEF StoreChunk
  <2>2. mem'.known = mem.known
    BY <1>a, <2>1, SizeFacts
  <2>3. Counted' = mem.known \ {Fin(c)}
    BY <2>1, <2>2 DEF Counted, Storing
  <2>4. CountsAfter(mem', mem.known \ {Fin(c)}, crashes)
    BY <1>a, <1>b, <1>e, <2>1, RemovalCounts
  <2> QED
    BY <1>d, <2>1, <2>3, <2>4
<1>2. ASSUME NEW c \in Chunks, LoadChunk(c)
      PROVE  /\ CountsAfter(db', db'.known, crashes')
             /\ CountsAfter(mem', Counted', crashes')
  <2>1. pc = "idle" /\ pc' = "persist" /\ mem' = Touch(mem, Fin(c))
        /\ UNCHANGED <<db, crashes>> /\ Fin(c) \in Names
    BY <1>2, NameFacts DEF LoadChunk
  <2>2. mem'.known = mem.known /\ mem'.used = mem.used /\ mem'.size = mem.size
    BY <1>a, <2>1, SizeFacts
  <2>3. CountsAfter(mem', mem.known, crashes)
    BY <1>e, <2>1, <2>2 DEF CountsAfter
  <2> QED
    BY <1>d, <1>g, <2>1, <2>2, <2>3
<1>3. ASSUME NEW c \in Chunks, DeleteChunk(c)
      PROVE  /\ CountsAfter(db', db'.known, crashes')
             /\ CountsAfter(mem', Counted', crashes')
  <2>1. pc = "idle" /\ pc' = "persist"
        /\ mem' = [Erase(mem, Fin(c)) EXCEPT !.used = DeductedUsed(mem, Fin(c))]
        /\ UNCHANGED <<db, crashes>> /\ Fin(c) \in Names
    BY <1>3, NameFacts DEF DeleteChunk
  <2>2. mem'.known = mem.known \ {Fin(c)}
    BY <1>a, <2>1, SizeFacts
  <2>3. CountsAfter(mem', mem.known \ {Fin(c)}, crashes)
    BY <1>a, <1>b, <1>e, <2>1, RemovalCounts
  <2> QED
    BY <1>d, <1>g, <2>1, <2>2, <2>3
<1>4. ASSUME NEW n \in Names, ScanFile(n)
      PROVE  /\ CountsAfter(db', db'.known, crashes')
             /\ CountsAfter(mem', Counted', crashes')
  <2>1. pc = "scan" /\ pc' = "scan" /\ mem' = Record(mem, n, FileSize(files[n]))
        /\ UNCHANGED <<db, crashes>> /\ n \notin mem.known /\ files[n] # Absent
    BY <1>4 DEF ScanFile, Present
  <2>2. FileSize(files[n]) \in FileSizes
    BY <2>1, RecordedSizes
  <2>3. mem'.known = mem.known \cup {n}
    BY <1>a, <2>1, SizeFacts
  <2>4. CountsAfter(mem, mem.known \ {n}, crashes)
    <3>1. mem.known \ {n} = mem.known
      BY <2>1
    <3> QED
      BY <1>e, <2>1, <3>1
  <2>5. CountsAfter(mem', mem.known \cup {n}, crashes)
    BY <1>a, <1>b, <2>1, <2>2, <2>4, RecordCounts
  <2> QED
    BY <1>d, <1>g, <2>1, <2>3, <2>5
<1>5. CASE StoreRename
  <2>1. pc = "rename" /\ pc' = "evict"
        /\ mem' = Record(mem, Fin(call.chunk), SizeOf[call.data])
        /\ UNCHANGED <<db, crashes>>
    BY <1>5 DEF StoreRename
  <2>2. SizeOf[call.data] \in FileSizes /\ Fin(call.chunk) \in Names
    BY <2>1, RecordedSizes, NameFacts
  <2>3. mem'.known = mem.known \cup {Fin(call.chunk)}
    BY <1>a, <2>1, <2>2, SizeFacts
  <2>4. CountsAfter(mem, mem.known \ {Fin(call.chunk)}, crashes)
    BY <1>d, <2>1 DEF Counted, Storing
  <2>5. CountsAfter(mem', mem.known \cup {Fin(call.chunk)}, crashes)
    BY <1>a, <1>b, <2>1, <2>2, <2>4, RecordCounts
  <2> QED
    BY <1>d, <1>g, <2>1, <2>3, <2>5
<1>6. ASSUME NEW n \in Names, EnforceLimit(n)
      PROVE  /\ CountsAfter(db', db'.known, crashes')
             /\ CountsAfter(mem', Counted', crashes')
  <2>1. pc = "evict" /\ pc' = "evict" /\ mem' = Evicted(mem, n) /\ n \in mem.known
        /\ UNCHANGED <<db, crashes>>
    BY <1>6 DEF EnforceLimit, Victims
  <2>2. mem'.known = mem.known \ {n}
    <3>1. PICK u : u = Wrap(mem.used - mem.size[n])
      OBVIOUS
    <3>2. mem' = [Erase(mem, n) EXCEPT !.used = u]
      BY <1>a, <2>1, <3>1, SizeFacts
    <3> QED
      BY <1>a, <3>2, SizeFacts
  <2>3. CountsAfter(mem', mem.known \ {n}, crashes)
    BY <1>a, <1>b, <1>e, <2>1, RemovalCounts
  <2> QED
    BY <1>d, <1>g, <2>1, <2>2, <2>3
<1>7. CASE Crash
  <2>1. mem' = EmptyLedger /\ pc' = "down" /\ crashes' = crashes + 1
    BY <1>7 DEF Crash
  <2>2. CountsAfter(mem', Counted', crashes')
    BY <1>f, <1>g, <2>1
  <2>3. \/ db' = db
        \/ db' = EmptyLedger
        \/ pc = "persist" /\ \E S \in SUBSET mem.known : db' \in Cut(mem, S)
    BY <1>7 DEF Crash, Unfinished
  <2>4. ASSUME pc = "persist", NEW S \in SUBSET mem.known, db' \in Cut(mem, S)
        PROVE  CountsAfter(db', db'.known, crashes')
    <3>1. db'.known = S
      BY <1>a, <2>4, CutSizes
    <3>2. CountsAfter(db', S, crashes + 1)
      BY <1>a, <1>b, <1>e, <2>4, CutCounts
    <3> QED
      BY <2>1, <3>1, <3>2
  <2>5. CountsAfter(db, db.known, crashes + 1)
    BY <1>a, <1>b, <1>d, MoreCrashesCount
  <2> QED
    BY <1>f, <2>1, <2>2, <2>3, <2>4, <2>5
<1>8. ASSUME mem' \in {db, EmptyLedger}, UNCHANGED <<db, crashes>>,
             pc' \notin {"write", "rename"}
      PROVE  /\ CountsAfter(db', db'.known, crashes')
             /\ CountsAfter(mem', Counted', crashes')
  BY <1>8, <1>d, <1>f, <1>g
<1>9. ASSUME UNCHANGED <<mem, crashes>>, db' \in {mem, db},
             pc \notin {"write", "rename"}, pc' \notin {"write", "rename"}
      PROVE  /\ CountsAfter(db', db'.known, crashes')
             /\ CountsAfter(mem', Counted', crashes')
  BY <1>9, <1>d, <1>e, <1>g
<1>10. ASSUME UNCHANGED <<mem, db, call, crashes>>,
              pc' = pc \/ (pc \in {"write", "rename"} /\ pc' \in {"write", "rename"})
       PROVE  /\ CountsAfter(db', db'.known, crashes')
              /\ CountsAfter(mem', Counted', crashes')
  <2>1. Counted' = Counted
    BY <1>10 DEF Counted, Storing
  <2> QED
    BY <1>10, <1>d, <2>1
<1>11. \/ \E c \in Chunks, d \in Data : StoreChunk(c, d)
       \/ \E c \in Chunks : LoadChunk(c) \/ DeleteChunk(c)
       \/ \E n \in Names : ScanFile(n) \/ EnforceLimit(n)
       \/ StoreRename
       \/ Crash
       \/ /\ mem' \in {db, EmptyLedger} /\ UNCHANGED <<db, crashes>>
          /\ pc' \notin {"write", "rename"}
       \/ /\ UNCHANGED <<mem, crashes>> /\ db' \in {mem, db}
          /\ pc \notin {"write", "rename"} /\ pc' \notin {"write", "rename"}
       \/ /\ UNCHANGED <<mem, db, call, crashes>>
          /\ pc' = pc \/ (pc \in {"write", "rename"} /\ pc' \in {"write", "rename"})
  <2>1. (\A c \in Chunks : ~ StoreOpenFails(c)) /\ ~ StoreRenameFails
    BY <1>c DEF StoreOpenFails, StoreRenameFails
  <2>2. PersistMetadata => db' = mem
    BY <1>c DEF PersistMetadata
  <2> QED
    BY <2>1, <2>2 DEF Next, Start, CallStep, vars, LoadMetadata,
       RebuildMetadataFromDisk, SetMaxBytes, ScanDone, StoreWrite,
       EnforceLimitDone, EnforceNoLimit, PersistMetadata, Return, Stop
<1> QED
  BY <1>1, <1>2, <1>3, <1>4, <1>5, <1>6, <1>7, <1>8, <1>9, <1>10, <1>11

-----------------------------------------------------------------------------
(* The ledger and the directory, as long as nothing goes wrong.            *)

\* A ledger lists the files after a removal or a record that it made itself.
LEMMA ListsFacts ==
  ASSUME TypeOK, NEW n \in Names, Lists(mem, Present)
  PROVE  /\ mem'.known = mem.known \ {n} /\ files' = [files EXCEPT ![n] = Absent]
            /\ (\A m \in Names \ {n} : mem'.size[m] = mem.size[m])
            => Lists(mem, Present)'
         /\ mem'.known = mem.known /\ mem'.size = mem.size /\ files' = files
            => Lists(mem, Present)'
<1>1. files \in [Names -> Content] /\ mem.known \subseteq Names
  BY DEF TypeOK, Ledger
<1>2. ASSUME files' = [files EXCEPT ![n] = Absent]
      PROVE  Present' = Present \ {n} /\ \A m \in Present' : files'[m] = files[m]
  BY <1>1, <1>2 DEF Present
<1>3. ASSUME mem'.known = mem.known \ {n}, files' = [files EXCEPT ![n] = Absent],
             \A m \in Names \ {n} : mem'.size[m] = mem.size[m]
      PROVE  Lists(mem, Present)'
  BY <1>1, <1>2, <1>3 DEF Lists
<1>4. ASSUME mem'.known = mem.known, mem'.size = mem.size, files' = files
      PROVE  Lists(mem, Present)'
  BY <1>4 DEF Lists, Present
<1> QED
  BY <1>3, <1>4

\* The ledger goes along with every change of the directory.
LEMMA MirrorsStep ==
  ASSUME TypeOK, InFlight, Saved, Accounted, Mirrors, [Next]_vars
  PROVE  Mirrors'
<1> DEFINE TmpOwned == \A c \in Chunks :
                         files[Tmp(c)] # Absent => Storing /\ call.chunk = c
           Written == pc = "rename" => files[Tmp(call.chunk)] = call.data
           InScan == pc = "scan" => call.op = "init"
           OnDisk == pc = "down" => IF dbOk THEN Lists(db, Present) ELSE Present = {}
           InMemory == pc # "down" =>
             Lists(mem, IF Storing THEN Present \ {Tmp(call.chunk)} ELSE Present)
           Lowered == pc = "persist" /\ call.op \in {"store", "limit"}
                        => mem.used <= max
           Body == TmpOwned /\ Written /\ InScan /\ OnDisk /\ InMemory /\ Lowered
<1> SUFFICES ASSUME Clean'
             PROVE  Body'
  BY DEF Mirrors
<1> USE DEF disk, ghost, uses, uses
<1>a. /\ crashes' = 0 /\ faults' = 0 /\ shortWrites' = 0
      /\ crashes = 0 /\ faults = 0 /\ shortWrites = 0 /\ 0 \notin Limits
  BY HistoryStep DEF Clean
<1>b. Body
  BY <1>a DEF Clean, Mirrors
<1>c. /\ mem \in Ledger /\ db \in Ledger /\ max # 0
      /\ files \in [Names -> Content] /\ Present \subseteq Names
  BY <1>a DEF TypeOK, Present
<1>d. ASSUME pc \notin {"down", "write", "rename"}
      PROVE  /\ Lists(mem, Present)
             /\ \A c \in Chunks : files[Tmp(c)] = Absent
  BY <1>b, <1>d DEF Storing
<1>e. ASSUME pc \notin {"down", "write", "rename"}, files' = files,
             mem'.known = mem.known, mem'.size = mem.size,
             pc' \notin {"down", "write", "rename"}, InScan', Lowered'
      PROVE  Body'
  <2>1. Lists(mem, Present)'
    BY <1>d, <1>e DEF Lists, Present
  <2> QED
    BY <1>d, <1>e, <2>1 DEF Storing
<1>1. ASSUME NEW m \in Limits, LoadMetadata(m)
      PROVE  Body'
  <2>1. /\ pc = "down" /\ dbOk /\ mem' = db /\ pc' = "idle" /\ files' = files
    BY <1>1 DEF LoadMetadata
  <2>2. Lists(db, Present) /\ \A c \in Chunks : files[Tmp(c)] = Absent
    BY <1>b, <2>1 DEF Storing
  <2>3. Lists(mem, Present)'
    BY <2>1, <2>2 DEF Lists, Present
  <2> QED
    BY <2>1, <2>2, <2>3 DEF Storing
<1>2. ASSUME NEW m \in Limits, RebuildMetadataFromDisk(m)
      PROVE  Body'
  <2>1. /\ pc = "down" /\ ~dbOk /\ mem' = EmptyLedger /\ pc' = "scan"
        /\ files' = files /\ call'.op = "init"
    BY <1>2 DEF RebuildMetadataFromDisk
  <2>2. Present = {} /\ \A c \in Chunks : files[Tmp(c)] = Absent
    BY <1>b, <2>1 DEF Storing
  <2>3. Lists(mem, Present)'
    BY <2>1, <2>2 DEF Lists, Present, EmptyLedger
  <2> QED
    BY <2>1, <2>2, <2>3 DEF Storing
<1>3. ASSUME NEW c \in Chunks, NEW d \in Data, StoreChunk(c, d)
      PROVE  Body'
  <2>1. /\ pc = "idle" /\ pc' = "write" /\ files' = [files EXCEPT ![Tmp(c)] = Torn]
        /\ call' = [op |-> "store", chunk |-> c, data |-> d]
    BY <1>3 DEF StoreChunk
  <2>2. mem'.known = mem.known /\ mem'.size = mem.size
    BY <1>3, <1>c, NameFacts, SizeFacts DEF StoreChunk
  <2>3. Lists(mem, Present) /\ \A b \in Chunks : files[Tmp(b)] = Absent
    BY <1>d, <2>1
  <2>4. Tmp(c) \in Names /\ Tmp(c) \notin Present /\ call'.chunk = c
    BY <2>1, <2>3, NameFacts DEF Present
  <2>5. Present' \ {Tmp(c)} = Present /\ \A n \in Present : files'[n] = files[n]
    BY <1>c, <2>1, <2>4 DEF Present
  <2>6. Lists(mem, Present \ {Tmp(c)})'
    BY <2>2, <2>3, <2>5 DEF Lists
  <2>7. TmpOwned'
    <3>1. ASSUME NEW b \in Chunks, b # c
          PROVE  files'[Tmp(b)] = Absent
      BY <1>c, <2>1, <2>3, <3>1, NameFacts
    <3> QED
      BY <2>1, <2>4, <3>1 DEF Storing
  <2> QED
    BY <2>1, <2>4, <2>6, <2>7 DEF Storing
<1>4. CASE StoreWrite
  <2>1. /\ pc = "write" /\ pc' = "rename"
        /\ files' = [files EXCEPT ![Tmp(call.chunk)] = call.data]
        /\ mem' = mem /\ call' = call
    BY <1>4, <1>a DEF StoreWrite
  <2>2. call.chunk \in Chunks /\ call.data \in Data /\ Tmp(call.chunk) \in Names
    BY <2>1, NameFacts DEF InFlight, StoreCalls
  <2>3. Lists(mem, Present \ {Tmp(call.chunk)})
    BY <1>b, <2>1 DEF Storing
  <2>4. /\ Present' \ {Tmp(call.chunk)} = Present \ {Tmp(call.chunk)}
        /\ \A n \in Present \ {Tmp(call.chunk)} : files'[n] = files[n]
        /\ files'[Tmp(call.chunk)] = call.data
    BY <1>c, <2>1, <2>2 DEF Present
  <2>5. Lists(mem, Present \ {Tmp(call.chunk)})'
    BY <2>1, <2>3, <2>4 DEF Lists
  <2>6. TmpOwned'
    <3>1. ASSUME NEW b \in Chunks, b # call.chunk
          PROVE  files'[Tmp(b)] = Absent
      BY <1>b, <1>c, <2>1, <2>2, <3>1, NameFacts
    <3> QED
      BY <2>1, <3>1 DEF Storing
  <2> QED
    BY <2>1, <2>4, <2>5, <2>6 DEF Storing
<1>5. CASE StoreRename
  <2> DEFINE c == call.chunk
  <2>1. /\ pc = "rename" /\ pc' = "evict"
        /\ files' = [files EXCEPT ![Fin(c)] = files[Tmp(c)], ![Tmp(c)] = Absent]
        /\ mem' = Record(mem, Fin(c), SizeOf[call.data])
    BY <1>5 DEF StoreRename
  <2>2. /\ c \in Chunks /\ call.data \in Data
        /\ Fin(c) \in Names /\ Tmp(c) \in Names /\ Fin(c) # Tmp(c)
    BY <2>1, NameFacts DEF InFlight, StoreCalls
  <2>3. files[Tmp(c)] = call.data /\ call.data # Absent
    BY <1>b, <2>1, <2>2, ContentAssumption
  <2>4. Lists(mem, Present \ {Tmp(c)})
    BY <1>b, <2>1 DEF Storing
  <2>5. SizeOf[call.data] = FileSize(call.data)
    BY <2>1, RecordedSizes
  <2> HIDE DEF c
  <2>6. /\ files'[Fin(c)] = call.data /\ files'[Tmp(c)] = Absent
        /\ \A n \in Names \ {Fin(c), Tmp(c)} : files'[n] = files[n]
    BY <1>c, <2>1, <2>2, <2>3
  <2>7. Present' = (Present \ {Tmp(c)}) \cup {Fin(c)}
    BY <2>2, <2>3, <2>6 DEF Present
  <2>8. /\ mem'.known = mem.known \cup {Fin(c)}
        /\ mem'.size[Fin(c)] = SizeOf[call.data]
        /\ \A n \in Names \ {Fin(c)} : mem'.size[n] = mem.size[n]
    <3>1. PICK s : s = SizeOf[call.data]
      OBVIOUS
    <3>2. mem' = Record(mem, Fin(c), s)
      BY <2>1, <3>1
    <3> QED
      BY <1>c, <2>2, <3>1, <3>2, SizeFacts
  <2>9. Lists(mem, Present)'
    BY <1>c, <2>2, <2>4, <2>5, <2>6, <2>7, <2>8 DEF Lists
  <2>10. \A b \in Chunks : files'[Tmp(b)] = Absent
    <3>1. ASSUME NEW b \in Chunks, b # c
          PROVE  files'[Tmp(b)] = Absent
      <4>1. Tmp(b) \in Names \ {Fin(c), Tmp(c)}
        BY <3>1, NameFacts
      <4>2. files[Tmp(b)] = Absent
        BY <1>b, <3>1 DEF c
      <4> QED
        BY <2>6, <4>1, <4>2
    <3> QED
      BY <2>6, <3>1
  <2> QED
    BY <2>1, <2>9, <2>10 DEF Storing
<1>6. ASSUME NEW n \in Names, EnforceLimit(n)
      PROVE  Body'
  <2>1. /\ pc = "evict" /\ pc' = "evict" /\ mem' = Evicted(mem, n)
        /\ files' = [files EXCEPT ![n] = Absent]
    BY <1>6, <1>a DEF EnforceLimit, RemoveFile
  <2>2. mem'.known = mem.known \ {n} /\ \A m \in Names \ {n} : mem'.size[m] = mem.size[m]
    <3>1. PICK u : u = Wrap(mem.used - mem.size[n])
      OBVIOUS
    <3>2. mem' = [Erase(mem, n) EXCEPT !.used = u]
      BY <1>c, <2>1, <3>1, SizeFacts
    <3> QED
      BY <1>c, <3>2, SizeFacts
  <2>3. Lists(mem, Present)'
    BY <1>d, <2>1, <2>2, ListsFacts
  <2>4. \A c \in Chunks : files'[Tmp(c)] = Absent
    BY <1>c, <1>d, <2>1, NameFacts
  <2> QED
    BY <2>1, <2>3, <2>4 DEF Storing
<1>7. ASSUME NEW c \in Chunks, DeleteChunk(c)
      PROVE  Body'
  <2>1. /\ pc = "idle" /\ pc' = "persist" /\ call'.op = "delete"
        /\ mem' = [Erase(mem, Fin(c)) EXCEPT !.used = DeductedUsed(mem, Fin(c))]
        /\ files' = [files EXCEPT ![Fin(c)] = Absent] /\ Fin(c) \in Names
    BY <1>7, <1>a, NameFacts DEF DeleteChunk, RemoveFile
  <2>2. /\ mem'.known = mem.known \ {Fin(c)}
        /\ \A m \in Names \ {Fin(c)} : mem'.size[m] = mem.size[m]
    <3>1. PICK u : u = DeductedUsed(mem, Fin(c))
      OBVIOUS
    <3>2. mem' = [Erase(mem, Fin(c)) EXCEPT !.used = u]
      BY <2>1, <3>1
    <3> QED
      BY <1>c, <2>1, <3>2, SizeFacts
  <2>3. Lists(mem, Present)'
    BY <1>d, <2>1, <2>2, ListsFacts
  <2>4. \A b \in Chunks : files'[Tmp(b)] = Absent
    BY <1>c, <1>d, <2>1, NameFacts
  <2> QED
    BY <2>1, <2>3, <2>4 DEF Storing
<1>8. ASSUME NEW c \in Chunks, LoadChunk(c)
      PROVE  Body'
  <2>1. /\ pc = "idle" /\ pc' = "persist" /\ call'.op = "load"
        /\ mem' = Touch(mem, Fin(c)) /\ files' = files /\ Fin(c) \in Names
    BY <1>8, NameFacts DEF LoadChunk
  <2>2. mem'.known = mem.known /\ mem'.size = mem.size
    BY <1>c, <2>1, SizeFacts
  <2> QED
    BY <1>e, <2>1, <2>2
<1>9. CASE EnforceLimitDone
  <2>1. /\ pc = "evict" /\ ~OverLimit /\ pc' = "persist"
        /\ UNCHANGED <<files, mem, max>>
    BY <1>9 DEF EnforceLimitDone
  <2>2. mem.used <= SumSizes(mem.size, mem.known)
    <3>1. mem.used <= SumSizes(mem.size, mem.known) + crashes * Capacity
      BY <1>a, <2>1 DEF Accounted, Counts, Storing
    <3>2. crashes * Capacity = 0
      BY <1>a, CapacityAssumption
    <3>3. SumSizes(mem.size, mem.known) \in Nat
      <4>1. mem.known \in SUBSET Names /\ \A n \in mem.known : mem.size[n] \in Nat
        BY <1>c DEF Ledger
      <4> QED
        BY <4>1, SumType
    <3> QED
      BY <3>1, <3>2, <3>3
  <2>3. max \in Nat /\ mem.used \in Nat
    BY <1>c, LimitAssumption DEF TypeOK, Ledger
  <2>4. mem.known = {} => mem.used <= 0
    BY <2>2, SumEmpty
  <2>5. mem.used <= max
    BY <2>1, <2>3, <2>4 DEF OverLimit
  <2> QED
    BY <1>e, <2>1, <2>5
<1>10. CASE Stop
  <2>1. pc = "idle" /\ pc' = "down" /\ UNCHANGED <<files, dbOk, db>>
    BY <1>10 DEF Stop
  <2>2. dbOk /\ db = mem
    BY <1>a, <2>1 DEF Saved, Ordering
  <2>3. Lists(db, Present)'
    BY <1>d, <2>1, <2>2 DEF Lists, Present
  <2> QED
    BY <1>d, <2>1, <2>2, <2>3 DEF Storing
<1>11. CASE ScanDone \/ PersistMetadata
  <2>1. /\ pc \in {"scan", "persist"} /\ UNCHANGED <<files, mem>>
        /\ \/ pc' = "idle"
           \/ pc = "scan" /\ pc' = "persist" /\ call' = call
    BY <1>11 DEF ScanDone, PersistMetadata, Return
  <2> QED
    BY <1>b, <1>e, <2>1
<1>12. ASSUME NEW m \in Limits, SetMaxBytes(m)
       PROVE  Body'
  <2>1. pc = "idle" /\ pc' = "evict" /\ UNCHANGED <<files, mem>>
    BY <1>12 DEF SetMaxBytes
  <2> QED
    BY <1>e, <2>1
<1>13. CASE UNCHANGED vars
  BY <1>b, <1>13 DEF vars, Storing, Lists, Present
<1>14. /\ \A n \in Names : ~ ScanFile(n)
       /\ \A c \in Chunks : ~ StoreOpenFails(c)
       /\ ~ StoreRenameFails /\ ~ EnforceNoLimit /\ ~ Crash
  <2>1. \A n \in Names : ~ ScanFile(n)
    BY <1>d DEF ScanFile, Lists
  <2> QED
    BY <1>a, <1>c, <2>1
    DEF StoreOpenFails, StoreRenameFails, EnforceNoLimit, Crash
<1> HIDE DEF Body
<1> QED
  BY <1>1, <1>2, <1>3, <1>4, <1>5, <1>6, <1>7, <1>8, <1>9, <1>10, <1>11, <1>12,
     <1>13, <1>14 DEF Next, Start, CallStep

LEMMA InitIInv == Init => IInv
<1> SUFFICES ASSUME Init
             PROVE  RealSizes /\ Accounted /\ Mirrors
  BY InitOrderInv DEF IInv
<1>1. /\ mem = EmptyLedger /\ db = EmptyLedger /\ pc = "down" /\ crashes = 0
      /\ ~dbOk /\ Present = {}
  BY DEF Init, Present
<1>2. RealSizes
  BY <1>1 DEF RealSizes, EmptyLedger
<1>3. Accounted
  <2>1. 0 \in 0 .. MaxCrashes
    BY BoundAssumption
  <2>2. CountsAfter(EmptyLedger, EmptyLedger.known, crashes)
    BY <1>1, <2>1, EmptyCounts
  <2> QED
    BY <1>1, <2>2 DEF Accounted, Counts, CountsAfter, Storing
<1>4. Mirrors
  <2>1. \A c \in Chunks : files[Tmp(c)] = Absent
    BY NameFacts DEF Init
  <2> QED
    BY <1>1, <2>1 DEF Mirrors
<1> QED
  BY <1>2, <1>3, <1>4

\* The inductive invariant holds: OrderInv keeps the files whole and the order of
\* use, RealSizes bounds what a ledger can list, Accounted relates usedBytes_ to
\* the entries through every deduction, eviction, scan and cut metadata.db, and
\* Mirrors relates the ledger to the directory.
THEOREM Invariance == Spec => []IInv
<1>1. IInv /\ [Next]_vars => (RealSizes /\ Accounted /\ Mirrors)'
  BY RealSizesStep, AccountedStep, MirrorsStep DEF IInv, OrderInv
<1>2. IInv => RealSizes /\ Accounted /\ Mirrors
  BY DEF IInv
<1>3. Init => RealSizes /\ Accounted /\ Mirrors
  BY InitIInv DEF IInv
<1>4. IInv <=> OrderInv /\ RealSizes /\ Accounted /\ Mirrors
  BY DEF IInv
<1> QED
  BY <1>1, <1>3, <1>4, OrderInvariance, PTL DEF Spec

\* UsedCovers: the subtraction of enforceLimit never wraps around 2^64 as long as
\* the file system reports no error, whatever a kill left of metadata.db.
THEOREM UsedNeverShort == Spec => []UsedCovers
<1>1. IInv => UsedCovers
  <2> SUFFICES ASSUME IInv, faults = 0, pc \in {"idle", "evict", "persist"}
               PROVE  mem.used >= SumSizes(mem.size, mem.known)
    BY DEF UsedCovers
  <2>1. mem.known \in SUBSET Names /\ (\A n \in mem.known : mem.size[n] \in Nat)
        /\ mem.used \in Nat
    BY DEF IInv, OrderInv, TypeOK, Ledger
  <2>2. SumSizes(mem.size, mem.known) \in Nat
    BY <2>1, SumType
  <2>3. SumSizes(mem.size, mem.known) <= mem.used
    BY DEF IInv, Accounted, Counts, Storing
  <2> QED
    BY <2>1, <2>2, <2>3
<1> QED
  BY <1>1, Invariance, PTL

\* As long as nothing was killed usedBytes_ is the sum itself.
LEMMA UsedIsSum ==
  ASSUME IInv, Clean, pc \notin {"write", "rename"}
  PROVE  /\ mem.used = SumSizes(mem.size, mem.known)
         /\ mem.used \in Nat
<1>1. mem.known \in SUBSET Names /\ (\A n \in mem.known : mem.size[n] \in Nat)
      /\ mem.used \in Nat /\ crashes = 0 /\ faults = 0
  BY DEF IInv, OrderInv, TypeOK, Ledger, Clean
<1>2. SumSizes(mem.size, mem.known) \in Nat
  BY <1>1, SumType
<1>3. /\ SumSizes(mem.size, mem.known) <= mem.used
      /\ mem.used <= SumSizes(mem.size, mem.known) + crashes * Capacity
  BY <1>1 DEF IInv, Accounted, Counts, Storing
<1>4. crashes * Capacity = 0
  BY <1>1, CapacityAssumption
<1> QED
  BY <1>1, <1>2, <1>3, <1>4

\* LedgerExact: as long as nothing goes wrong, between two calls meta_ is the
\* directory, usedBytes_ its size, and metadata.db a copy of both.
THEOREM LedgerIsExact == Spec => []LedgerExact
<1>1. IInv => LedgerExact
  <2> SUFFICES ASSUME IInv, Clean, pc = "idle"
               PROVE  /\ mem.known = Present
                      /\ \A n \in Present : mem.size[n] = FileSize(files[n])
                      /\ mem.used = SumSizes(mem.size, mem.known)
                      /\ dbOk /\ db = mem
    BY DEF LedgerExact
  <2>1. Lists(mem, Present)
    BY DEF IInv, Mirrors, Storing
  <2>2. dbOk /\ db = mem
    BY DEF IInv, OrderInv, Saved, Clean, Ordering
  <2> QED
    BY <2>1, <2>2, UsedIsSum DEF Lists
<1> QED
  BY <1>1, Invariance, PTL

\* WithinLimit: as long as nothing goes wrong, the files on disk take at most
\* maxBytes_ when storeChunk or setMaxBytes is about to return.
THEOREM LimitHolds == Spec => []WithinLimit
<1>1. IInv => WithinLimit
  <2> SUFFICES ASSUME IInv, Clean, pc = "persist", call.op \in {"store", "limit"}
               PROVE  BytesOnDisk <= max
    BY DEF WithinLimit
  <2>1. Lists(mem, Present) /\ mem.used <= max
    BY DEF IInv, Mirrors, Storing
  <2>2. BytesOnDisk = SumSizes(mem.size, mem.known)
    <3> DEFINE real == [n \in Present |-> FileSize(files[n])]
    <3>1. \A n \in Present : real[n] = mem.size[n]
      BY <2>1 DEF Lists
    <3>2. BytesOnDisk = SumSizes(real, Present)
      BY DEF BytesOnDisk
    <3> HIDE DEF real
    <3>3. SumSizes(real, Present) = SumSizes(mem.size, Present)
      BY <3>1, SumSame
    <3> QED
      BY <2>1, <3>2, <3>3 DEF Lists
  <2> QED
    BY <2>1, <2>2, UsedIsSum
<1> QED
  BY <1>1, Invariance, PTL

=============================================================================
