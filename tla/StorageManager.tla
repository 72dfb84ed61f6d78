--------------------------- MODULE StorageManager ---------------------------
(***************************************************************************)
(* The on-disk chunk storage of a peer (core/storage/storage_manager.cpp): *)
(* chunk files under chunks/, an in-memory ledger meta_ / usedBytes_ /     *)
(* accessCounter_, and metadata.db, the copy of the ledger on disk.        *)
(*                                                                         *)
(* One process uses it, one call at a time, and may be killed between any  *)
(* two effects on the disk.  So every call is cut into the steps that      *)
(* change the disk; memory changes between two such steps belong to the    *)
(* step before.  A killed process loses the ledger and keeps the disk.     *)
(***************************************************************************)
EXTENDS Integers, FiniteSets

CONSTANTS
  Chunks,          \* chunk ids: the hash argument of the calls
  Data,            \* payloads
  SizeOf,          \* payload -> its size in bytes
  Torn,            \* the content of a file that was only partly written
  TornSize,        \* ... and its size
  Absent,          \* the content of a file that does not exist
  Limits,          \* values maxBytes_ may take; 0 means unlimited
  Modulus,         \* 2^64: usedBytes_ is a uint64_t
  Capacity,        \* bytes that the chunk files can take all together
  Base,            \* base of the numerals in metadata.db, 10 in the code
  MaxAccess,       \* bound: no new access once accessCounter_ reaches it
  MaxCrashes,      \* bound: kills in the middle of a call
  MaxFaults,       \* bound: errors of the file system, seen by the code or not
  MaxShortWrites   \* bound: payload writes that fail, which nobody checks

ASSUME ContentAssumption ==
  /\ IsFiniteSet(Chunks)
  /\ SizeOf \in [Data -> Nat]
  /\ TornSize \in Nat
  /\ Torn \notin Data
  /\ Absent \notin Data
  /\ Absent # Torn

ASSUME LimitAssumption ==
  /\ Limits \subseteq Nat
  /\ Modulus \in Nat \ {0}
  /\ Base \in Nat \ {0, 1}

ASSUME BoundAssumption ==
  /\ MaxAccess \in Nat
  /\ MaxCrashes \in Nat
  /\ MaxFaults \in Nat
  /\ MaxShortWrites \in Nat

VARIABLES
  files,        \* chunks/: file name -> content, or Absent
  dbOk,         \* metadata.db exists and its first line parses
  db,           \* the ledger read from metadata.db when dbOk
  mem,          \* the ledger in memory
  max,          \* maxBytes_
  pc,           \* where the process is
  call,         \* the call it executes
  \* History variables, read by properties only:
  acked,        \* chunks whose store call returned and whose file is still due
  older,        \* pairs <<a, b>> of ledger entries: b was used after a
  scanned,      \* entries that a directory scan found and nobody used since
  unfair,       \* evictions of an entry with one kept that was used before it
  crashes,      \* kills in the middle of a call so far
  faults,       \* file system errors so far
  shortWrites   \* payload writes cut short so far

disk  == <<files, dbOk, db>>
uses  == <<older, scanned, unfair>>
ghost == <<acked, uses>>
vars  == <<files, dbOk, db, mem, max, pc, call, acked, older, scanned, unfair,
           crashes, faults, shortWrites>>

-----------------------------------------------------------------------------
(* Files and ledgers.                                                      *)

\* chunkPath(hash) and chunkPath(hash) + ".tmp".
Fin(c) == <<c, "fin">>

\* Mutant of Tmp: the chunk is written in place.
TmpIsFin(c) == Fin(c)

Tmp(c) == <<c, "tmp">>

Names  == Chunks \X {"fin", "tmp"}

Content == Data \cup {Torn, Absent}

FileSize(x) == IF x = Torn THEN TornSize ELSE SizeOf[x]

Present == {n \in Names : files[n] # Absent}

\* accessCounter_, usedBytes_ and meta_; an id that meta_ does not hold has
\* size 0 and lastAccess 0 here.
Ledger == [counter : Nat, used : Nat, known : SUBSET Names,
           size : [Names -> Nat], last : [Names -> Nat]]

EmptyLedger == [counter |-> 0, used |-> 0, known |-> {},
                size |-> [n \in Names |-> 0], last |-> [n \in Names |-> 0]]

\* The bytes of the entries in S, one by one, and how many they are.
Bytes(size, S) == UNION {{n} \X (1 .. size[n]) : n \in S}
SumSizes(size, S) == Cardinality(Bytes(size, S))

\* The sizes a file can have.
FileSizes == {FileSize(x) : x \in Data \cup {Torn}}

\* No disk comes near 2^64 bytes, nor does what metadata.db still counts after
\* each of the kills it was cut short by.
ASSUME CapacityAssumption ==
  /\ Capacity \in Nat
  /\ \A size \in [Names -> FileSizes] : SumSizes(size, Names) <= Capacity
  /\ (MaxCrashes + 1) * Capacity < Modulus

\* Mutant of Wrap: usedBytes_ is signed.
WrapSigned(x) == x

\* usedBytes_ is unsigned and wraps around.
Wrap(x) == x % Modulus

\* meta_.erase(n)
Erase(l, n) == [l EXCEPT !.known = @ \ {n}, !.size[n] = 0, !.last[n] = 0]

\* The numbers a reader may see where the numeral of x was cut short.
Prefixes(x) == {v \in 1 .. x : \E k \in 0 .. x : v = x \div (Base ^ k)}

\* The ledger reduced to the entries in S.
Reduced(l, S) ==
  [l EXCEPT !.known = S,
            !.size  = [n \in Names |-> IF n \in S THEN l.size[n] ELSE 0],
            !.last  = [n \in Names |-> IF n \in S THEN l.last[n] ELSE 0]]

\* What a reader finds in a metadata.db whose writing stopped after the first
\* line and the lines of the entries in S: the last number of the last of them
\* may be cut short.
Cut(l, S) ==
  {Reduced(l, S)} \cup
  UNION {{[Reduced(l, S) EXCEPT !.last = [@ EXCEPT ![n] = v]] :
            v \in Prefixes(l.last[n])} : n \in S}

\* Mutant of DeductedUsed: the old version is not deducted.
DeductedUsedNever(l, n) == l.used

\* usedBytes_ without the bytes of n, never below 0.
DeductedUsed(l, n) ==
  IF n \notin l.known THEN l.used
  ELSE IF l.used >= l.size[n] THEN l.used - l.size[n] ELSE 0

\* Mutant of Touch: the counter moves, the entry does not.
TouchCounterOnly(l, n) == [l EXCEPT !.counter = @ + 1]

\* touch(): an id that meta_ does not hold is left alone.
Touch(l, n) ==
  IF n \in l.known
  THEN [l EXCEPT !.counter = @ + 1,
                 !.last    = [@ EXCEPT ![n] = l.counter + 1]]
  ELSE l

\* Mutant of Record: usedBytes_ += size is missing.
RecordUncounted(l, n, size) ==
  [l EXCEPT !.counter = @ + 1, !.known = @ \cup {n},
            !.size[n] = size, !.last[n] = l.counter + 1]

\* Mutant of Record: accessCounter_++ instead of ++accessCounter_.
RecordPostIncrement(l, n, size) ==
  [RecordUncounted(l, n, size) EXCEPT !.used = Wrap(@ + size),
                                      !.last[n] = l.counter]

\* meta_[n] = {size, ++accessCounter_}; usedBytes_ += size
Record(l, n, size) ==
  [counter |-> l.counter + 1,
   used    |-> Wrap(l.used + size),
   known   |-> l.known \cup {n},
   size    |-> [l.size EXCEPT ![n] = size],
   last    |-> [l.last EXCEPT ![n] = l.counter + 1]]

\* The ledger once enforceLimit evicted n.
Evicted(l, n) == [Erase(l, n) EXCEPT !.used = Wrap(@ - l.size[n])]

\* Mutant of Victims: the comparison is the wrong way round.
VictimsNewest(l) == {n \in l.known : \A m \in l.known : l.last[n] >= l.last[m]}

\* The victims enforceLimit may pick: any entry with the smallest lastAccess.
Victims(l) == {n \in l.known : \A m \in l.known : l.last[n] <= l.last[m]}

\* The pairs of older without n, and once n is the entry used last.
Forget(n)  == {p \in older : p[1] # n /\ p[2] # n}
UsedNow(n) == Forget(n) \cup ((mem.known \ {n}) \X {n})

\* n is the entry used last.
Use(n) ==
  /\ older' = UsedNow(n)
  /\ scanned' = scanned \ {n}
  /\ UNCHANGED unfair

\* n is dropped: with it goes what is known of its use.
Drop(n) ==
  /\ older' = Forget(n)
  /\ scanned' = scanned \ {n}

\* An eviction of n breaks the order of use: an entry used before n stays, and
\* the place of n is not one that a directory scan made up.
Unfair(n) ==
  /\ n \notin scanned
  /\ \E m \in mem.known : <<m, n>> \in older

-----------------------------------------------------------------------------
(* Calls.                                                                  *)

NoCall == [op |-> "none"]

StoreCalls == [op : {"store"}, chunk : Chunks, data : Data]

Calls == {NoCall}
  \cup StoreCalls
  \cup [op : {"init", "load", "delete", "limit"}]

Init ==
  /\ files = [n \in Names |-> Absent]
  /\ dbOk = FALSE
  /\ db = EmptyLedger
  /\ mem = EmptyLedger
  /\ max \in Limits
  /\ pc = "down"
  /\ call = NoCall
  /\ acked = {}
  /\ older = {}
  /\ scanned = {}
  /\ unfair = 0
  /\ crashes = 0
  /\ faults = 0
  /\ shortWrites = 0

\* The call returns.  A store call that left a whole file behind is owed.
Return ==
  /\ pc' = "idle"
  /\ call' = NoCall
  /\ acked' = IF call.op = "store" /\ files[Fin(call.chunk)] \in Data
              THEN acked \cup {call.chunk}
              ELSE acked

\* fs::remove(path, ec): an error is ignored and leaves the file.
RemoveFile(n) ==
  \/ /\ files' = [files EXCEPT ![n] = Absent]
     /\ UNCHANGED faults
  \/ /\ faults < MaxFaults
     /\ faults' = faults + 1
     /\ UNCHANGED files

StillOnDisk == {c \in acked : files'[Fin(c)] # Absent}

\* init() with a metadata.db whose first line can be read: it is believed.
LoadMetadata(m) ==
  /\ pc = "down"
  /\ dbOk
  /\ max' = m
  /\ mem' = db
  /\ pc' = "idle"
  /\ UNCHANGED <<disk, call, ghost, crashes, faults, shortWrites>>

\* init() without one: the ledger starts empty and the directory is scanned.
RebuildMetadataFromDisk(m) ==
  /\ pc = "down"
  /\ ~dbOk
  /\ max' = m
  /\ mem' = EmptyLedger
  /\ pc' = "scan"
  /\ call' = [op |-> "init"]
  /\ UNCHANGED <<disk, ghost, crashes, faults, shortWrites>>

\* One round of the directory iteration, whose order is unspecified: every file
\* becomes an entry, the left-over temporary files included.
ScanFile(n) ==
  /\ pc = "scan"
  /\ n \in Present \ mem.known
  /\ mem' = Record(mem, n, FileSize(files[n]))
  /\ scanned' = scanned \cup {n}
  /\ UNCHANGED <<disk, max, pc, call, acked, older, unfair, crashes, faults,
                 shortWrites>>

\* The iteration is over; a file whose size could not be read was skipped.
ScanDone ==
  /\ pc = "scan"
  /\ \/ /\ Present \subseteq mem.known
        /\ UNCHANGED faults
     \/ /\ ~(Present \subseteq mem.known)
        /\ faults < MaxFaults
        /\ faults' = faults + 1
  /\ pc' = "persist"
  /\ UNCHANGED <<disk, mem, max, call, ghost, crashes, shortWrites>>

\* storeChunk: the bytes of the old version are deducted, then the temporary
\* file is opened, which truncates it.
StoreChunk(c, d) ==
  /\ pc = "idle"
  /\ mem.counter < MaxAccess
  /\ mem' = [mem EXCEPT !.used = DeductedUsed(mem, Fin(c))]
  /\ files' = [files EXCEPT ![Tmp(c)] = Torn]
  /\ pc' = "write"
  /\ call' = [op |-> "store", chunk |-> c, data |-> d]
  /\ UNCHANGED <<dbOk, db, max, ghost, crashes, faults, shortWrites>>

\* The temporary file cannot be opened: storeChunk throws, and the deducted
\* bytes are not given back.
StoreOpenFails(c) ==
  /\ pc = "idle"
  /\ faults < MaxFaults
  /\ faults' = faults + 1
  /\ mem' = [mem EXCEPT !.used = DeductedUsed(mem, Fin(c))]
  /\ UNCHANGED <<disk, max, pc, call, ghost, crashes, shortWrites>>

StoreWrite ==
  /\ pc = "write"
  /\ \/ /\ files' = [files EXCEPT ![Tmp(call.chunk)] = call.data]
        /\ UNCHANGED shortWrites
     \/ \* the disk is full: out.write fails, its state is not looked at
        /\ SizeOf[call.data] > 0
        /\ shortWrites < MaxShortWrites
        /\ shortWrites' = shortWrites + 1
        /\ UNCHANGED files
  /\ pc' = "rename"
  /\ UNCHANGED <<dbOk, db, mem, max, call, ghost, crashes, faults>>

\* The rename makes the new version visible; then the ledger records it.
StoreRename ==
  LET c == call.chunk
  IN  /\ pc = "rename"
      /\ files' = [files EXCEPT ![Fin(c)] = files[Tmp(c)], ![Tmp(c)] = Absent]
      /\ mem' = Record(mem, Fin(c), SizeOf[call.data])
      /\ acked' = IF files[Tmp(c)] = Torn THEN acked \ {c} ELSE acked
      /\ Use(Fin(c))
      /\ pc' = "evict"
      /\ UNCHANGED <<dbOk, db, max, call, crashes, faults, shortWrites>>

\* Mutant of RemoveTmp: the final file is removed.
RemoveTmpWrongPath(c) == files' = [files EXCEPT ![Fin(c)] = Absent]

\* The clean-up after a failed rename, which may fail as well.
RemoveTmp(c) == files' \in {files, [files EXCEPT ![Tmp(c)] = Absent]}

\* The rename fails: the temporary file is removed if it can be, storeChunk
\* throws, and the deducted bytes are not given back.
StoreRenameFails ==
  /\ pc = "rename"
  /\ faults < MaxFaults
  /\ faults' = faults + 1
  /\ RemoveTmp(call.chunk)
  /\ pc' = "idle"
  /\ call' = NoCall
  /\ UNCHANGED <<dbOk, db, mem, max, ghost, crashes, shortWrites>>

\* Mutant of OverLimit: off by one.
OverLimitByTwo == mem.used > max + 1 /\ mem.known # {}

\* Mutant of OverLimit: !meta_.empty() is missing.
OverLimitEvenEmpty == mem.used > max

\* The loop condition of enforceLimit.
OverLimit == mem.used > max /\ mem.known # {}

\* One round of the loop: the file goes first, then the entry.
EnforceLimit(n) ==
  /\ pc = "evict"
  /\ max # 0
  /\ OverLimit
  /\ n \in Victims(mem)
  /\ RemoveFile(n)
  /\ mem' = Evicted(mem, n)
  /\ acked' = StillOnDisk
  /\ Drop(n)
  /\ unfair' = IF Unfair(n) THEN unfair + 1 ELSE unfair
  /\ UNCHANGED <<dbOk, db, max, pc, call, crashes, shortWrites>>

EnforceLimitDone ==
  /\ pc = "evict"
  /\ max # 0
  /\ ~OverLimit
  /\ pc' = "persist"
  /\ UNCHANGED <<disk, mem, max, call, ghost, crashes, faults, shortWrites>>

\* Without a limit enforceLimit returns at once, and nothing is persisted.
EnforceNoLimit ==
  /\ pc = "evict"
  /\ max = 0
  /\ Return
  /\ UNCHANGED <<disk, mem, max, uses, crashes, faults, shortWrites>>

\* loadChunk of an existing file, whether or not the ledger knows it.  (For a
\* missing file it throws and changes nothing.)
LoadChunk(c) ==
  /\ pc = "idle"
  /\ files[Fin(c)] # Absent
  /\ mem.counter < MaxAccess
  /\ mem' = Touch(mem, Fin(c))
  /\ IF Fin(c) \in mem.known THEN Use(Fin(c)) ELSE UNCHANGED uses
  /\ pc' = "persist"
  /\ call' = [op |-> "load"]
  /\ UNCHANGED <<disk, max, acked, crashes, faults, shortWrites>>

DeleteChunk(c) ==
  /\ pc = "idle"
  /\ mem' = [Erase(mem, Fin(c)) EXCEPT !.used = DeductedUsed(mem, Fin(c))]
  /\ RemoveFile(Fin(c))
  /\ acked' = StillOnDisk
  /\ Drop(Fin(c))
  /\ pc' = "persist"
  /\ call' = [op |-> "delete"]
  /\ UNCHANGED <<dbOk, db, max, unfair, crashes, shortWrites>>

SetMaxBytes(m) ==
  /\ pc = "idle"
  /\ max' = m
  /\ pc' = "evict"
  /\ call' = [op |-> "limit"]
  /\ UNCHANGED <<disk, mem, ghost, crashes, faults, shortWrites>>

\* What is found of a metadata.db whose rewriting did not get through: the old
\* file, a truncated one, or the first line and the lines of some entries.  (The
\* stream is written in blocks far longer than the first line.)
Unfinished ==
  \/ UNCHANGED <<dbOk, db>>
  \/ dbOk' = FALSE /\ db' = EmptyLedger
  \/ dbOk' = TRUE /\ \E S \in SUBSET mem.known : db' \in Cut(mem, S)

\* persistMetadata: metadata.db is rewritten in place.  That it cannot be opened
\* is no error, and whether the lines were written is not looked at: on a full
\* disk the call returns all the same.
PersistMetadata ==
  /\ pc = "persist"
  /\ \/ /\ dbOk' = TRUE
        /\ db' = mem
        /\ UNCHANGED faults
     \/ /\ faults < MaxFaults
        /\ faults' = faults + 1
        /\ Unfinished
  /\ Return
  /\ UNCHANGED <<files, mem, max, uses, crashes, shortWrites>>

\* hasChunk and listChunks look at the ledger alone.
HasChunk(c) == Fin(c) \in mem.known

-----------------------------------------------------------------------------
(* The process ends.                                                       *)

\* The peer stops between two calls; nothing is saved on the way out.
Stop ==
  /\ pc = "idle"
  /\ pc' = "down"
  /\ mem' = EmptyLedger
  /\ UNCHANGED <<disk, max, call, ghost, crashes, faults, shortWrites>>

\* The process is killed in the middle of a call.
Crash ==
  /\ pc \notin {"down", "idle"}
  /\ crashes < MaxCrashes
  /\ crashes' = crashes + 1
  /\ IF pc = "persist" THEN Unfinished ELSE UNCHANGED <<dbOk, db>>
  /\ pc' = "down"
  /\ call' = NoCall
  /\ mem' = EmptyLedger
  /\ UNCHANGED <<files, max, ghost, faults, shortWrites>>

-----------------------------------------------------------------------------

Start == \E m \in Limits : LoadMetadata(m) \/ RebuildMetadataFromDisk(m)

\* The steps that carry a call on once it has begun.
CallStep ==
  \/ \E n \in Names : ScanFile(n)
  \/ ScanDone
  \/ StoreWrite
  \/ StoreRename
  \/ StoreRenameFails
  \/ \E n \in Names : EnforceLimit(n)
  \/ EnforceLimitDone
  \/ EnforceNoLimit
  \/ PersistMetadata

Next ==
  \/ Start
  \/ \E c \in Chunks :
       \/ \E d \in Data : StoreChunk(c, d)
       \/ StoreOpenFails(c)
       \/ LoadChunk(c)
       \/ DeleteChunk(c)
  \/ \E m \in Limits : SetMaxBytes(m)
  \/ CallStep
  \/ Stop
  \/ Crash

Spec == Init /\ [][Next]_vars

\* The thread that runs a call is scheduled until the call returns.
FairSpec == Spec /\ WF_vars(CallStep)

-----------------------------------------------------------------------------
(* Properties.                                                             *)

Steps == {"down", "scan", "idle", "write", "rename", "evict", "persist"}

\* Every variable has its type; in particular usedBytes_, which can underflow
\* after an error of the file system, stays a natural number.
TypeOK ==
  /\ files \in [Names -> Content]
  /\ dbOk \in BOOLEAN
  /\ db \in Ledger
  /\ mem \in Ledger
  /\ max \in Limits
  /\ pc \in Steps
  /\ call \in Calls
  /\ acked \subseteq Chunks
  /\ older \subseteq Names \X Names
  /\ scanned \subseteq Names
  /\ unfair \in Nat
  /\ crashes \in 0 .. MaxCrashes
  /\ faults \in 0 .. MaxFaults
  /\ shortWrites \in 0 .. MaxShortWrites

\* Nothing went wrong so far: no kill, no file system error, no full disk, and
\* a byte limit in force.
Clean ==
  /\ crashes = 0
  /\ faults = 0
  /\ shortWrites = 0
  /\ 0 \notin Limits

\* As long as nothing goes wrong the ledger is exact whenever no call runs: it
\* holds the files of the directory with their sizes, usedBytes_ is the sum of
\* those sizes, and metadata.db holds the same ledger, so that a restart by
\* loadMetadata forgets nothing.
LedgerExact ==
  Clean /\ pc = "idle" =>
    /\ mem.known = Present
    /\ \A n \in Present : mem.size[n] = FileSize(files[n])
    /\ mem.used = SumSizes(mem.size, mem.known)
    /\ dbOk /\ db = mem

\* What the files of the directory really take.
BytesOnDisk == SumSizes([n \in Present |-> FileSize(files[n])], Present)

\* As long as nothing goes wrong, when storeChunk or setMaxBytes is about to
\* return the files on disk take no more than maxBytes_.
WithinLimit ==
  Clean /\ pc = "persist" /\ call.op \in {"store", "limit"} =>
    BytesOnDisk <= max

\* usedBytes_ never falls below what the entries of the ledger add up to, even
\* when metadata.db was cut short by a kill: so the subtraction in enforceLimit
\* does not underflow unless the file system reported an error before.
UsedCovers ==
  faults = 0 /\ pc \in {"idle", "evict", "persist"} =>
    mem.used >= SumSizes(mem.size, mem.known)

\* The ledger that the next eviction will go by.
Current == IF pc = "down" THEN db ELSE mem

\* The entries of l that lastAccess puts before one they were used after, those
\* aside that stand where a directory scan put them.
Misplaced(l) ==
  {b \in l.known \ scanned :
     \E a \in l.known : <<a, b>> \in older /\ l.last[a] >= l.last[b]}

\* The order of use is known as long as metadata.db can be written and a limit
\* makes every call write it.
Ordering == faults = 0 /\ 0 \notin Limits

\* lastAccess orders the entries as they were really used, but for one entry for
\* every kill: the one in use, whose new lastAccess was not written, or the one
\* whose numeral was cut.  The order is exact as long as nobody kills the peer.
LruFaithful == Ordering => Cardinality(Misplaced(Current)) <= crashes

\* enforceLimit evicts an entry while it keeps one that was used before at most
\* once for every kill, and never without one.
LruEviction == Ordering => unfair <= crashes

\* A kill never leaves a partly written file under the name of a chunk: the
\* payload goes to a temporary file that is renamed.  (A write cut short by a
\* full disk does, since nobody looks at the stream.)
WholeChunks ==
  shortWrites = 0 => \A c \in Chunks : files[Fin(c)] # Torn

\* What a reader of the chunk files sees is a ChunkStore: payloads appear as a
\* whole, and a chunk whose store call returned stays until it is overwritten,
\* evicted or deleted, whatever kills and errors happen.
CS == INSTANCE ChunkStore WITH
  Missing <- Absent,
  store   <- [c \in Chunks |->
                IF files[Fin(c)] \in Data THEN files[Fin(c)] ELSE Absent]

\* (The specification CS!Spec, as a property of the runs.)
ImplementsChunkStore == CS!Spec

\* What a store call owns between opening and renaming its temporary file.
InFlight ==
  pc \in {"write", "rename"} =>
    /\ call \in StoreCalls
    /\ files[Tmp(call.chunk)] # Absent
    /\ pc = "rename" /\ shortWrites = 0 => files[Tmp(call.chunk)] \in Data

\* A chunk whose store call returned has a whole file until it is dropped.
AckedDurable == \A c \in acked : files[Fin(c)] \in Data

\* accessCounter_ is ahead of every lastAccess, in memory and on disk.
CounterAhead ==
  \A l \in {mem, db} : \A n \in l.known : l.last[n] <= l.counter

\* Between two calls metadata.db holds the ledger.
Saved == Ordering /\ pc = "idle" => dbOk /\ db = mem

\* Entries whose lastAccess metadata.db has not got yet.
Unsaved == {n \in mem.known \cap db.known : db.last[n] # mem.last[n]}

\* Inside a call metadata.db is behind by the use of at most one entry; what it
\* still holds of entries dropped since has no place in the order of use.
Behind ==
  Ordering /\ pc # "down" =>
    /\ \A m, n \in Unsaved : m = n
    /\ \A n \in Unsaved : db.last[n] <= mem.last[n]
    /\ pc \in {"write", "rename"} => db.known = mem.known /\ db.last = mem.last
    /\ \A n \in db.known \ mem.known, p \in older : p[1] # n /\ p[2] # n

\* A scan runs without a metadata.db, and gives every entry its place.
Scanning ==
  /\ ~dbOk => db = EmptyLedger
  /\ pc = "scan" => ~dbOk /\ mem.known \subseteq scanned

\* Every kill pays for one entry that is misplaced or was evicted for it.
Paid == Ordering => Cardinality(Misplaced(Current)) + unfair <= crashes

\* What keeps the chunk files whole and the order of use faithful.
OrderInv ==
  /\ TypeOK
  /\ InFlight
  /\ AckedDurable
  /\ WholeChunks
  /\ CounterAhead
  /\ Saved
  /\ Behind
  /\ Scanning
  /\ Paid

\* Every entry of a ledger has the size of a file.
RealSizes == \A l \in {mem, db} : \A n \in l.known : l.size[n] \in FileSizes

\* usedBytes_ of l is what the entries in S add up to, and at most one disk more
\* for every kill that made metadata.db forget entries.
Counts(l, S) ==
  LET sum == SumSizes(l.size, S)
  IN  sum <= l.used /\ l.used <= sum + crashes * Capacity

Storing == pc \in {"write", "rename"}

\* The old version of a chunk that is being written is deducted already.
Accounted ==
  faults = 0 =>
    /\ Counts(db, db.known)
    /\ Counts(mem, IF Storing THEN mem.known \ {Fin(call.chunk)} ELSE mem.known)

\* l lists the files in S.
Lists(l, S) == l.known = S /\ \A n \in S : l.size[n] = FileSize(files[n])

\* As long as nothing goes wrong the ledger lists all files but the temporary
\* one, and eviction has brought usedBytes_ down to the limit.
Mirrors ==
  Clean =>
    /\ \A c \in Chunks : files[Tmp(c)] # Absent => Storing /\ call.chunk = c
    /\ pc = "rename" => files[Tmp(call.chunk)] = call.data
    /\ pc = "scan" => call.op = "init"
    /\ pc = "down" => IF dbOk THEN Lists(db, Present) ELSE Present = {}
    /\ pc # "down" =>
         Lists(mem, IF Storing THEN Present \ {Tmp(call.chunk)} ELSE Present)
    /\ pc = "persist" /\ call.op \in {"store", "limit"} => mem.used <= max

\* The inductive invariant behind the theorems of StorageManagerProofs.
IInv == OrderInv /\ RealSizes /\ Accounted /\ Mirrors

\* Every call returns, the eviction loop included, or the process is killed.
Progress == pc \notin {"down", "idle"} ~> pc \in {"down", "idle"}

\* What HAS_CHUNK tells a client, and what the limit can count: when no call runs,
\* the ledger lists exactly the chunks whose files exist, whatever happened before.
HasIsTruthful ==
  pc = "idle" => \A c \in Chunks : HasChunk(c) <=> files[Fin(c)] # Absent

=============================================================================
