# A TLA+ development of the decentralised storage system

This directory specifies and verifies the C++ program in `src/`: a store that
cuts files into chunks, places the chunks on peers by XOR distance, and gives
the uploader a share id (`dss://file/<hash of the manifest>`).

## 1. The system

| Part | Source (`src/src/...`) | State | Operations | Talks to |
|---|---|---|---|---|
| StorageManager | `core/storage` | chunk files, `meta_`, `usedBytes_`, `accessCounter_`, `metadata.db` | `init`, `storeChunk`, `loadChunk`, `deleteChunk`, `setMaxBytes`, `hasChunk`, `listChunks` | the file system |
| PeerService | `core/peer/peer_service.cpp`, `peer/main.cpp` | `running_`, `listenFd_`, worker thread, manifest files | `start`, `stop`, `runBlocking`, one handler per request | StorageManager; clients over TCP, one connection at a time |
| PeerClient | `core/peer/peer_client.cpp` | none | one request per call | PeerService |
| DssClient | `core/dss` | local manifests; the position in the file being moved | `putFile`, `getFile` (`repair` only throws) | PeerClient, DhtNode, chunker, manifest, crypto |
| DhtNode, RoutingTable | `core/dht` | list of known nodes | constructor, `store`, `findValue`, `findNode` | none |
| Manifest, chunker | `core/manifest`, `core/chunk` | none | serialise, parse; split | DssClient |
| Crypto | `core/crypto` | none | SHA-256, AES-GCM, RSA | DssClient |
| TCP helpers | `core/net` | none | connect, send, receive, timeouts | sockets |
| Tracker, TrackerClient | `tracker/main.cpp`, `core/tracker` | last-seen times, chunk index | REGISTER, HEARTBEAT, ANNOUNCE, WHERE, NEED_REPAIR, GET_PEERS | the old client; `putFile` and `getFile` do not use it |
| Graphical client | `client/main_window.cpp`, `client/dss_worker.cpp` | settings, list of peers, progress bar, message boxes, table of uploads, calls posted to the worker thread and signals from it, embedded peer | one slot per button and per signal | DssClient (in a thread of its own), PeerService |
| Command line client and peer | `client/main.cpp`, `peer/main.cpp` | none | argument parsing | DssClient, PeerService |

What is hard here, and what the properties are for:

* **Kills.** A peer has no shutdown protocol. Every effect on its disk can be the
  last one, and `metadata.db` is a copy of the ledger that is rewritten in place
  after the fact.
* **Increments.** `usedBytes_` is kept by additions and subtractions at five
  places, some of them before an operation that can fail.
* **Several clients.** Nothing coordinates uploads; a chunk id is the hash of the
  plaintext, whoever uploads it and however it is encrypted.
* **Calls that fail half way.** `putFile` stops at the first failing call,
  `getFile` goes on to the next candidate.
* **Two threads and a socket.** The window stops and restarts a peer that may be
  anywhere between opening its socket and cleaning up; clients may stall, vanish
  or wait in the backlog meanwhile.
* **Nested event loops.** The slots of the window open message boxes, which let
  further signals in before the slot goes on.
* **Text that is read back.** Manifests are written without a check and parsed by
  words.
* **Agreement without messages.** Clients find chunks only because they compute
  the same placement from lists they hold in different orders.

`PROJECT.json` lists the hazards line by line, with the properties that watch
them.

## 2. Modules

| Module | What it is |
|---|---|
| `ChunkStore` | Abstract: a map from chunk ids to whole payloads, and the set of acknowledged chunks. |
| `StorageManager` | The storage of one peer, cut into its effects on the disk. Implements `ChunkStore`. |
| `StorageManagerProofs` | The theorems about `StorageManager`. |
| `Kademlia` | Placement as operators: `closerTo`, `addNode`, `closestNodes`, `store`. |
| `KademliaDht` | The constructor of `DhtNode` reading a list of peers, and the reference definition of placement. |
| `KademliaDhtProofs` | The theorems about `Kademlia` and `KademliaDht`. |
| `DssClient` | `putFile` and `getFile` by several clients against several peers. Its placement is `Kademlia!Store` in `MCDssClient`. |
| `DssClientProofs` | The theorems about `DssClient`. |
| `EmbeddedPeer` | Abstract: what the window may expect of its embedded peer: whether it is up, and on which port it listens. |
| `PeerService` | The embedded peer: the GUI thread that starts and stops it, its worker thread, and the listening socket they share. Implements `EmbeddedPeer`. |
| `PeerCalls` | Abstract: what a caller of PeerClient may expect: a call acts at one moment or never, and succeeds only if it did. |
| `PeerProtocol` | `PeerService` extended by the connections: PeerClient, the request handlers, timeouts, broken connections. Implements `PeerCalls`, and still `EmbeddedPeer`. |
| `PeerProofs` | The theorems about `PeerService` and `PeerProtocol`. |
| `MainWindow` | The window, built on `EmbeddedPeer`, and the thread of DssWorker. |
| `MainWindowProofs` | The theorems about `MainWindow`. |
| `Manifest` | Chunking, writing, parsing and reading back by `putFile` and `getFile`. |
| `ManifestProofs` | The theorems about `Manifest`. |
| `ChunkDirectory` | Abstract: who announced which chunk, and who is alive. |
| `Tracker` | The tracker, one action per command. Implements `ChunkDirectory`. |
| `TrackerProofs` | The theorems about `Tracker`. |
| `InductionLemmas` | Induction and primitive recursion over the naturals, in a form the other proofs can use. |
| `MC*` | The constants of the runs. |

### StorageManager

`files` is the directory `chunks/`. A chunk has two names, its own and the one
ending in `.tmp`. A file that is open and not yet written holds `Torn`. `mem` is
the ledger in memory; `db` is the ledger that reading `metadata.db` gives, and
`dbOk` says whether its first line parses. `pc` and `call` are where the one
thread is. A call is the sequence of its disk effects: a store is `StoreChunk`
(deduct the old bytes, open the temporary file), `StoreWrite`, `StoreRename` (the
rename, and the entry in memory), any number of `EnforceLimit`, and
`PersistMetadata`. Without a limit `EnforceNoLimit` returns with nothing saved,
as the code does. `init` is `LoadMetadata`, or `RebuildMetadataFromDisk`,
`ScanFile` in any order, `ScanDone` and `PersistMetadata`.

Failures: `Crash` between any two effects; inside `PersistMetadata` it leaves the
old file, a truncated one, or the first line with some of the entries, the last
number of the last entry possibly cut (`Cut`: 17 read as 1). Errors of the file
system (opening, renaming, removing, reading a size, opening `metadata.db`) take
the branch the code takes; a full disk leaves `metadata.db` as a kill inside
`PersistMetadata` does (`Unfinished`), and the process goes on. `StoreWrite` may
be cut short by a full disk, which the code does not notice. A crash is a kill of the process: the operating system
keeps what was written. Power failures, where a rename can survive and the data
not, are not modelled, and neither is a `chunks` directory that cannot be made.

Data: a payload is a model value with a size. `usedBytes_` wraps at `Modulus`.
`Capacity` is what the chunk files can take all together; `CapacityAssumption`
says that it is so far below `Modulus`, which is 2^64, that real files alone do not
make `usedBytes_` wrap, whatever a cut `metadata.db` counts besides. An underflow
is not excluded by that: it is what `UsedCovers` is about.
`accessCounter_` is bounded by `MaxAccess` in the guards of new accesses only.
`acked`, `older`, `scanned` and `unfair` are history variables. `older` is the order
in which the entries were really used; a kill does not change it, so that what
`metadata.db` then says is compared with what happened. `scanned` are the entries
that a directory scan put anywhere, and `unfair` counts evictions out of order.

### DssClient

`cl[c]` is the local state of client `c`: the file and the key, the index of the
chunk, the peers still to call (`todo`), those found to lack the chunk
(`missing`), and what `getFile` has written (`out`). Each call to a peer is one
step, since a peer handles one connection at a time. It ends with the answer of
the peer, with a refused connection (the peer is down), or with a connection
that breaks before or after the peer acted. `hasChunk` takes a broken connection
for "no", but a refused one ends `putFile`, as in the code. Peers stop and start
again, and keep their disks; `PeerLoses` is eviction or damage, `Damaged` also
standing for an entry whose file is gone. A manifest written to a full disk is
lost although the peer says OK, and also when the connection breaks before it does.

`Readable` are the files whose names have no blank. Others are uploaded as well and
get a share id, but `parseManifestText` throws for their manifests, and `getFile` takes
every peer that sends one for a peer without it (`Offers`). The output of `getFile`
may fail to open, which ends it, or its disk may be full, which nobody notices: `stream`
is then `"bad"`, the output is what was flushed, in whole blocks, and the download
goes on to its end (`WriteBlock`). So does the local copy of the manifest.

The hash is the block itself, a ciphertext is the triple of key, index and
block, and opens only with that key at that index. All encrypting clients hold
the same RSA key pair; `Encrypting` is the set of clients that hold it.

### PeerService

`gui` is where the GUI thread is: in `startEmbeddedPeerIfEnabled`, at one of the
lines of `stop()`, or idle. `worker` is where `runLoop` is. `thread` says whether
there is a service, and whether its `std::thread` is still joinable; destroying
it then is `"terminated"`, the end of the program. Every access to `running_` and
`listenFd_` is a step. `sock`, `sockPort` and `woken` are the kernel's side:
`shutdown()` of a listening socket wakes `accept()`, and `close()` from another
thread does not. Opening, binding, listening, a request handler and
`storage.init()` can fail. A descriptor number is not given to another file
within the model, so the second `close()` of a descriptor, which the two threads
can do, has no effect here. `ApplySettings` stands for both buttons that apply
settings; the one for the network leaves port and switch as they are.

The map to `EmbeddedPeer` forgets threads and descriptors: `phase` is whether the
window is idle, changes its peer or closes, `up` is `isRunning()`, and `at` is
the port on which the kernel takes connections.

### PeerProtocol

Extends `PeerService`, so that every step of stopping and starting happens between
the steps of the connections. `calls` are the calls of PeerClient in the order
they connected: what each asked, what the peer did for it (`seen`, the effect on
the disk or what was read there), what it was answered, and what it returned.
`backlog` and `serving` are the connections, `step` is where the handler is, and
`arrived` counts the parts of its request, the line and the payload. A handler
waits for a part until it arrives, the client has gone, or the timeout of ten
seconds expires; in the model the timeout can expire at any time. A manifest is
written in place, a chunk by `storeChunk`; on a full disk either is torn and
acknowledged (`StoreBadly`). The StorageManager appears by what clients can see of
it: `listed` is its ledger, by which HAS_CHUNK is answered, all other requests being
answered from the files. Storing a chunk may evict any chunks, itself too, and their
files may fail to be removed; a restarted peer lists any of the chunks it was ever
given (`InitStorage`). Which of these really happen is the matter of
`StorageManager`. A put of less than the announced bytes is refused. A client may
break off at any time; its connection stays in the backlog and is served later,
so a call that failed may still act. What `PeerCalls` promises is that it does not
act after a call that connected later.

Two things this model contains and no property forbids, since the repository
promises nothing: a `send()` to a client that has closed its end may raise
SIGPIPE, which ends the program (`Sigpipe`), at an answer as well as at a payload; and an exception in a handler leaves
its connection and the listening socket open, so that clients wait (`Abandoned`)
until the peer is stopped, and that of the handler itself until the program ends.

`DssClient` uses calls that are one step with any outcome `PeerCalls` allows, a chunk
that was torn or evicted being one that `PeerLoses` takes right after; the
late effects of a call that failed are those of "broke after the peer acted",
since within `PeerCalls` the effect of a failed call precedes those of later calls.

### MainWindow

`phase` is shared with `EmbeddedPeer`: while the GUI thread stops or starts the
peer, no slot runs. `task` is what it does otherwise: events, or one of the two
halves of `discoverPeersFromBootstrap`, which blocks the event loop. `boxes` is
the stack of open message boxes, each with the slot that goes on when it is
closed; only the top one can be closed, signals are delivered with boxes open, and
buttons can be clicked with none. `calls` and `signals` are the two Qt queues,
`job` is what DssWorker executes, and a call ends with a signal or with an
exception that becomes one. `manifests` holds the local manifests, which are named
after the uploaded file without its directory. Hosts are names of this machine:
the same peer may be in the list twice, under the name in the seeds and under the
one it advertises, and count as two replicas; `ListIsCurrent` allows that.
Progress signals and the table of the peer monitor change nothing else and are
left out.

### Manifest

A text is a sequence of tokens, since `operator>>` does not tell blanks from line
ends. A byte is its position with the number of the change that wrote it, so blocks of
a file differ and a block's number can be its id. While it is read, another program
may make the file longer or shorter and write any of its bytes anew (`FileChanges`),
and a read may fail in the middle, which ends the loop of `chunkFile` like the end of
the file does. The output stream of a download may fail, unnoticed, as in `DssClient`. `WriteManifest` leaves any prefix of the text, the last token cut or not.
`ReadManifest` takes the shared text, whose hash is checked by `DssClient`, or
the local one. A file name with a blank cannot be read back: the upload
succeeds, and the download of its share id fails, always. A name whose words
spell out a manifest (`Misleading`) is read as that manifest; the properties leave
such names out, and the names of the run contain one.

### Tracker

`age` is the map `peers`, `index` is `chunk_index`, and `reply` is what the last
step sent. The code only asks whether `now - last_seen` exceeds the TTL, so ages
are counted up to TTL + 1 and time needs no bound. Every command reads the clock
after its line was read and is one step; `GET_PEERS` reads it twice, but its
second pruning uses the earlier time and finds nothing. `REGISTER` and
`HEARTBEAT` do the same. `ANNOUNCE` inserts in both of its branches, also after
logging "rejected": an announcement by a peer that never registers therefore
stays in the index for good, in spite of the comment at `tracker/main.cpp:242`
that the index should be alive-only after the cleanup. `AnswersAgree` shows that
the counts are right all the same, because of the test the comment calls a
precaution. A restart loses both maps. Nothing under `src/` sends `REGISTER` or
`HEARTBEAT`; the requests are any requests.

### Kademlia

Ids are bit vectors, hashes are constants. `std::sort` is modelled by what the C++
standard says of its result, a permutation in which nobody is closer than those
before him (`Orders`), and not by an algorithm. `KademliaDht` compares the sorted
list with a definition that knows nothing of lists: the members of the set of peers
that have fewer than k peers nearer to the key. The code compares distances byte by
byte; in the reference they are numbers, computed from the most significant bit.

## 3. Runs

| Run | Bounds | Result |
|---|---|---|
| `storage_crash` | 2 chunks of sizes 2 and 3, limits 0, 1, 3; 3 accesses; one kill, one error, one short write | `TypeOK`, `UsedCovers`, `WholeChunks`, `ImplementsChunkStore` hold |
| `storage_lru` | 3 chunks of sizes 1 and 2, limits 2 and 3, 4 accesses, one kill | `LruFaithful`, `IInv`, `LruEviction`, `Progress` hold; until the kill also `LedgerExact`, `WithinLimit` |
| `storage_has` | 2 chunks, no limit and one of 2, one kill | `HasIsTruthful` is violated |
| `kademlia` | all lists of up to 4 of 5 endpoints, one of which has the client's id; 3-bit ids, all keys | `PlacementIsReference`, `ReplicasInOrder`, `JoinMovesOne` hold |
| `client_plain` | 2 clients, 3 peers, 2 replicas, 2 files that share a block, one with a name that cannot be read back, 3 calls, one broken connection or failed local write, one peer down | `IInv`, `ManifestsAreComplete`, `FailureMeansUnreachable`, `CallsEnd` hold |
| `client_mixed` | one file, one encrypting client, 3 calls, one broken connection or full output disk, one loss, one peer down | `DownloadIsFile` holds |
| `client_readable` | 2 calls, no failures at all | `UploadsStayReadable` is violated |
| `peer_lifecycle` | 2 ports, settings applied 4 times, 2 failures | `StopReleases`, `TerminatesOnlyAfterFailure`, `IInv`, `StopReturns`, `Restarted`, `ImplementsEmbeddedPeer` hold |
| `peer_protocol` | 2 calls (put and has of a chunk, put and get of a manifest), settings applied once, one failure (an exception, an error or a full disk) | `ProtocolInv`, `ImplementsCalls`, `CallsReturn` hold |
| `gui` | 2 clicks, any number of changes of the settings, 2 ports, 2 names of this machine, one remote peer; all files are namesakes | `WindowInv`, `RowsMatchUploads`, `RowsNotOutdated`, `ListIsCurrent`, `BusyEnds`, `ClosingEnds` hold |
| `manifest` | files of up to 4 bytes, chunk sizes 0 to 3, one change of the file in length and content, a full output disk; four names, three with blanks | `SizeTells`, `ReadsAllIds`, `DownloadIsUpload` hold |
| `tracker` | 3 peers, 2 chunks, TTL 2; NEED_REPAIR with desired 0, 1, 3 and limit 0, 1; time unbounded | `TypeOK`, `AnswersAgree`, `ImplementsDirectory`, `SilentForgotten` hold |

Why the bounds are enough for the cases that matter: a victim, a survivor and a
newcomer need three chunks, and a tie or a wrong order needs as many accesses.
Four accesses are two uses in one order, a kill that loses or cuts one, and a
store that evicts by what is left.
An overwrite by a larger payload under a limit that fits one of them, a removal
that fails, and a kill inside the rewriting of `metadata.db` all need two. Base
2 stands for base 10 in the numerals that are cut, so that small numbers have
prefixes. In the client runs three calls are two overlapping uploads and a
download; three peers with two replicas leave a peer that is asked only as a
fallback. Chunks are interchangeable in the storage, so `storage_crash` uses
symmetry; the run with a liveness property does not. In `tracker` a TTL of 2
has ages below, at and beyond the limit, and three peers give chunks with fewer
locations than desired and with enough.
In `peer_protocol` the first of two calls can stall, vanish or fail while the second
waits in the backlog, and the peer be stopped and started between them; the four
requests are one of each handler, a get of a chunk being that of a manifest without
the exception. One failure tears the object of a put that is acknowledged, and the
other call fetches or asks for it. In `gui` two calls are enough for two nested boxes and for two
namesakes, of which the second replaces the local manifest before the first is read.
`manifest` has files that end with, before and after a full block, and up to four
ids; base 2 again gives small counts a prefix.
`kademlia` ends when the list is read, those about the peer and the window end with
the window, and `manifest` ends with a download, so they do not check for deadlock. Four changes of the settings are more
than a full round of stopping, failing and starting again on another port.

**Fairness.** `StorageManager!FairSpec` is weak fairness of the steps inside a
call: one thread runs it and waits for nothing. `DssClient!FairSpec` is weak
fairness of each client's step: a client is a process of its own, and every
connection ends, because the peer sets timeouts of ten seconds and closes it.
`CallsReturn` of `PeerProtocol` is where that is shown, and where it is not so: a
handler that threw, and a host that falls silent without closing, against which
the client, having set no timeout, would wait for good (`core/net/tcp.cpp:125`).
No fairness is assumed of peers starting again, or of new calls.
`PeerService!FairSpec` is weak fairness of the two threads; that a client ever
connects is not assumed. `PeerProtocol!ProtocolFairness` has the same, weak fairness
of the handler, whose waits end by timeouts, and of each client that has its
answer; that a client sends what it promised is not assumed. `accept()` is strongly
fair: it fails for passing reasons (a connection aborted, no descriptors), and the
loop tries again. `MainWindow!WindowFairness` assumes that stopping and starting the
peer takes finitely long (`StopReturns`), that the calls of DssClient end
(`CallsEnd`), and strong fairness of delivering signals, since the event loop
delivers what was posted each time it runs, whatever the user does in between.
Nothing is assumed of the user: boxes may stay open for good. `Tracker!FairSpec` is weak fairness of the clock.

### What the violated properties show

* `HasIsTruthful`: `metadata.db` is believed although it may be older than the
  directory. The shortest trace kills the peer after a chunk was renamed into
  place and before `metadata.db` is saved: the chunk is in no ledger, is denied, never
  counted and never evicted. Killed after a victim was removed, the peer says it
  has a chunk that is gone, and deduplicating clients believe it. Without a limit
  `metadata.db` is not saved at all after a store, and any restart does it.
* `UploadsStayReadable`: ciphertexts are stored under the hash of the plaintext. A
  plaintext upload of the same block is told that the peers have it, uploads
  nothing and returns a share id that cannot be downloaded; a second encrypted
  upload, with another key, overwrites the first.

`TerminatesOnlyAfterFailure` holds, and bounds a defect: if the worker ended by
itself, for instance because the port was taken, nobody joins it. `stop()` returns
at once, and applying settings or closing the window destroys a joinable
thread, which ends the program by `std::terminate`. The property says that nothing
else does.

## 4. Proofs

Every theorem holds for all values of the constants that satisfy the assumptions
named with it. The specifications they are about are those the runs check; where a
specification contains fairness, the theorems use its safety part only.

### StorageManager

From `ContentAssumption`, `LimitAssumption`, `BoundAssumption` and
`CapacityAssumption`, so for any chunks, payloads, limits and numbers of kills and
errors:

| Theorem | Statement |
|---|---|
| `OrderInvariance` | `Spec => []OrderInv` |
| `Invariance` | `Spec => []IInv` |
| `TypeCorrect` | `Spec => []TypeOK` |
| `ChunksAreWhole` | `Spec => []WholeChunks` |
| `OrderIsFaithful` | `Spec => []LruFaithful` |
| `EvictsOldestFirst` | `Spec => []LruEviction` |
| `Refinement` | `Spec => ImplementsChunkStore` |
| `UsedNeverShort` | `Spec => []UsedCovers` |
| `LedgerIsExact` | `Spec => []LedgerExact` |
| `LimitHolds` | `Spec => []WithinLimit` |

`WholeChunks` and `LruFaithful` are not inductive. The parts of `OrderInv` close the
gaps:

* `InFlight`: while a store call is between opening and renaming, its temporary
  file exists, and before the rename it holds a whole payload unless a write was
  cut short. Without it a rename could put anything in place.
* `AckedDurable`: an acknowledged chunk has a whole file. With `FileStep`, which
  says in how few ways a step changes one file, it gives the refinement: every
  step is a `Put`, an `Ack`, a `Drop` or a stutter of `ChunkStore`.
* `CounterAhead`: `accessCounter_` is not behind any entry, in memory and in
  `metadata.db`, however that was cut. So a use always gets the largest
  `lastAccess`.
* `Saved` and `Behind`: between two calls `metadata.db` is the ledger, so that stopping
  and starting again does not change the order; inside a call it is behind by the use
  of at most one entry, so that is what a kill can lose. A kill while it is rewritten
  cuts the `lastAccess` of at most one entry, and drops others altogether.
* `Scanning`: a directory scan gives the files any order; what it found is not held to
  the order of use until it is used again.
* `Paid`: the entries that are misplaced now and the evictions that were unfair are
  together at most as many as the kills. Evicting a misplaced entry turns the one into
  the other, and each kill adds one (`MisplacedUse`, `MisplacedDrop`,
  `MisplacedBehind`, `OneMore`).

Both `LruFaithful` and `LruEviction` are halves of `Paid`: neither is inductive without
the other. So no order is promised that a kill would break; what is proved is how much
a kill can break, and that nothing else does.

`IInv` adds the arithmetic of `usedBytes_`:

* `RealSizes`: every entry, in memory and in `metadata.db`, has the size of some
  file, so a ledger never adds up to more than `Capacity`. A cut size would break
  that; what a kill cuts is the last number of an entry, its `lastAccess`.
* `Accounted`: until the file system reports an error, `usedBytes_` lies between the
  sum of the entries and that sum plus one `Capacity` for each kill. The old version
  of the chunk being written is not in the sum, since the code deducts it before it
  knows whether the write succeeds. The lower bound is `UsedCovers`; the upper one
  keeps additions from wrapping, without which the lower one is not inductive.
* `Mirrors`: as long as nothing went wrong, the ledger lists the files with their
  sizes, the temporary one excepted, and at the end of an eviction loop `usedBytes_`
  is not above the limit.

A sum over a set is the cardinality of the set of bytes, so that the finite-set
theorems apply to it.

### PeerService

The theorems about `PeerService` and `PeerProtocol` are in `PeerProofs`.
From `PeerAssumption`, for any ports, any number of changes of the settings and any
number of failures:

| Theorem | Statement |
|---|---|
| `Invariance` | `Spec => []IInv` |
| `TypeCorrect` | `Spec => []TypeOK` |
| `StopFreesPort` | `Spec => []StopReleases` |
| `TerminationExplained` | `Spec => []TerminatesOnlyAfterFailure` |
| `RefinesEmbeddedPeer` | `Spec => ImplementsEmbeddedPeer` |

The argument: `listenFd_` names the socket whenever there is one, but for the
moment between `socket()` and the assignment (`FdNamesSocket`). So `stop()`
either sees it and closes it, or comes so early that the worker still finds
`running_` false and closes it itself; at `join` the worker can then only be
where it will do so (`StopProceeds`). Hence a joined thread leaves no socket, and
a new service is made only when no thread is left (`ThreadOwned`). A worker nobody
told to end does so only after a failure, and leaves `running_` false
(`EndsByItself`); that explains every termination. `OnItsPort` ties the socket to
the port of the service and that one to the settings, which is what the
refinement needs.

### PeerProtocol

From `PeerAssumption` and `ProtocolAssumption`, for any number of calls, objects,
restarts and failures:

| Theorem | Statement |
|---|---|
| `ProtocolInvariance` | `ProtocolSpec => []ProtocolInv` |
| `ProtocolTypeCorrect` | `ProtocolSpec => []ProtocolTypeOK` |
| `ProtocolStopFreesPort` | `ProtocolSpec => []StopReleases` |
| `ProtocolRefinesEmbeddedPeer` | `ProtocolSpec => ImplementsEmbeddedPeer` |
| `RefinesPeerCalls` | `ProtocolSpec => ImplementsCalls` |

`SocketInv` is kept by the steps of the two threads as in `PeerService`, and the
connections add only steps of a worker that serves. `ServedInOrder` is the reason
why a call that failed long ago cannot act after a later one: the backlog is in the
order of the connections, the one being served was before all of it, and none of
those waiting has acted. `HandlerKnows` says what a handler at a given step has been
asked and has done, and `AnswersTruthful` that an answer on its way was sent after
the act it reports, so that a client that believes it is right. `Justifies` names what
that act is: for a put that it was written, which a full disk may have cut short, and for
HAS_CHUNK that the ledger lists the chunk, whatever its file is. `PeerCalls` promises no
more, and its `Put` and `Reload` allow what `StoreBadly`, evictions and a restart do.

So what a request does in several steps, with waits between them, is still one step
to the window: `ProtocolRefinesEmbeddedPeer` shows for the peer with its clients what
`RefinesEmbeddedPeer` shows for the one whose requests are single steps. While the
process exists, `EndsByItself` and `OnItsPort` hold as in `PeerService` (`LiveInv`), so
the steps of its threads refine as they do there; a failed write only counts a
failure, and `Sigpipe` is `Terminate`. `TerminatesOnlyAfterFailure` is not among the
theorems here: SIGPIPE ends the program without a failure. TLC checked `LiveInv`
and `ImplementsEmbeddedPeer` with the constants of the run `peer_protocol`.

### DssClient

From `NetAssumption`, for any numbers of clients, peers, files, replicas, calls and
failures, any content and any placement that is a permutation of the peers:

| Theorem | Statement |
|---|---|
| `SoundInvariant` | `Spec => []Sound` |
| `TypeCorrect` | `Spec => []TypeOK` |
| `DownloadCorrect` | `Spec => []DownloadIsFile` |
| `Invariance` | `Spec => []IInv` |
| `ManifestsComplete` | `Spec => []ManifestsAreComplete` |
| `FailureExplained` | `Spec => []FailureMeansUnreachable` |

`Sound` (types, `Located`, `DownloadIsFile`) holds whatever is lost or encrypted: a
chunk is written only if its hash, or the tag of its encryption, is right. On a full
disk the output stays a beginning of the file, and as long as the stream is good it is
all of it up to the chunk being fetched. The rest
holds among plaintext clients without losses, which is what `PlainInv` says of every
piece of state: what peers hold under an id is nothing or the block, and that only
grows; a manifest is sent once all chunks before it are `Replicated`
(`Uploading`: each target holds the chunk, or is still to be asked or sent to, and
the three counts add up to the number of replicas, so that skipping an upload when
all said yes is right); and a download gives up no target it has reached
(`Downloading`), which is so for `Readable` names only. The growing is why the interleaving of uploads does no harm.

### MainWindow

From `WindowAssumption`, for any names, hosts, seeds and number of clicks:

| Theorem | Statement |
|---|---|
| `Invariance` | `WindowSpec => []WindowInv` |
| `TypeCorrect` | `WindowSpec => []WindowTypeOK` |
| `ListCorrect` | `WindowSpec => []ListIsCurrent` |
| `RowsCorrect` | `WindowSpec => []RowsNotOutdated` |
| `RowsComplete` | `WindowSpec => []RowsMatchUploads` |

`OnePlaceEach` follows an upload from the signal to the box to the row: it is in
exactly one of them, in whatever order boxes were nested. `InTurn` says that the
worker executes calls in the order of the clicks, so every upload that ended is
older than the one that runs, and `ManifestReady` that the local manifest is as new
as any upload still to be shown; together they give `RowsNotOutdated`. `ListInv`
is `ListIsCurrent` with what holds between the two halves of a discovery, and
`BusyWithReason` hides the bar when nothing is under way.

### Manifest

From `ManifestAssumption`, for files of any length, any chunk sizes, names and base:

| Theorem | Statement |
|---|---|
| `Invariance` | `Spec => []IInv` |
| `SizeIsTelling` | `Spec => []SizeTells` |
| `IdsAreAllRead` | `Spec => []ReadsAllIds` |
| `DownloadCorrect` | `Spec => []DownloadIsUpload` |

`IInv` is stated in `ManifestProofs`, with the facts about texts it is built from,
and was checked with TLC with the constants of the run `manifest`. `OnDisk`: whatever
was rewritten, the file has every byte at its position, and its length is the size that
was taken while nobody changed it. `Consecutive`: so the chunks joined are bytes at the positions
1, 2, ... up to that of the stream, all are full while it is good, and they are the
beginning of a file nobody changed. `Texts`: what was written, whole or cut. `Readings`, the main
part: whatever is read of a text that lost its end has the header as it was written
and all ids but perhaps the end of the last (`ParseFaithful`), and a whole text is
read as it was written (`ParseExact`). This is where each field is followed
through writing, cutting and parsing; a cut count cannot pass, since the ids it
announces are not behind it. `Outputs`: the output is a beginning of the chunks so far,
and all of them while its stream is good.

### Kademlia

From `IdAssumption` (ids of any width; the hash is injective on endpoints) and
`PeersAssumption`, for any endpoints, keys and lists of any length:

| Theorem | Statement |
|---|---|
| `TableInvariance` | `Spec => []TableInv` |
| `PlacementCorrect` | `Spec => []PlacementIsReference` |
| `ReplicasOrdered` | `Spec => []ReplicasInOrder` |
| `JoinIsLocal` | `Spec => JoinMovesOne` |
| `ClientsAgree` | `Store` and `FindValue` give the same list on any two tables of the same peers |
| `PlacementIsPermutation` | `Store` for all peers lists each of them once; for fewer it gives the first of that list |

`TableInv` is the inductive invariant: a table has every peer of the list but the
client, once, under its id (checked with TLC with the constants of the run
`kademlia`). The rest is about any such table, in four steps:

1. `CloserIsNearer`: the lexicographic comparison of two distances in `closerTo` is
   the comparison of these distances as numbers. It rests on `HornerCompares`, an
   induction over the bits: the first bit in which two numbers differ decides.
   Different ids have different distances to a key, so no two peers tie.
2. `OrderExists`: there is an order as `std::sort` leaves it. A node's place is one more
   than the number of nodes below it; that map is injective, hence onto (`OntoItself`).
   Without this, what is chosen from `Orders` would be arbitrary.
3. `SortedIsRanking`: so the sorted endpoints are the eligible peers, each once, by
   growing distance. The first k of such a list are those with fewer than k peers
   nearer (`RankingCounts`, `NearestIs`), which is the reference. `JoinDisplacesOne`
   follows by counting in sets, without the list.
4. `RankingUnique`: there is only one such list, which gives `ClientsAgree`.

`PlacementIsPermutation` is what `NetAssumption` assumes of placement in `DssClient`,
so that assumption is one the code's placement meets.

### Tracker

From `TrackerAssumption`, for any peers, chunks, TTL and requests:

| Theorem | Statement |
|---|---|
| `TypeCorrect` | `Spec => []TypeOK` |
| `AnswersConsistent` | `Spec => []AnswersAgree` |
| `Refinement` | `Spec => ImplementsDirectory` |

The argument: a pruning removes exactly the peers beyond their TTL from both
maps (`PruneForgets`), so afterwards being in the map and being alive is the same
(`PruneLeavesAlive`), and counting entries is counting what `WHERE` would name.

### Induction

The library states induction and recursive definitions with an operator as a
parameter, which the provers at hand cannot instantiate. `InductionLemmas` derives both
from the well-foundedness of the naturals in a form without one: a set of naturals
that contains 0 and successors is `Nat`, and for a step function there is a sequence
that obeys it. `ManifestProofs` uses it for `FlattenSeq`, `DssClientProofs` for the
list of fallback candidates, and `KademliaDhtProofs` for distances, which the models
define by recursion.

### Left to TLC

Liveness (`Progress`, `CallsEnd`, `StopReturns`, `Restarted`, `SilentForgotten`,
`CallsReturn`, `BusyEnds`, `ClosingEnds`), which is out of reach of the prover. Every
other property that a run finds to hold is proved.

## 5. Not modelled

* `TrackerClient` and `connect_tcp_try`, which keep no state and have no caller any
  more; a request or an answer they lose leaves the tracker as it is.
* OpenSSL behind `core/crypto`, which is ideal here: hashes do not collide, and a
  ciphertext opens only with its key and index.
* The endpoint parser and the command lines: text without state.
* What no property says because the code does not see to it: an output file cut by a full
  disk although `getFile` returned, and a file rewritten while `chunkFile` reads it, of
  which a mixture is uploaded. The models contain both; `DownloadIsFile`,
  `DownloadIsUpload` and `SizeTells` say how far they go.
* Sockets byte by byte, logging, layout, the dialogs of the first start, and the
  table of the peer monitor.
* The second `close()` of a descriptor, by `stop()` and the worker and by the error
  paths of PeerClient: between the two another thread of the same process may have
  been given the number. Descriptors are not reused in the model.
