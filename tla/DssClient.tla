----------------------------- MODULE DssClient ------------------------------
(***************************************************************************)
(* putFile and getFile (core/dss/dss_client.cpp), run by several clients   *)
(* at once against the same peers, with the calls of PeerClient they make. *)
(*                                                                         *)
(* A peer serves one connection at a time, so one call to a peer is one    *)
(* step.  It has three kinds of outcome: the peer answers; the peer is     *)
(* down and connecting fails; or the connection breaks or times out, after *)
(* or before the peer acted.  What a peer stores is what StorageManager    *)
(* promises (ChunkStore), chunks may be lost by eviction or damaged by a   *)
(* full disk.                                                              *)
(*                                                                         *)
(* A block is the plaintext of a chunk; its SHA-256 hash, the chunk id, is *)
(* the block itself here: the hash does not collide.  A manifest stands    *)
(* for its own hash, too.                                                  *)
(***************************************************************************)
EXTENDS Integers, Sequences, FiniteSets, Functions

CONSTANTS
  Clients,
  Peers,
  PeerList,      \* cfg.peers, as a sequence without repetitions
  Blocks,        \* plaintexts of chunks, and their ids
  Files,
  Content,       \* file -> sequence of its blocks (chunkFile)
  Readable,      \* files whose name parseManifestText reads back: no blanks
  Encrypting,    \* clients that have the RSA key pair configured
  Replicas,      \* desiredReplicas, at most the number of peers
  NearBlock,     \* block -> all peers, the nearest to its id first
  NearManifest,  \* manifest -> all peers, the nearest to its hash first
  Nothing,       \* what a peer holds under an id it does not have
  Damaged,       \* what it holds when the file was cut short, or is gone
                 \* while its ledger still lists it
  MaxOps,        \* bound: calls of putFile and getFile
  MaxBroken,     \* bound: broken connections, errors of a peer, failed local writes
  MaxLosses,     \* bound: chunks evicted or damaged
  MaxDown        \* bound: peers that are down at the same time

\* A manifest, by what tells two of them apart: the file and the file key,
\* where key 0 stands for "not encrypted".
Manifest(f, k) == [file |-> f, key |-> k]
Manifests == [file : Files, key : 0 .. MaxOps]

\* The bytes of a chunk as they are sent.
Plain(b)        == [key |-> 0, index |-> 0, block |-> b]
Cipher(k, i, b) == [key |-> k, index |-> i, block |-> b]
Blobs == [key : 0 .. MaxOps, index : Nat, block : Blocks]

ASSUME NetAssumption ==
  /\ Files # {}
  /\ Content \in [Files -> Seq(Blocks)]
  /\ Readable \subseteq Files
  /\ Encrypting \subseteq Clients
  /\ PeerList \in Seq(Peers)
  /\ Replicas \in 1 .. Len(PeerList)
  /\ NearBlock \in [Blocks -> Seq(Peers)]
  /\ NearManifest \in [Manifests -> Seq(Peers)]
  /\ \A s \in {NearBlock[b] : b \in Blocks} \cup
              {NearManifest[m] : m \in Manifests} \cup {PeerList} :
       /\ Len(s) = Len(PeerList)
       /\ {s[i] : i \in DOMAIN s} = Peers
       /\ \A i, j \in DOMAIN s : s[i] = s[j] => i = j
  /\ Nothing \notin Blobs
  /\ Damaged \notin Blobs
  /\ MaxOps \in Nat
  /\ MaxBroken \in Nat
  /\ MaxLosses \in Nat

VARIABLES
  up,         \* peers that are running
  chunks,     \* peer -> block id -> the bytes stored under it
  manifests,  \* peer -> the manifests it holds
  local,      \* client -> file name -> the manifest in <name>.manifest.txt
  cl,         \* client -> what it does
  keys,       \* file keys generated so far
  \* History and bounds:
  returned,   \* manifests whose share id a putFile returned
  ops, broken, losses

net  == <<up, chunks, manifests>>
vars == <<up, chunks, manifests, local, cl, keys, returned, ops, broken, losses>>

-----------------------------------------------------------------------------
(* Chunks, manifests and candidates.                                       *)

\* What putFile sends for chunk i of f.
Encoded(f, k, i) ==
  IF k = 0 THEN Plain(Content[f][i]) ELSE Cipher(k, i, Content[f][i])

\* Mutant of Accepted: the hash of the plaintext is not compared.
AcceptedUnverified(x, m, i) ==
  x # Nothing /\ (m.key # 0 => x = Cipher(m.key, i, Content[m.file][i]))

\* getFile takes x for chunk i of m: it decrypts, which the GCM tag allows only
\* with the key and the index used, and the plaintext has the hash asked for.
Accepted(x, m, i) ==
  x = IF m.key = 0 THEN Plain(Content[m.file][i])
      ELSE Cipher(m.key, i, Content[m.file][i])

\* dht.store(key, replicas)
Targets(near) == SubSeq(near, 1, Replicas)

\* Mutant of Candidates: only the nearest peer is asked.
CandidatesNearest(near) == SubSeq(near, 1, 1)

\* dht.findValue, then every other peer of the list.
Candidates(near) ==
  LET t == Targets(near)
      Others[n \in 0 .. Len(PeerList)] ==   \* of the first n peers of the list
        IF n = 0 THEN <<>>
        ELSE IF PeerList[n] \in Range(t) THEN Others[n - 1]
        ELSE Append(Others[n - 1], PeerList[n])
  IN  t \o Others[Len(PeerList)]

-----------------------------------------------------------------------------
(* The state of a client.                                                  *)

Idle == [op |-> "none", pc |-> "idle", file |-> CHOOSE f \in Files : TRUE,
         key |-> 0, i |-> 0, todo |-> <<>>, missing |-> <<>>, already |-> 0,
         out |-> <<>>, stream |-> "good", failed |-> {}]

Busy == {"has", "put", "manifest", "local", "find", "fetch"}

Block(s) == Content[s.file][s.i]

\* The chunk loop of putFile at index i: the manifest comes after the last.
UploadFrom(s, i) ==
  LET t == [s EXCEPT !.i = i, !.missing = <<>>, !.already = 0]
  IN  IF i > Len(Content[s.file])
      THEN [t EXCEPT !.pc = "manifest", !.todo = Targets(NearManifest[Manifest(s.file, s.key)])]
      ELSE [t EXCEPT !.pc = IF s.key = 0 THEN "has" ELSE "put",
                     !.todo = Targets(NearBlock[Content[s.file][i]])]

\* Mutant of Needed: one replica short.
NeededLess(s) == Replicas - s.already - 1

\* How many uploads deduplication leaves.
Needed(s) == Replicas - s.already

\* Mutant of AfterAsking: the case that nothing is missing is forgotten.
AfterAskingAlways(s) ==
  IF s.todo # <<>> THEN s ELSE [s EXCEPT !.pc = "put", !.todo = s.missing]

\* All targets were asked whether they have the chunk: upload to those that do
\* not, as many as needed.
AfterAsking(s) ==
  LET n == IF Needed(s) < Len(s.missing) THEN Needed(s) ELSE Len(s.missing)
  IN  IF s.todo # <<>> THEN s
      ELSE IF n <= 0 THEN UploadFrom(s, s.i + 1)
      ELSE [s EXCEPT !.pc = "put", !.todo = SubSeq(s.missing, 1, n)]

\* The chunk loop of getFile at index i.
DownloadFrom(s, i) ==
  IF i > Len(Content[s.file]) THEN [s EXCEPT !.i = i, !.pc = "done"]
  ELSE [s EXCEPT !.i = i, !.pc = "fetch", !.failed = {},
                 !.todo = Candidates(NearBlock[Content[s.file][i]])]

Abort(s) == [s EXCEPT !.pc = "failed"]

Become(c, s) == cl' = [cl EXCEPT ![c] = s]

\* The connection of c's call breaks, or the peer answers with an error.
Break == broken < MaxBroken /\ broken' = broken + 1

\* A peer loses something it was given.
Lose == losses < MaxLosses /\ losses' = losses + 1

\* getFile of c once it has read the manifest m: it throws without the private
\* key, and if the output file cannot be opened.
WithManifest(c, s, m) ==
  LET t == [s EXCEPT !.file = m.file, !.key = m.key]
      locked == m.key # 0 /\ c \notin Encrypting
      refused == [t EXCEPT !.pc = "refused"]
  IN  \/ /\ Become(c, IF locked THEN refused ELSE DownloadFrom(t, 1))
         /\ UNCHANGED broken
      \/ ~locked /\ Break /\ Become(c, refused)

-----------------------------------------------------------------------------
(* Actions of a client.                                                    *)

Init ==
  /\ up = Peers
  /\ chunks = [p \in Peers |-> [b \in Blocks |-> Nothing]]
  /\ manifests = [p \in Peers |-> {}]
  /\ local = [c \in Clients |-> [f \in Files |-> Nothing]]
  /\ cl = [c \in Clients |-> Idle]
  /\ keys = 0
  /\ returned = {}
  /\ ops = 0
  /\ broken = 0
  /\ losses = 0

\* putFile(f): a client with a public key makes a new file key.
PutFile(c, f) ==
  LET k == IF c \in Encrypting THEN keys + 1 ELSE 0
  IN  /\ cl[c].pc \notin Busy
      /\ ops < MaxOps
      /\ ops' = ops + 1
      /\ keys' = IF k = 0 THEN keys ELSE k
      /\ Become(c, UploadFrom([Idle EXCEPT !.op = "put", !.file = f, !.key = k], 1))
      /\ UNCHANGED <<net, local, returned, broken, losses>>

\* PeerClient::hasChunk: a connection that breaks means "does not have it", and
\* so does a peer whose ledger lost the entry; a connection that cannot be opened
\* ends putFile.
AskHas(c) ==
  LET s == cl[c]
      p == Head(s.todo)
      Rest(has) == AfterAsking(
        [s EXCEPT !.todo = Tail(@),
                  !.already = IF has THEN @ + 1 ELSE @,
                  !.missing = IF has THEN @ ELSE Append(@, p)])
  IN  /\ s.pc = "has"
      /\ \/ /\ p \in up
            /\ Become(c, Rest(chunks[p][Block(s)] # Nothing))
            /\ UNCHANGED broken
         \/ p \in up /\ Break /\ Become(c, Rest(FALSE))
         \/ p \notin up /\ Become(c, Abort(s)) /\ UNCHANGED broken
      /\ UNCHANGED <<net, local, keys, returned, ops, losses>>

\* PeerClient::putChunk: anything but OK ends putFile.
PutChunk(c) ==
  LET s == cl[c]
      p == Head(s.todo)
      rest == [s EXCEPT !.todo = Tail(@)]
      stored == [chunks EXCEPT ![p][Block(s)] = Encoded(s.file, s.key, s.i)]
  IN  /\ s.pc = "put"
      /\ \/ /\ p \in up
            /\ chunks' = stored
            /\ Become(c, IF rest.todo = <<>> THEN UploadFrom(s, s.i + 1) ELSE rest)
            /\ UNCHANGED broken
         \/ p \in up /\ Break /\ chunks' \in {chunks, stored} /\ Become(c, Abort(s))
         \/ /\ p \notin up
            /\ Become(c, Abort(s))
            /\ UNCHANGED <<chunks, broken>>
      /\ UNCHANGED <<up, manifests, local, keys, returned, ops, losses>>

\* PeerClient::putManifest.  The peer writes the file in place and says OK
\* before the stream is flushed: a full disk leaves neither the new copy nor the
\* one of an earlier upload, and nobody notices.
PutManifest(c) ==
  LET s == cl[c]
      p == Head(s.todo)
      m == Manifest(s.file, s.key)
      rest == [s EXCEPT !.todo = Tail(@)]
      next == IF rest.todo = <<>> THEN [rest EXCEPT !.pc = "local"] ELSE rest
      stored == [manifests EXCEPT ![p] = @ \cup {m}]
      lost == [manifests EXCEPT ![p] = @ \ {m}]
  IN  /\ s.pc = "manifest"
      /\ \/ /\ p \in up
            /\ manifests' = stored
            /\ Become(c, next)
            /\ UNCHANGED <<broken, losses>>
         \/ /\ p \in up
            /\ Lose
            /\ manifests' = lost
            /\ Become(c, next)
            /\ UNCHANGED broken
         \/ /\ p \in up
            /\ Break
            /\ manifests' \in {manifests, stored}
            /\ Become(c, Abort(s))
            /\ UNCHANGED losses
         \/ p \in up /\ Break /\ Lose /\ manifests' = lost /\ Become(c, Abort(s))
         \/ /\ p \notin up
            /\ Become(c, Abort(s))
            /\ UNCHANGED <<manifests, broken, losses>>
      /\ UNCHANGED <<up, chunks, local, keys, returned, ops>>

\* The local copy replaces the one of an earlier upload of the same name; only
\* then does the caller get the share id.  Whether it was written is not looked
\* at, only that its file could be opened: on a full disk there is none left.
WriteLocal(c) ==
  LET s == cl[c]
      m == Manifest(s.file, s.key)
  IN  /\ s.pc = "local"
      /\ \/ /\ \/ local' = [local EXCEPT ![c][s.file] = m] /\ UNCHANGED broken
               \/ local' = [local EXCEPT ![c][s.file] = Nothing] /\ Break
            /\ returned' = returned \cup {m}
            /\ Become(c, [s EXCEPT !.pc = "done"])
         \/ Break /\ Become(c, Abort(s)) /\ UNCHANGED <<local, returned>>
      /\ UNCHANGED <<net, keys, ops, losses>>

\* getFile by share id.
GetFile(c, m) ==
  /\ cl[c].pc \notin Busy
  /\ ops < MaxOps
  /\ ops' = ops + 1
  /\ Become(c, [Idle EXCEPT !.op = "get", !.pc = "find", !.file = m.file,
                            !.key = m.key,
                            !.todo = Candidates(NearManifest[m])])
  /\ UNCHANGED <<net, local, keys, returned, broken, losses>>

\* getFile by the path of a local manifest: readManifest throws if the text
\* cannot be parsed.
GetFileLocal(c, f) ==
  /\ cl[c].pc \notin Busy
  /\ local[c][f] # Nothing
  /\ ops < MaxOps
  /\ ops' = ops + 1
  /\ IF f \in Readable
     THEN WithManifest(c, [Idle EXCEPT !.op = "get"], local[c][f])
     ELSE Become(c, [Idle EXCEPT !.op = "get", !.file = f, !.pc = "refused"])
          /\ UNCHANGED broken
  /\ UNCHANGED <<net, local, keys, returned, losses>>

\* The next candidate, after p did not help: unreachable tells why.
Skip(s, p, unreachable) ==
  LET t == [s EXCEPT !.todo = Tail(@),
                     !.failed = IF unreachable THEN @ \cup {p} ELSE @]
  IN  IF t.todo = <<>> THEN Abort(t) ELSE t

\* A peer has the manifest that c looks for, and its text can be parsed: where
\* parseManifestText throws, getFile goes on as if the peer had nothing.
Offers(p, m) == m \in manifests[p] /\ m.file \in Readable

FindManifest(c) ==
  LET s == cl[c]
      p == Head(s.todo)
      m == Manifest(s.file, s.key)
  IN  /\ s.pc = "find"
      /\ \/ p \in up /\ Offers(p, m) /\ WithManifest(c, s, m)
         \/ /\ p \in up
            /\ ~Offers(p, m)
            /\ Become(c, Skip(s, p, FALSE))
            /\ UNCHANGED broken
         \/ p \in up /\ Break /\ Become(c, Skip(s, p, TRUE))
         \/ p \notin up /\ Become(c, Skip(s, p, TRUE)) /\ UNCHANGED broken
      /\ UNCHANGED <<net, local, keys, returned, ops, losses>>

\* What the output file receives: the plaintext of x.
Written(x) == IF x = Damaged THEN Damaged ELSE x.block

\* out.write of an accepted block.  Nobody looks at the stream: once the disk is
\* full it keeps what was flushed, which may lack the end of earlier blocks, and
\* takes nothing any more, and the download goes on.
WriteBlock(c, s, x) ==
  LET After(stream, out) ==
        DownloadFrom([s EXCEPT !.stream = stream, !.out = out], s.i + 1)
  IN  \/ s.stream = "bad" /\ Become(c, After("bad", s.out)) /\ UNCHANGED broken
      \/ /\ s.stream = "good"
         /\ \/ Become(c, After("good", Append(s.out, Written(x)))) /\ UNCHANGED broken
            \/ /\ Break
               /\ \E n \in 0 .. Len(s.out) : Become(c, After("bad", SubSeq(s.out, 1, n)))

\* The first two outcomes of asking a peer that is up for chunk i.
FetchFrom(c, s, p) ==
  LET x == chunks[p][Block(s)]
      accepted == Accepted(x, Manifest(s.file, s.key), s.i)
  IN  \/ p \in up /\ accepted /\ WriteBlock(c, s, x)
      \/ /\ p \in up
         /\ ~accepted
         /\ Become(c, Skip(s, p, FALSE))
         /\ UNCHANGED broken

\* Mutant of FetchChunk: a peer that is down is asked again and again.
FetchChunkStubborn(c) ==
  /\ cl[c].pc = "fetch"
  /\ FetchFrom(c, cl[c], Head(cl[c].todo))
  /\ UNCHANGED <<net, local, keys, returned, ops, losses>>

FetchChunk(c) ==
  LET s == cl[c]
      p == Head(s.todo)
  IN  /\ s.pc = "fetch"
      /\ \/ FetchFrom(c, s, p)
         \/ p \in up /\ Break /\ Become(c, Skip(s, p, TRUE))
         \/ p \notin up /\ Become(c, Skip(s, p, TRUE)) /\ UNCHANGED broken
      /\ UNCHANGED <<net, local, keys, returned, ops, losses>>

-----------------------------------------------------------------------------
(* Peers.                                                                  *)

PeerStops(p) ==
  /\ p \in up
  /\ Cardinality(Peers \ up) < MaxDown
  /\ up' = up \ {p}
  /\ UNCHANGED <<chunks, manifests, local, cl, keys, returned, ops, broken, losses>>

\* A peer that is started again has what it had.
PeerStarts(p) ==
  /\ p \notin up
  /\ up' = up \cup {p}
  /\ UNCHANGED <<chunks, manifests, local, cl, keys, returned, ops, broken, losses>>

\* A chunk is evicted, or its file was cut short or is gone while the ledger
\* still lists it.
PeerLoses(p, b) ==
  /\ Lose
  /\ chunks[p][b] # Nothing
  /\ \E x \in {Nothing, Damaged} : chunks' = [chunks EXCEPT ![p][b] = x]
  /\ UNCHANGED <<up, manifests, local, cl, keys, returned, ops, broken>>

-----------------------------------------------------------------------------

ClientStep(c) ==
  \/ AskHas(c)
  \/ PutChunk(c)
  \/ PutManifest(c)
  \/ WriteLocal(c)
  \/ FindManifest(c)
  \/ FetchChunk(c)

Next ==
  \/ \E c \in Clients :
       \/ \E f \in Files : PutFile(c, f) \/ GetFileLocal(c, f)
       \/ \E m \in returned : GetFile(c, m)
       \/ ClientStep(c)
  \/ \E p \in Peers :
       \/ PeerStops(p)
       \/ PeerStarts(p)
       \/ \E b \in Blocks : PeerLoses(p, b)

Spec == Init /\ [][Next]_vars

\* Every client is a process of its own, and every call to a peer ends: the
\* peer gives up on a connection after ten seconds and closes it.
FairSpec == Spec /\ \A c \in Clients : WF_vars(ClientStep(c))

-----------------------------------------------------------------------------
(* Properties.                                                             *)

ClientStates ==
  [op : {"none", "put", "get"},
   pc : Busy \cup {"idle", "done", "failed", "refused"},
   file : Files, key : 0 .. MaxOps, i : Nat,
   todo : Seq(Peers), missing : Seq(Peers), already : Nat,
   out : Seq(Blocks \cup {Damaged}), stream : {"good", "bad"}, failed : SUBSET Peers]

\* Every variable has its type, and a client in the middle of a call always has
\* a peer to talk to: Head(todo) is defined.
TypeOK ==
  /\ up \subseteq Peers
  /\ chunks \in [Peers -> [Blocks -> Blobs \cup {Nothing, Damaged}]]
  /\ manifests \in [Peers -> SUBSET Manifests]
  /\ local \in [Clients -> [Files -> Manifests \cup {Nothing}]]
  /\ cl \in [Clients -> ClientStates]
  /\ \A c \in Clients : cl[c].pc \in Busy \ {"local"} => cl[c].todo # <<>>
  /\ keys \in 0 .. ops
  /\ returned \subseteq Manifests
  /\ ops \in 0 .. MaxOps
  /\ broken \in 0 .. MaxBroken
  /\ losses \in 0 .. MaxLosses

\* A download writes nothing but the file: the output is a beginning of it,
\* whatever peers hold, lose or send.  As long as the output stream has not
\* failed, which getFile does not look at, the output is all the blocks before
\* the one being fetched, and the whole file when getFile returns.
DownloadIsFile ==
  \A c \in Clients :
    LET s == cl[c]
        file == Content[s.file]
    IN  s.op = "get" =>
          /\ Len(s.out) <= Len(file)
          /\ s.out = SubSeq(file, 1, Len(s.out))
          /\ s.stream = "good" => Len(s.out) = IF s.i = 0 THEN 0 ELSE s.i - 1
          /\ s.stream = "good" /\ s.pc = "done" => s.out = file

\* Everyone uploads plaintext and no peer lost a chunk.
PlainAndKept == Encrypting = {} /\ losses = 0

\* A manifest that can be found leads to all chunks: each is on every one of its
\* targets, although deduplication trusted HAS_CHUNK, other uploads of the same
\* blocks ran at the same time, and some of them were cut off in the middle.
ManifestsAreComplete ==
  PlainAndKept =>
    \A p \in Peers : \A m \in manifests[p] : \A i \in DOMAIN Content[m.file] :
      LET b == Content[m.file][i]
      IN  \A j \in 1 .. Replicas : chunks[NearBlock[b][j]][b] = Plain(b)

\* The peers that a download asks, the nearest first.
Asked(s) == IF s.i = 0 THEN NearManifest[Manifest(s.file, s.key)]
            ELSE NearBlock[Content[s.file][s.i]]

\* The replicas of a share id that was returned are lost to a download only if
\* none of them could be reached: getFile fails at a chunk, or at the manifest of
\* a file whose name can be read back, only after each of the targets refused or
\* broke its connection.
FailureMeansUnreachable ==
  PlainAndKept =>
    \A c \in Clients :
      LET s == cl[c]
      IN  s.op = "get" /\ s.pc = "failed" /\ s.file \in Readable =>
            \A j \in 1 .. Replicas : Asked(s)[j] \in s.failed

\* Where a client is in its call: the pc belongs to one of the two operations and
\* the index goes with it.
Located(s) ==
  /\ s.pc \in {"has", "put", "manifest", "local"} => s.op = "put"
  /\ s.pc \in {"find", "fetch"} => s.op = "get"
  /\ s.pc \in {"has", "put", "fetch"} => s.i \in 1 .. Len(Content[s.file])
  /\ s.pc \in {"manifest", "local"} => s.i = Len(Content[s.file]) + 1
  /\ s.pc = "find" => s.i = 0 /\ s.out = <<>> /\ s.stream = "good"

\* All targets of a chunk hold it, and all targets of a manifest know it, where
\* held is what peers hold and known the manifests they have.
Replicated(held, b) ==
  \A j \in 1 .. Replicas : held[NearBlock[b][j]][b] = Plain(b)
Announced(known, m) ==
  \A j \in 1 .. Replicas : m \in known[NearManifest[m][j]]

\* The first n chunks of f are replicated; all chunks of a manifest's file are.
ReplicatedTo(held, f, n) == \A i \in 1 .. n : Replicated(held, Content[f][i])
Complete(held, m) == ReplicatedTo(held, m.file, Len(Content[m.file]))

\* An upload leaves nothing behind: of every target it is known that it holds the
\* chunk, or it is still to be asked or sent to.
Uploading(held, known, s) ==
  LET m == Manifest(s.file, s.key) IN
  /\ s.pc \in {"has", "put", "manifest", "local"} =>
       ReplicatedTo(held, s.file, s.i - 1)
  /\ s.pc = "has" => s.already + Len(s.missing) + Len(s.todo) = Replicas
  /\ s.pc \in {"has", "put"} =>
       \A j \in 1 .. Replicas :
         LET p == NearBlock[Block(s)][j] IN
         \/ p \in Range(s.todo)
         \/ s.pc = "has" /\ p \in Range(s.missing)
         \/ held[p][Block(s)] = Plain(Block(s))
  /\ s.pc = "manifest" =>
       \A j \in 1 .. Replicas :
         LET p == NearManifest[m][j] IN p \in Range(s.todo) \/ m \in known[p]
  /\ s.pc = "local" => Announced(known, m)

\* A download gives up no target that it has reached.
Downloading(held, s) ==
  /\ s.pc = "fetch" => Complete(held, Manifest(s.file, s.key))
  /\ s.pc \in {"find", "fetch"} /\ s.file \in Readable =>
       \A j \in 1 .. Replicas :
         Asked(s)[j] \in Range(s.todo) \/ Asked(s)[j] \in s.failed

\* What makes ManifestsAreComplete and FailureMeansUnreachable inductive.
PlainInv ==
  PlainAndKept =>
    /\ \A p \in Peers, b \in Blocks : chunks[p][b] \in {Nothing, Plain(b)}
    /\ \A p \in Peers : \A m \in manifests[p] : Complete(chunks, m)
    /\ \A m \in returned : m.key = 0 /\ Announced(manifests, m)
    /\ \A c \in Clients, f \in Files :
         local[c][f] # Nothing =>
           local[c][f].key = 0 /\ Complete(chunks, local[c][f])
    /\ \A c \in Clients :
         /\ cl[c].key = 0
         /\ Uploading(chunks, manifests, cl[c])
         /\ Downloading(chunks, cl[c])
         /\ cl[c].pc = "find" => Manifest(cl[c].file, cl[c].key) \in returned

\* The inductive invariant behind the theorems of DssClientProofs.
IInv ==
  /\ TypeOK
  /\ \A c \in Clients : Located(cl[c])
  /\ DownloadIsFile
  /\ PlainInv
  /\ FailureMeansUnreachable

\* Every putFile and getFile ends, one way or the other.
CallsEnd == \A c \in Clients : cl[c].pc \in Busy ~> cl[c].pc \notin Busy

\* What a share id is for: as long as no peer loses a chunk, for every chunk of
\* every upload that returned there is a peer whose copy a download accepts.
UploadsStayReadable ==
  losses = 0 =>
    \A m \in returned : \A i \in DOMAIN Content[m.file] :
      \E p \in Peers : Accepted(chunks[p][Content[m.file][i]], m, i)

=============================================================================
