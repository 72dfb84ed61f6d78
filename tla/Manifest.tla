------------------------------ MODULE Manifest ------------------------------
(***************************************************************************)
(* From a file to its manifest and back: chunkFile (core/chunk/chunker.cpp)*)
(* cuts the file, serializeManifest (core/manifest/manifest.cpp) writes the*)
(* manifest as text, parseManifestText reads it, and putFile and getFile   *)
(* (core/dss/dss_client.cpp) use them.                                     *)
(*                                                                         *)
(* A text is the sequence of the tokens that operator>> would read: blanks *)
(* and line ends are all the same to it, so a name with blanks is several  *)
(* tokens.  A byte is its position in the file and the change that wrote   *)
(* it, so that blocks are all different and the id of one can be its       *)
(* number.                                                                 *)
(* Where peers keep blocks and texts is in DssClient.                      *)
(***************************************************************************)
EXTENDS Integers, Sequences, SequencesExt

CONSTANTS
  Names,        \* names of files, as sequences of tokens
  ChunkSizes,   \* values of chunkSize
  MaxLen,       \* bound: bytes of a file
  MaxChanges,   \* bound: times another program changes the file
  Base          \* base of the numbers in a text

-----------------------------------------------------------------------------
(* Tokens, texts and manifests.                                            *)

Word(w)  == [kind |-> "word", text |-> w, val |-> 0]
Num(n)   == [kind |-> "num", text |-> "digits", val |-> n]
Id(i)    == [kind |-> "id", text |-> "hash", val |-> i]
Key      == [kind |-> "key", text |-> "blob", val |-> 1]
NoKey    == [kind |-> "key", text |-> "none", val |-> 0]

Bytes    == Nat \X Nat
NoByte   == <<0, 0>>
Garbage  == <<NoByte>>    \* bytes of no file

Token    == [kind : {"word", "num", "id", "key"}, text : STRING, val : Nat]

ASSUME ManifestAssumption ==
  /\ \A n \in Names : /\ n \in Seq(Token) /\ n # <<>>
                       /\ \A j \in DOMAIN n : n[j].kind \in {"word", "num"}
  /\ ChunkSizes \subseteq Nat
  /\ MaxLen \in Nat /\ MaxChanges \in Nat
  /\ Base \in Nat /\ Base > 1

\* A manifest without a key is one of an unencrypted file.
EncryptionFields(m) ==
  IF m.key = NoKey
  THEN <<Word("encrypted"), Num(0)>>
  ELSE <<Word("encrypted"), Num(1), Word("enc_algo"), Word("AES"),
         Word("key_enc_algo"), Word("RSA"), Word("enc_key"), m.key>>

SerializeManifest(m) ==
  <<Word("filename")>> \o m.name
  \o <<Word("size"), Num(m.size), Word("chunk_size"), Num(m.chunkSize),
       Word("chunks"), Num(Len(m.ids))>>
  \o m.ids \o EncryptionFields(m)

\* in >> label >> value
Labelled(s, i, l) == i < Len(s) /\ s[i] = Word(l)
Numeric(s, i, l)  == Labelled(s, i, l) /\ s[i + 1].kind = "num"

Header(s) ==
  /\ Labelled(s, 1, "filename")
  /\ Numeric(s, 3, "size")
  /\ Numeric(s, 5, "chunk_size")
  /\ Numeric(s, 7, "chunks")

\* Mutant of Count: the ids are counted as they come.
CountPresent(s) == Len(SelectSeq(s, LAMBDA t : t.kind = "id"))

Count(s) == s[8].val

\* Whatever does not say "encrypted 1" counts as unencrypted.
Encrypted(s)  == Numeric(s, 9 + Count(s), "encrypted") /\ s[10 + Count(s)] = Num(1)

KeyFields(s) ==
  /\ Labelled(s, 11 + Count(s), "enc_algo")
  /\ Labelled(s, 13 + Count(s), "key_enc_algo")
  /\ Labelled(s, 15 + Count(s), "enc_key")

\* parseManifestText throws.
Malformed(s) ==
  \/ ~Header(s)
  \/ Len(s) < 8 + Count(s)
  \/ Encrypted(s) /\ ~KeyFields(s)

\* What it returns otherwise: a name is one token, an id is any token.
ParseManifestText(s) ==
  [name |-> <<s[2]>>, size |-> s[4].val, chunkSize |-> s[6].val,
   ids |-> SubSeq(s, 9, 8 + Count(s)),
   key |-> IF Encrypted(s) THEN s[16 + Count(s)] ELSE NoKey]

\* What is left of a token whose end is missing, if anything is.
Shorter(t) ==
  CASE t.kind = "word" -> Word("part")
    [] t.kind = "num"  -> IF t.val < Base THEN t ELSE Num(t.val \div Base)
    [] OTHER           -> [t EXCEPT !.val = 0]

\* What is left of a text whose end is missing.
Cuts(s) ==
  {SubSeq(s, 1, n) : n \in 0 .. Len(s) - 1}
  \cup {Append(SubSeq(s, 1, n - 1), Shorter(s[n])) : n \in DOMAIN s}

-----------------------------------------------------------------------------

VARIABLES
  file,       \* the bytes of the file at the moment
  changes,    \* times it has changed
  manifest,   \* putFile: the manifest
  blocks,     \* chunkFile: the chunks
  good,       \* chunkFile: the stream has not failed
  shared,     \* the text the peers got, which is fetched by its hash
  local,      \* the text in the local manifest file
  parsed,     \* getFile: the manifest that was read
  out,        \* getFile: the output file
  stream,     \* getFile: the state of its stream
  i,          \* getFile: blocks written
  pc          \* what is done next

vars == <<file, changes, manifest, blocks, good, shared, local, parsed, out, stream,
          i, pc>>

\* The file of n bytes before it changes.
Original(n) == [j \in 1 .. n |-> <<j, 0>>]

\* file_size is read before the file is.
Init ==
  /\ changes = 0
  /\ \E size \in 0 .. MaxLen, n \in Names, c \in ChunkSizes, k \in {Key, NoKey} :
       /\ file = Original(size)
       /\ manifest = [name |-> n, size |-> size, chunkSize |-> c,
                      ids |-> <<>>, key |-> k]
  /\ blocks = <<>>
  /\ good = TRUE
  /\ shared = <<>>
  /\ local = <<>>
  /\ parsed = manifest
  /\ out = <<>>
  /\ stream = "good"
  /\ i = 0
  /\ pc = "chunk"

\* Another program appends to the file, cuts it, or writes some of its bytes anew.
FileChanges ==
  /\ pc = "chunk"
  /\ changes < MaxChanges
  /\ changes' = changes + 1
  /\ \E n \in 0 .. MaxLen : \E rewritten \in SUBSET (1 .. n) :
       file' = [j \in 1 .. n |-> IF j \in DOMAIN file \ rewritten THEN file[j]
                                 ELSE <<j, changes'>>]
  /\ UNCHANGED <<manifest, blocks, good, shared, local, parsed, out, stream, i, pc>>

\* Bytes read so far, and what in.read() gets now: as many as there are and the
\* buffer holds, or fewer when reading fails, or none from a stream that failed.
Position == Len(FlattenSeq(blocks))

Gets(got) ==
  LET left == Len(file) - Position
      full == IF left < manifest.chunkSize THEN left ELSE manifest.chunkSize
  IN  IF good /\ full > 0 THEN got \in 0 .. full ELSE got = 0

\* Mutant of Block: the whole buffer is taken, with what it held before.
BlockWhole(got) ==
  [j \in 1 .. manifest.chunkSize |-> IF j <= got THEN file[Position + j] ELSE NoByte]

\* The part of the buffer that was filled.
Block(got) == SubSeq(file, Position + 1, Position + got)

ReadBlock(got) ==
  /\ pc = "chunk"
  /\ manifest.chunkSize > 0
  /\ got > 0
  /\ Gets(got)
  /\ blocks' = Append(blocks, Block(got))
  /\ good' = (got = manifest.chunkSize)
  /\ UNCHANGED <<file, changes, manifest, shared, local, parsed, out, stream, i, pc>>

\* Nothing was read: for the loop that is the end of the file.  putFile hashes
\* the blocks and stores the text with the peers.
ReadEnd ==
  /\ pc = "chunk"
  /\ manifest.chunkSize > 0
  /\ Gets(0)
  /\ manifest' = [manifest EXCEPT !.ids = [j \in DOMAIN blocks |-> Id(j)]]
  /\ shared' = SerializeManifest(manifest')
  /\ pc' = "write"
  /\ UNCHANGED <<file, changes, blocks, good, local, parsed, out, stream, i>>

\* chunkFile throws: the chunk size is zero, or the file cannot be opened.
ChunkFileThrows ==
  /\ pc = "chunk"
  /\ blocks = <<>>
  /\ pc' = "failed"
  /\ UNCHANGED <<file, changes, manifest, blocks, good, shared, local, parsed, out, stream, i>>

\* writeManifest: nobody looks whether all of it was written, and the program may
\* be killed before it is.  Where the file cannot be opened, putFile throws.
WriteManifest ==
  /\ pc = "write"
  /\ \/ local' \in {shared} \cup Cuts(shared) /\ pc' = "read"
     \/ pc' = "failed" /\ UNCHANGED local
  /\ UNCHANGED <<file, changes, manifest, blocks, good, shared, parsed, out, stream, i>>

\* getFile with a share id or a local file, which may be out of reach.
ReadManifest(text) ==
  /\ pc = "read"
  /\ \/ ~Malformed(text) /\ pc' = "key" /\ parsed' = ParseManifestText(text)
     \/ pc' = "failed" /\ UNCHANGED parsed
  /\ UNCHANGED <<file, changes, manifest, blocks, good, shared, local, out, stream, i>>

\* decrypt_file_key_rsa: what is not the key's blob throws, and so does a missing
\* private key or an output file that cannot be opened.
DecryptKey ==
  /\ pc = "key"
  /\ \/ parsed.key \in {NoKey, Key} /\ pc' = "fetch"
     \/ pc' = "failed"
  /\ UNCHANGED <<file, changes, manifest, blocks, good, shared, local, parsed, out, stream, i>>

\* What a download makes of the block a peer has under an id: with the key of the
\* manifest and the index of the block it is decrypted, without a key it is taken
\* as it is.
Decrypted(t) ==
  IF parsed.key = manifest.key /\ (parsed.key = NoKey \/ t.val = i + 1)
  THEN blocks[t.val] ELSE Garbage

\* Mutant of Accepted: the hash is not compared.
AcceptedUnverified(t) == t.kind = "id" /\ t.val \in DOMAIN blocks

\* A peer has a block under the id, and the hash of what that gives is the id.
Accepted(t) ==
  /\ t.kind = "id"
  /\ t.val \in DOMAIN blocks
  /\ Decrypted(t) = blocks[t.val]

\* out.write(), which nobody checks: on a full disk the file ends somewhere before,
\* and a stream that has failed writes nothing any more.
Write(b) ==
  \/ stream = "bad" /\ UNCHANGED <<out, stream>>
  \/ stream = "good" /\ out' = out \o b /\ UNCHANGED stream
  \/ /\ stream = "good"
     /\ stream' = "bad"
     /\ \E n \in 0 .. Len(out \o b) : out' = SubSeq(out \o b, 1, n)

\* The block of the next id is written, or no peer gives it.
FetchBlock ==
  /\ pc = "fetch"
  /\ i < Len(parsed.ids)
  /\ \/ /\ Accepted(parsed.ids[i + 1])
        /\ Write(Decrypted(parsed.ids[i + 1]))
        /\ i' = i + 1
        /\ UNCHANGED pc
     \/ pc' = "failed" /\ UNCHANGED <<out, stream, i>>
  /\ UNCHANGED <<file, changes, manifest, blocks, good, shared, local, parsed>>

FetchEnd ==
  /\ pc = "fetch"
  /\ i = Len(parsed.ids)
  /\ pc' = "done"
  /\ UNCHANGED <<file, changes, manifest, blocks, good, shared, local, parsed, out, stream, i>>

Next ==
  \/ FileChanges
  \/ \E got \in 1 .. MaxLen : ReadBlock(got)
  \/ ReadEnd
  \/ ChunkFileThrows
  \/ WriteManifest
  \/ ReadManifest(shared)
  \/ ReadManifest(local)
  \/ DecryptKey
  \/ FetchBlock
  \/ FetchEnd

Spec == Init /\ [][Next]_vars

-----------------------------------------------------------------------------
(* Properties.                                                             *)

\* The manifest that was read was read without an exception.
WasRead == pc \in {"key", "fetch", "done"}

\* A name that spells out the fields of a manifest: its second word is "size".
Misleading == Len(manifest.name) > 1 /\ manifest.name[2] = Word("size")

\* The blocks are consecutive bytes of the file from its beginning, each but the
\* last of the chunk size, whatever another program does meanwhile; and unless one
\* did change the file, the size in the manifest tells whether they are all of it,
\* although a failed read ends the loop like the end of the file does.  A file
\* that is rewritten while it is read is cut into a mixture, which nothing tells.
SizeTells ==
  pc # "chunk" =>
    /\ \A j \in 1 .. Position : FlattenSeq(blocks)[j][1] = j
    /\ \A j \in 1 .. Len(blocks) - 1 : Len(blocks[j]) = manifest.chunkSize
    /\ changes = 0 /\ Position = manifest.size => FlattenSeq(blocks) = file

\* What was written is what is read, and a local manifest is never taken for one
\* of fewer or other blocks: whatever end of it is missing, it is read with all ids
\* or not at all, the last id excepted, which may be cut itself, and the key, which
\* may be missing.  A name with blanks is not read at all, unless it misleads.
ReadsAllIds ==
  WasRead /\ ~Misleading =>
    /\ [parsed EXCEPT !.ids = <<>>, !.key = NoKey]
         = [manifest EXCEPT !.ids = <<>>, !.key = NoKey]
    /\ Len(parsed.ids) = Len(manifest.ids)
    /\ Front(<<NoKey>> \o parsed.ids) = Front(<<NoKey>> \o manifest.ids)
    /\ parsed.key \in {manifest.key, Shorter(manifest.key), NoKey}
    /\ local = shared => parsed = manifest

\* A download that succeeds wrote the blocks of the upload, though the manifest
\* may have lost its last id, its key, or the line that says it has a key; on a
\* full disk, which getFile does not notice, it wrote the beginning of them.
DownloadIsUpload ==
  pc = "done" /\ ~Misleading =>
    /\ IsPrefix(out, FlattenSeq(blocks))
    /\ stream = "good" => out = FlattenSeq(blocks)

=============================================================================
