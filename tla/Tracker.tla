------------------------------ MODULE Tracker -------------------------------
(***************************************************************************)
(* The tracker (tracker/main.cpp): peers register and send heartbeats,     *)
(* announce chunks, and are taken for alive for TTL after the last         *)
(* contact.  It serves one connection at a time and reads the clock only   *)
(* after it has read the command, so a command is one step.  A request or  *)
(* an answer that is lost on the way does not change the tracker.          *)
(*                                                                         *)
(* Times are kept as ages: the code only ever asks whether                 *)
(* now - last_seen is more than TTL, so an age is counted up to TTL + 1    *)
(* and the clock needs no bound.                                           *)
(***************************************************************************)
EXTENDS Integers, FiniteSets

CONSTANTS
  Peers,      \* entries "ip:port" with a valid port
  Chunks,     \* chunk ids
  TTL,        \* 30 seconds, in units of Tick
  Desireds,   \* the numbers a client sends with NEED_REPAIR: replicas desired
  Limits      \* ... and lines it wants at most

ASSUME TrackerAssumption ==
  /\ TTL \in Nat
  /\ Desireds \subseteq Int
  /\ Limits \subseteq Int

VARIABLES
  age,     \* peers: now - last_seen, or Never for an entry that is not there
  index,   \* chunk_index: chunk -> peers; an empty set is a missing chunk
  reply    \* what the last step sent to a client

vars == <<age, index, reply>>

-----------------------------------------------------------------------------

Never == -1

Ages == Never .. TTL + 1

Known == {p \in Peers : age[p] # Never}

\* Mutant of Stale: a peer whose age is TTL is pruned although WHERE names it.
StaleEarly == {p \in Known : age[p] >= TTL}

\* The peers that a pruning removes.
Stale == {p \in Known : age[p] > TTL}

\* Mutant of Located: the age of an entry is not looked at.
LocatedKnown(c) == index[c] \cap Known

\* The answer to WHERE: the peers that announced c and are alive.
Located(c) == {p \in index[c] : p \in Known /\ age[p] <= TTL}

\* The map of ages without the peers in S.
Without(S) == [p \in Peers |-> IF p \in S THEN Never ELSE age[p]]

\* Mutant of PruneStaleAndCleanup: the peers themselves stay.
CleanupOnly ==
  /\ index' = [c \in Chunks |-> index[c] \ Stale]
  /\ UNCHANGED age

\* prune_stale_and_cleanup: peers that are silent for too long are removed,
\* from both maps.
PruneStaleAndCleanup ==
  /\ age' = Without(Stale)
  /\ index' = [c \in Chunks |-> index[c] \ Stale]

-----------------------------------------------------------------------------
(* Replies.                                                                *)

None == [cmd |-> "none"]
Err  == [cmd |-> "err"]

\* desired and limit if they are positive, else the defaults.
Replicas(desired) == IF desired <= 0 THEN 2 ELSE desired
Lines(limit)      == IF limit <= 0 THEN 50 ELSE limit

Replies ==
  {None, Err}
    \cup [cmd : {"ok"}, peer : Peers]
    \cup [cmd : {"announced"}]
    \cup [cmd : {"where", "peers"}, peers : SUBSET Peers]
    \cup [cmd : {"repair"}, desired : Desireds, limit : Limits,
          lines : SUBSET (Chunks \X Nat)]

-----------------------------------------------------------------------------

Init ==
  /\ age = [p \in Peers |-> Never]
  /\ index = [c \in Chunks |-> {}]
  /\ reply = None

\* REGISTER and HEARTBEAT: the entry is made if need be, and is fresh.
Contact(p) ==
  /\ age' = [age EXCEPT ![p] = 0]
  /\ reply' = [cmd |-> "ok", peer |-> p]
  /\ UNCHANGED index

\* ANNOUNCE: both branches insert, whether the peer is alive or not.
Announce(c, p) ==
  /\ index' = [index EXCEPT ![c] = @ \cup {p}]
  /\ reply' = [cmd |-> "announced"]
  /\ UNCHANGED age

Where(c) ==
  /\ reply' = [cmd |-> "where", peers |-> Located(c)]
  /\ UNCHANGED <<age, index>>

\* The chunks NEED_REPAIR finds, with the number of their locations: it counts
\* the entries that are left after the pruning, whatever their age.
Found(desired) ==
  {line \in Chunks \X (1 .. Replicas(desired) - 1) :
     line[2] = Cardinality(index'[line[1]] \cap Known')}

\* NEED_REPAIR: of an unordered map, so any of the chunks found up to the limit.
NeedRepair(desired, limit) ==
  /\ PruneStaleAndCleanup
  /\ \E lines \in SUBSET Found(desired) :
       /\ \/ lines = Found(desired) /\ Cardinality(lines) <= Lines(limit)
          \/ Cardinality(lines) = Lines(limit)
       /\ reply' = [cmd |-> "repair", desired |-> desired, limit |-> limit,
                    lines |-> lines]

\* GET_PEERS: the second loop over the peers finds nothing left to prune, since
\* its clock was read before.
GetPeers ==
  /\ PruneStaleAndCleanup
  /\ reply' = [cmd |-> "peers", peers |-> Known']

\* Mutant of Invalid: looking at the entry of a bad port makes it.
InvalidRegisters ==
  /\ age' = [p \in Peers \cup {"bad port"} |-> IF p \in Peers THEN age[p] ELSE 0]
  /\ reply' = Err
  /\ UNCHANGED index

\* Unknown commands, ports out of range, missing words.
Invalid ==
  /\ reply' = Err
  /\ UNCHANGED <<age, index>>

\* Time passes.
Tick ==
  /\ age' = [p \in Peers |->
               IF age[p] = Never \/ age[p] > TTL THEN age[p] ELSE age[p] + 1]
  /\ reply' = None
  /\ UNCHANGED index

\* The process ends and is started again: both maps are in memory only.
Restart ==
  /\ age' = [p \in Peers |-> Never]
  /\ index' = [c \in Chunks |-> {}]
  /\ reply' = None

Next ==
  \/ \E p \in Peers : Contact(p)
  \/ \E c \in Chunks, p \in Peers : Announce(c, p)
  \/ \E c \in Chunks : Where(c)
  \/ \E desired \in Desireds, limit \in Limits : NeedRepair(desired, limit)
  \/ GetPeers
  \/ Invalid
  \/ Tick
  \/ Restart

Spec == Init /\ [][Next]_vars

\* Time does not stand still.
FairSpec == Spec /\ WF_vars(Tick)

-----------------------------------------------------------------------------
(* Properties.                                                             *)

\* Every variable has its type; no reply counts a chunk that is not there.
TypeOK ==
  /\ age \in [Peers -> Ages]
  /\ index \in [Chunks -> SUBSET Peers]
  /\ reply \in Replies

\* The peers heard of within their TTL.
Alive == {p \in Peers : age[p] \in 0 .. TTL}

\* The chunks with a location, but fewer than desired.
Scarce(desired) ==
  {c \in Chunks : Cardinality(Located(c)) \in 1 .. Replicas(desired) - 1}

\* The three answers agree on who is alive.  GET_PEERS lists the peers within
\* their TTL.  NEED_REPAIR lists as many of the scarce chunks as it may, each
\* with the number of peers WHERE would name, although it never looks at an age
\* and although announcements of peers that never registered stay in the index.
AnswersAgree ==
  /\ reply.cmd = "peers" => reply.peers = Alive
  /\ reply.cmd = "repair" =>
       LET scarce == Scarce(reply.desired)
           n      == Cardinality(reply.lines)
       IN  /\ \A line \in reply.lines :
                line[1] \in scarce /\ line[2] = Cardinality(Located(line[1]))
           /\ n <= Lines(reply.limit)
           /\ n < Lines(reply.limit) =>
                scarce \subseteq {line[1] : line \in reply.lines}

\* The tracker is a ChunkDirectory: in particular a pruning, whoever asks for it
\* and whenever, never takes an announcement away from a peer that is alive, and
\* takes all of those of a silent one.
Directory == INSTANCE ChunkDirectory WITH
  announced <- index,
  alive     <- Alive

\* (The specification Directory!Spec, as a property of the run.)
ImplementsDirectory == Directory!Spec

\* A peer that is not heard of any more is eventually named by no answer to
\* WHERE, however often it is announced or asked for, and though nobody may
\* ever ask for a pruning.
SilentForgotten ==
  \A p \in Peers :
    \/ []<>(reply = [cmd |-> "ok", peer |-> p])
    \/ <>[](\A c \in Chunks : p \notin Located(c))

=============================================================================
