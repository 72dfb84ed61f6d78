---------------------------- MODULE PeerProtocol ----------------------------
(***************************************************************************)
(* The connections between PeerClient (core/peer/peer_client.cpp) and the  *)
(* embedded peer of PeerService: what of a request has arrived, where the  *)
(* handler in runLoop is, what of the answer was sent, and who has gone.   *)
(*                                                                         *)
(* A step Serve of PeerService is here a handler with its waits and        *)
(* timeouts.  A call that its process gave up leaves its connection to the *)
(* peer.  Objects stand for single chunks and manifests.                   *)
(***************************************************************************)
EXTENDS PeerService, Sequences

CONSTANTS
  Objects,     \* ids of chunks and manifests
  Manifests,   \* those of manifests
  Requests,    \* what clients ask for
  MaxCalls     \* bound: calls

ASSUME ProtocolAssumption ==
  /\ Manifests \subseteq Objects
  /\ Requests \subseteq [op : {"put", "get", "has"}, id : Objects]
  /\ MaxCalls \in Nat

VARIABLES
  disk,      \* the files of the objects
  listed,    \* the chunks in the ledger of its StorageManager
  calls,     \* the calls of PeerClient, in the order they connected
  backlog,   \* connections the kernel has taken and accept() has not
  serving,   \* the connection runLoop serves
  step,      \* where its handler is
  arrived,   \* the parts of its request that have arrived
  lost       \* connections of handlers that threw, which nobody closes

wire    == <<disk, listed, calls, backlog, serving, step, arrived, lost>>
allVars == <<vars, wire>>

NoCall == 0

\* The parts a client sends: the line, and for a put the payload.
Parts(r) == IF r.op = "put" THEN 2 ELSE 1

\* The process of the peer exists.
Process == gui \notin {"terminated", "gone"}

\* Connections are taken.
Reachable == Process /\ sock = "listening" /\ ~woken

\* The peer's end of a connection is closed.
Closed(k) ==
  ~Process \/ (k # serving /\ k \notin lost /\ \A i \in DOMAIN backlog : backlog[i] # k)

Open(k) == calls[k].result = "none"

ProtocolInit ==
  /\ Init
  /\ disk = [o \in Objects |-> "absent"]
  /\ listed = {}
  /\ calls = <<>>
  /\ backlog = <<>>
  /\ serving = NoCall
  /\ step = "none"
  /\ arrived = 0
  /\ lost = {}

-----------------------------------------------------------------------------
(* PeerClient.                                                             *)

\* connect_tcp_fatal_or_throw: where it is refused the call throws, and neither
\* side has anything to remember of it.
Call(r) ==
  /\ Reachable
  /\ Len(calls) < MaxCalls
  /\ calls' = Append(calls, [req |-> r, seen |-> "nothing",
                              answer |-> "none", result |-> "none"])
  /\ backlog' = Append(backlog, Len(calls'))
  /\ UNCHANGED <<vars, disk, listed, serving, step, arrived, lost>>

\* send_all_or_throw: another part is there to be read.  It may have waited in
\* the buffer of the connection, and may be from a client that has gone since.
Arrive ==
  /\ Process
  /\ step \in {"line", "body"}
  /\ arrived < Parts(calls[serving].req)
  /\ arrived' = arrived + 1
  /\ UNCHANGED <<vars, disk, listed, calls, backlog, serving, step, lost>>

\* Mutant of Result: a put does not wait for the answer.
ResultOptimistic(k) ==
  LET r == calls[k].req IN
  CASE r.op = "has" -> IF calls[k].answer = "OK" THEN "yes" ELSE "no"
    [] r.op = "put" -> IF calls[k].answer = "ERR" THEN "failed" ELSE "ok"
    [] r.op = "get" -> IF calls[k].answer = "payload" THEN calls[k].seen ELSE "failed"

\* What a call makes of the answer it has read: hasChunk and hasManifest take
\* a missing answer for "no", getChunk and getManifest want all of the payload.
Result(k) ==
  LET r == calls[k].req IN
  CASE r.op = "has" -> IF calls[k].answer = "OK" THEN "yes" ELSE "no"
    [] r.op = "put" -> IF calls[k].answer = "OK" THEN "ok" ELSE "failed"
    [] r.op = "get" -> IF calls[k].answer = "payload" THEN calls[k].seen ELSE "failed"

\* A put reads until the peer closes, the others until they have their answer.
Answered(k) ==
  \/ Closed(k)
  \/ calls[k].req.op # "put" /\ calls[k].answer \in {"ERR", "payload"}
  \/ calls[k].req.op = "has" /\ calls[k].answer = "OK"

Ends(k, res) == calls' = [calls EXCEPT ![k].result = res, ![k].answer = "none"]

Return(k) ==
  /\ Open(k)
  /\ Answered(k)
  /\ Ends(k, Result(k))
  /\ UNCHANGED <<vars, disk, listed, backlog, serving, step, arrived, lost>>

\* The connection breaks, or the process of the client ends.
Break(k) ==
  /\ Open(k)
  /\ Ends(k, IF calls[k].req.op = "has" THEN "no" ELSE "failed")
  /\ UNCHANGED <<vars, disk, listed, backlog, serving, step, arrived, lost>>

-----------------------------------------------------------------------------
(* runLoop, between accept() and close().                                  *)

Handler(at) == Process /\ worker = "serve" /\ step = at

\* The rest of the handler's steps leaves the threads alone.
Inside == UNCHANGED <<vars, backlog, serving, arrived, lost>>

\* Mutant of TimesOut: no timeout is set, only the end of the connection counts.
TimesOutNever(n) == arrived < n /\ ~Open(serving)

\* recv() returns nothing: the client has gone, or ten seconds have passed.
TimesOut(n) == arrived < n

\* What the handler of the connection has done and answered; nobody reads the
\* answer when the client has gone.
Answer(seen, answer) ==
  calls' = [calls EXCEPT ![serving].seen = seen,
                         ![serving].answer = IF Open(serving) THEN answer ELSE @]

\* The request line has been read; what it asks for is op.
Asks(op) ==
  /\ Handler("line")
  /\ arrived >= 1
  /\ calls[serving].req.op = op

\* send_all_nothrow, after which the handler goes on to next, or SIGPIPE, which a
\* send() to a client that has gone may raise.
Send(seen, answer, next) ==
  /\ Answer(seen, answer)
  /\ step' \in {next} \cup IF Open(serving) THEN {} ELSE {"sigpipe"}

RecvLine ==
  /\ \/ Asks("put") /\ step' = "body"
     \/ Handler("line") /\ TimesOut(1) /\ step' = "close"
  /\ UNCHANGED <<disk, listed, calls>>
  /\ Inside

\* Fewer bytes than the line announced.
BodyMissing ==
  /\ Handler("body")
  /\ TimesOut(2)
  /\ Send(calls[serving].seen, "ERR", "close")
  /\ UNCHANGED <<disk, listed>>
  /\ Inside

\* What a stream that nobody looks at has written when the disk may be full.
Written == {"whole", "torn"}

\* The ledger with an object that is stored: only chunks are in it.
Ledger(o) == listed \cup ({o} \ Manifests)

\* What enforceLimit, at the end of storeChunk, may leave in it.
Kept(o) == IF o \in Manifests THEN {listed} ELSE SUBSET Ledger(o)

\* The object o is written as f, and the files of chunks in gone are removed.
Stores(o, f, kept, gone) ==
  /\ listed' = kept
  /\ disk' = [x \in Objects |-> IF x \in gone THEN "absent"
                                ELSE IF x = o THEN f ELSE disk[x]]

\* storeChunk, or the stream a manifest is written to.
Store(o) == \E kept \in Kept(o) : Stores(o, "whole", kept, Ledger(o) \ kept)

\* They succeed as well when the disk is full, and when files cannot be removed.
StoreBadly(o) ==
  \E f \in Written, kept \in Kept(o) :
    \E gone \in SUBSET (Ledger(o) \ kept) : Stores(o, f, kept, gone)

\* A failure of the disk: storeChunk throws or the manifest cannot be opened, or
\* it goes unnoticed.
PutFails ==
  /\ Fail
  /\ \/ UNCHANGED <<disk, listed>> /\ Send(calls[serving].seen, "ERR", "close")
     \/ StoreBadly(calls[serving].req.id) /\ Send("written", "OK", "close")
  /\ UNCHANGED <<window, gui, after, service, worker, socket, applies,
                 backlog, serving, arrived, lost>>

PutObject ==
  /\ Handler("body")
  /\ arrived = 2
  /\ \/ /\ Store(calls[serving].req.id)
        /\ Send("written", "OK", "close")
        /\ Inside
     \/ PutFails

\* What the handler of a get or has finds: HAS_CHUNK asks the ledger, the others
\* look for the file.
Finds(r) ==
  CASE r.op = "get" \/ r.id \in Manifests -> disk[r.id]
    [] OTHER -> IF r.id \in listed THEN "listed" ELSE "absent"

\* The whole object is read, its size is sent, then the object.
GetObject ==
  LET f == Finds(calls[serving].req) IN
  /\ Asks("get")
  /\ IF f = "absent" THEN Send(f, "ERR", "close") ELSE Send(f, "OK", "payload")
  /\ UNCHANGED <<disk, listed>>
  /\ Inside

SendPayload ==
  /\ Handler("payload")
  /\ Send(calls[serving].seen, "payload", "close")
  /\ UNCHANGED <<disk, listed>>
  /\ Inside

HasObject ==
  LET f == Finds(calls[serving].req) IN
  /\ Asks("has")
  /\ Send(f, IF f = "absent" THEN "ERR" ELSE "OK", "close")
  /\ UNCHANGED <<disk, listed>>
  /\ Inside

\* Nothing in the program handles SIGPIPE.
Sigpipe ==
  /\ Handler("sigpipe")
  /\ gui' = "terminated"
  /\ UNCHANGED <<window, after, service, worker, socket, applies, failures, wire>>

HandlerStep ==
  \/ RecvLine
  \/ BodyMissing
  \/ PutObject
  \/ GetObject
  \/ HasObject
  \/ SendPayload

-----------------------------------------------------------------------------
(* The threads of PeerService.                                             *)

\* accept() takes the connection that was made first, or fails.
AcceptConnection ==
  /\ Connection
  /\ \/ /\ worker' = "serve"
        /\ backlog # <<>>
        /\ serving' = Head(backlog)
        /\ backlog' = Tail(backlog)
        /\ step' = "line"
     \/ /\ worker' = "retry"
        /\ UNCHANGED <<backlog, serving, step>>
  /\ UNCHANGED <<disk, listed, calls, arrived, lost>>

\* What leaves the handler by an exception: the memory for a payload or for a
\* manifest cannot be had.
Throws == step = "body" \/ (Asks("get") /\ calls[serving].req.id \in Manifests)

\* Mutant of FinishConnection: a connection whose handler threw is not forgotten.
FinishConnectionKeeps ==
  /\ Serve
  /\ \/ worker' = "loop" /\ step = "close" /\ serving' = NoCall /\ step' = "none"
     \/ worker' = "throw" /\ Throws /\ UNCHANGED <<serving, step>>
  /\ arrived' = 0
  /\ UNCHANGED <<disk, listed, calls, backlog, lost>>

\* close(client); an exception skips it and leaves the connection behind.
FinishConnection ==
  /\ Serve
  /\ \/ worker' = "loop" /\ step = "close" /\ UNCHANGED lost
     \/ worker' = "throw" /\ Throws /\ lost' = lost \cup {serving}
  /\ serving' = NoCall
  /\ step' = "none"
  /\ arrived' = 0
  /\ UNCHANGED <<disk, listed, calls, backlog>>

\* The StorageManager of runLoop: its init() reads metadata.db or scans the chunks,
\* and of the chunks that were ever stored any may be in its ledger, with a file or
\* without one (StorageManager tells which).  It ends with runLoop.
InitStorage ==
  LET put == {k \in DOMAIN calls : calls[k].seen = "written"} IN
  listed' \in CASE worker = "init" /\ worker' # "init" ->
                    SUBSET ({calls[k].req.id : k \in put} \ Manifests)
               [] worker' = "finished" -> {{}}
               [] OTHER -> {listed}

\* What a step of the threads means to the connections: a listening socket that is
\* shut down or closed takes its backlog with it.
Kernel ==
  /\ backlog' = IF sock' = "listening" /\ ~woken' THEN backlog ELSE <<>>
  /\ InitStorage
  /\ UNCHANGED <<disk, calls, serving, step, arrived, lost>>

UserStep ==
  \/ \E on \in BOOLEAN, p \in Ports : ApplySettings(on, p)
  \/ CloseWindow

ThreadStep == worker # "serve" /\ WorkerStep

ProtocolNext ==
  \/ Process /\ (UserStep \/ GuiStep \/ ThreadStep) /\ Kernel
  \/ Process /\ (AcceptConnection \/ FinishConnection)
  \/ HandlerStep
  \/ Sigpipe
  \/ \E r \in Requests : Call(r)
  \/ Arrive
  \/ \E k \in DOMAIN calls : Return(k) \/ Break(k)

\* Both threads of the peer and every client are scheduled, and the timeouts of
\* the peer's sockets expire.  That a client sends anything is not assumed.
ProtocolFairness ==
  /\ WF_allVars(Process /\ GuiStep /\ Kernel)
  /\ WF_allVars(Process /\ ThreadStep /\ Kernel)
  /\ SF_allVars(Process /\ worker' = "serve" /\ AcceptConnection)
  /\ WF_allVars(HandlerStep \/ Sigpipe \/ (Process /\ FinishConnection))
  /\ \A k \in 1 .. MaxCalls : WF_allVars(k \in DOMAIN calls /\ Return(k))

ProtocolSpec == ProtocolInit /\ [][ProtocolNext]_allVars /\ ProtocolFairness

-----------------------------------------------------------------------------
(* Properties.                                                             *)

\* Every variable has its type; a connection is being served exactly while the
\* worker serves.
ProtocolTypeOK ==
  /\ disk \in [Objects -> {"absent", "whole", "torn"}]
  /\ listed \subseteq Objects \ Manifests
  /\ calls \in Seq([req : Requests,
                    seen : {"nothing", "absent", "whole", "torn", "listed", "written"},
                    answer : {"none", "OK", "ERR", "payload"},
                    result : {"none", "ok", "failed", "yes", "no", "whole", "torn"}])
  /\ backlog \in Seq(DOMAIN calls)
  /\ serving \in {NoCall} \cup DOMAIN calls
  /\ step \in {"none", "line", "body", "payload", "close", "sigpipe"}
  /\ arrived \in 0 .. 2
  /\ lost \subseteq DOMAIN calls
  /\ worker = "serve" <=> serving # NoCall
  /\ worker = "serve" <=> step # "none"

\* Connections are served in the order they were made: no call that waits, nor
\* one that was made after it, has acted.
ServedInOrder ==
  /\ \A i \in DOMAIN backlog :
       /\ serving < backlog[i]
       /\ \A j \in DOMAIN backlog : i < j => backlog[i] < backlog[j]
       /\ \A k \in DOMAIN calls : k >= backlog[i] => calls[k].seen = "nothing"
  /\ serving # NoCall =>
       \A k \in DOMAIN calls : k > serving => calls[k].seen = "nothing"

\* How far the handler is tells what it was asked and whether it has acted.
HandlerKnows ==
  /\ step \in {"line", "body"} => calls[serving].seen = "nothing"
  /\ step = "body" => calls[serving].req.op = "put"
  /\ step = "payload" => /\ calls[serving].req.op = "get"
                         /\ calls[serving].seen \in Written

\* What a call has done or seen when it is answered "OK".
Justifies(op) == CASE op = "put" -> {"written"}
                   [] op = "get" -> Written
                   [] op = "has" -> Written \cup {"listed"}

\* An answer that promises something was sent after the call had acted.
AnswersTruthful ==
  \A k \in DOMAIN calls :
    /\ calls[k].answer = "OK" => calls[k].seen \in Justifies(calls[k].req.op)
    /\ calls[k].answer = "payload" => calls[k].seen \in Written

\* The inductive invariant behind the theorems of PeerProofs.
ProtocolInv ==
  /\ SocketInv
  /\ ProtocolTypeOK
  /\ ServedInOrder
  /\ HandlerKnows
  /\ AnswersTruthful

\* The promise to the callers: PeerCalls.
Promise == INSTANCE PeerCalls WITH
  calls <- [k \in DOMAIN calls |-> [req |-> calls[k].req, seen |-> calls[k].seen,
                                    result |-> calls[k].result]]

\* Whatever breaks, stalls or is stopped in between, a call acts at most once and
\* in the order of the connections, and succeeds only if it acted; a get returns
\* what the disk held then, and HAS_CHUNK what the ledger said.
ImplementsCalls == Promise!Spec

\* An exception has ended the worker: the connection it served is open for as
\* long as the program runs, and so are those in the backlog of its socket until
\* the socket is closed.
Abandoned(k) == k \in lost \/ (worker = "finished" /\ sock = "listening")

\* Every call returns, so that again and again none is waiting (the calls are
\* finitely many): a client that stalls holds up the others only for the peer's
\* timeouts, and stopping the peer resets who still waits.  The client has no
\* timeout of its own; what it hangs on is a peer whose handler threw.
CallsReturn == []<>(\A k \in DOMAIN calls : ~Open(k) \/ Abandoned(k))

=============================================================================
