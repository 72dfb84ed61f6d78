---------------------------- MODULE PeerService -----------------------------
(***************************************************************************)
(* The life of a PeerService (core/peer/peer_service.cpp) embedded in the  *)
(* graphical client (client/main_window.cpp): the GUI thread makes, starts *)
(* and stops it, its worker thread opens the listening socket and serves   *)
(* connections one after the other.                                        *)
(*                                                                         *)
(* The threads share running_, an atomic, and listenFd_, a plain int that  *)
(* both read and write; every access is a step of its own.  What a request *)
(* does to chunks and manifests is in DssClient and StorageManager.        *)
(***************************************************************************)
EXTENDS Integers

CONSTANTS
  Ports,         \* values of peerPort_
  NoPort,        \* the port of a socket that does not exist or is not bound
  MaxApplies,    \* bound: times the user applies settings
  MaxFailures    \* bound: failures of storage.init, socket calls, requests

ASSUME PeerAssumption ==
  /\ NoPort \notin Ports
  /\ MaxApplies \in Nat
  /\ MaxFailures \in Nat

VARIABLES
  \* MainWindow:
  enabled,    \* peerEnabled_
  port,       \* peerPort_
  gui,        \* what the GUI thread does
  after,      \* what it does once stopEmbeddedPeer has returned
  \* The PeerService that embeddedPeerService_ points to:
  thread,     \* "none" if there is no service, else whether worker_ is
              \* "joinable" or "joined"
  running,    \* running_
  listenFd,   \* listenFd_
  worker,     \* where its worker thread is
  own,        \* the port it was made with
  \* The listening socket, in the kernel:
  sock,       \* its state
  sockPort,   \* the port it is bound to
  woken,      \* shutdown() was called on it while it listened
  \* Bounds:
  applies, failures

window  == <<enabled, port>>
service == <<thread, running, listenFd, own>>
socket  == <<sock, sockPort, woken>>
vars    == <<enabled, port, gui, after, thread, running, listenFd,
             worker, own, sock, sockPort, woken, applies, failures>>

-----------------------------------------------------------------------------
(* The socket.                                                             *)

\* Its descriptor, and what listenFd_ is without one.
Fd   == 3
NoFd == -1

\* close(): closing a descriptor that is closed already fails and is ignored.
Close == sock' = "closed" /\ sockPort' = NoPort /\ woken' = FALSE

\* Mutant of Shutdown: it is missing.
ShutdownMissing == UNCHANGED socket

\* shutdown(): it has an effect on a socket that listens only.
Shutdown ==
  /\ woken' = (woken \/ sock = "listening")
  /\ UNCHANGED <<sock, sockPort>>

Fail == failures < MaxFailures /\ failures' = failures + 1

-----------------------------------------------------------------------------
(* The GUI thread.                                                         *)

Init ==
  /\ enabled \in BOOLEAN
  /\ port \in Ports
  /\ gui = "starting"
  /\ after = "starting"
  /\ thread = "none"
  /\ running = FALSE
  /\ listenFd = NoFd
  /\ worker = "none"
  /\ own = NoPort
  /\ sock = "closed"
  /\ sockPort = NoPort
  /\ woken = FALSE
  /\ applies = 0
  /\ failures = 0

\* Mutant of ApplySettings: the peer that runs is not stopped.
ApplySettingsKeeps(on, p) ==
  /\ gui = "idle"
  /\ applies < MaxApplies
  /\ applies' = applies + 1
  /\ enabled' = on
  /\ port' = p
  /\ gui' = "starting"
  /\ UNCHANGED <<service, after, worker, socket, failures>>

\* The settings are applied: a peer that runs is stopped, then one is started.
ApplySettings(on, p) ==
  /\ gui = "idle"
  /\ applies < MaxApplies
  /\ applies' = applies + 1
  /\ enabled' = on
  /\ port' = p
  /\ gui' = IF thread # "none" /\ running THEN "stop" ELSE "starting"
  /\ after' = "starting"
  /\ UNCHANGED <<service, worker, socket, failures>>

\* ~MainWindow
CloseWindow ==
  /\ gui = "idle"
  /\ gui' = IF thread # "none" THEN "stop" ELSE "gone"
  /\ after' = "gone"
  /\ UNCHANGED <<window, service, worker, socket, applies, failures>>

\* startEmbeddedPeerIfEnabled: a new service replaces the one there may be,
\* whose destructor ends the program if its thread was not joined; start() sets
\* running_ before the thread exists.
StartEmbeddedPeerIfEnabled ==
  /\ gui = "starting"
  /\ \/ /\ ~enabled \/ (thread # "none" /\ running)
        /\ gui' = "idle"
        /\ UNCHANGED <<service, worker, failures>>
     \/ /\ enabled /\ thread = "joinable" /\ ~running
        /\ gui' = "terminated"
        /\ UNCHANGED <<service, worker, failures>>
     \/ /\ enabled /\ thread = "none"
        /\ gui' = "idle"
        /\ thread' = "joinable"
        /\ running' = TRUE
        /\ listenFd' = NoFd
        /\ worker' = "init"
        /\ own' = port
        /\ UNCHANGED failures
     \/ \* the thread cannot be created: the exception is caught here
        /\ enabled /\ thread = "none"
        /\ Fail
        /\ gui' = "idle"
        /\ UNCHANGED <<service, worker>>
  /\ UNCHANGED <<window, after, socket, applies>>

\* stop(): nothing to do if the service does not run (any more).
StopBegin ==
  /\ gui = "stop"
  /\ gui' = IF running THEN "stop_fd" ELSE "reset"
  /\ running' = FALSE
  /\ UNCHANGED <<window, after, thread, listenFd, own, worker, socket, applies,
                 failures>>

StopTestFd ==
  /\ gui = "stop_fd"
  /\ gui' = IF listenFd >= 0 THEN "stop_shutdown" ELSE "join"
  /\ UNCHANGED <<window, after, service, worker, socket, applies, failures>>

StopShutdown ==
  /\ gui = "stop_shutdown"
  /\ gui' = "stop_close"
  /\ Shutdown
  /\ UNCHANGED <<window, after, service, worker, applies, failures>>

\* close(listenFd_), unless the worker has set it to -1 meanwhile.
StopClose ==
  /\ gui = "stop_close"
  /\ gui' = "stop_clear"
  /\ IF listenFd >= 0
     THEN sock' = "closed" /\ sockPort' = NoPort /\ UNCHANGED woken
     ELSE UNCHANGED socket
  /\ UNCHANGED <<window, after, service, worker, applies, failures>>

StopClearFd ==
  /\ gui = "stop_clear"
  /\ gui' = "join"
  /\ listenFd' = NoFd
  /\ UNCHANGED <<window, after, thread, running, own, worker, socket, applies,
                 failures>>

\* Mutant of StopJoin: the thread is detached instead.
StopJoinDetaches ==
  /\ gui = "join"
  /\ thread' = "joined"
  /\ gui' = "reset"
  /\ UNCHANGED <<window, after, running, listenFd, own, worker, socket, applies,
                 failures>>

\* Mutant of StopJoin: the thread is waited for by polling and never joined.
StopJoinPolls ==
  /\ gui = "join"
  /\ worker = "finished"
  /\ gui' = "reset"
  /\ UNCHANGED <<window, after, service, worker, socket, applies, failures>>

\* worker_.join() waits for the end of the thread.
StopJoin ==
  /\ gui = "join"
  /\ worker = "finished"
  /\ thread' = "joined"
  /\ gui' = "reset"
  /\ UNCHANGED <<window, after, running, listenFd, own, worker, socket, applies,
                 failures>>

\* embeddedPeerService_.reset(): ~thread ends the program if it is joinable.
Reset ==
  /\ gui = "reset"
  /\ gui' = IF thread = "joinable" THEN "terminated" ELSE after
  /\ thread' = "none"
  /\ UNCHANGED <<window, after, running, listenFd, own, worker, socket, applies,
                 failures>>

GuiStep ==
  \/ StartEmbeddedPeerIfEnabled
  \/ StopBegin
  \/ StopTestFd
  \/ StopShutdown
  \/ StopClose
  \/ StopClearFd
  \/ StopJoin
  \/ Reset

-----------------------------------------------------------------------------
(* The worker thread: runLoop.                                             *)

\* What the worker's steps leave alone.
WorkerOnly == UNCHANGED <<window, gui, after, thread, own, applies>>

\* An exception leaves runLoop; start() catches it.
Throw == worker' = "throw" /\ UNCHANGED <<running, listenFd>>

Catch ==
  /\ worker = "throw"
  /\ worker' = "finished"
  /\ running' = FALSE
  /\ UNCHANGED <<listenFd, socket, failures>>
  /\ WorkerOnly

\* storage.init() and socket(), which may fail.
OpenSocket ==
  /\ worker = "init"
  /\ \/ /\ worker' = "publish"
        /\ sock' = "open"
        /\ sockPort' = NoPort
        /\ woken' = FALSE
        /\ UNCHANGED <<running, listenFd, failures>>
     \/ Fail /\ Throw /\ UNCHANGED socket
  /\ WorkerOnly

PublishFd ==
  /\ worker = "publish"
  /\ worker' = "bind"
  /\ listenFd' = Fd
  /\ UNCHANGED <<running, socket, failures>>
  /\ WorkerOnly

\* Mutant of GiveUp: the descriptor is not closed.
GiveUpLeaks ==
  /\ worker = "giveup"
  /\ listenFd' = NoFd
  /\ running' = FALSE
  /\ worker' = "throw"
  /\ UNCHANGED <<socket, failures>>
  /\ WorkerOnly

\* bind() or listen() failed: the descriptor is closed, maybe a second time.
GiveUp ==
  /\ worker = "giveup"
  /\ Close
  /\ listenFd' = NoFd
  /\ running' = FALSE
  /\ worker' = "throw"
  /\ UNCHANGED failures
  /\ WorkerOnly

Bind ==
  /\ worker = "bind"
  /\ \/ /\ sock = "open"
        /\ worker' = "listen"
        /\ sock' = "bound"
        /\ sockPort' = own
        /\ UNCHANGED <<woken, failures>>
     \/ sock = "open" /\ Fail /\ worker' = "giveup" /\ UNCHANGED socket
     \/ sock = "closed" /\ worker' = "giveup" /\ UNCHANGED <<socket, failures>>
  /\ UNCHANGED <<running, listenFd>>
  /\ WorkerOnly

Listen ==
  /\ worker = "listen"
  /\ \/ /\ sock = "bound"
        /\ worker' = "loop"
        /\ sock' = "listening"
        /\ UNCHANGED <<sockPort, woken, failures>>
     \/ sock = "bound" /\ Fail /\ worker' = "giveup" /\ UNCHANGED socket
     \/ sock = "closed" /\ worker' = "giveup" /\ UNCHANGED <<socket, failures>>
  /\ UNCHANGED <<running, listenFd>>
  /\ WorkerOnly

\* while (running_.load())
Loop ==
  /\ worker = "loop"
  /\ worker' = IF running THEN "accept" ELSE "cleanup"
  /\ UNCHANGED <<running, listenFd, socket, failures>>
  /\ WorkerOnly

\* accept() is called: on a socket that is closed or shut down it fails.
Accept ==
  /\ worker = "accept"
  /\ worker' = IF sock = "listening" /\ ~woken THEN "blocked" ELSE "retry"
  /\ UNCHANGED <<running, listenFd, socket, failures>>
  /\ WorkerOnly

\* accept() returns with an error: shutdown() wakes it, close() does not.
AcceptFails ==
  /\ worker = "blocked"
  /\ woken
  /\ worker' = "retry"
  /\ UNCHANGED <<running, listenFd, socket, failures>>
  /\ WorkerOnly

Retry ==
  /\ worker = "retry"
  /\ worker' = IF running THEN "loop" ELSE "cleanup"
  /\ UNCHANGED <<running, listenFd, socket, failures>>
  /\ WorkerOnly

\* A client connects; or accept() fails for a passing reason.
Connection ==
  /\ worker = "blocked"
  /\ sock = "listening"
  /\ ~woken
  /\ worker' \in {"serve", "retry"}
  /\ UNCHANGED <<running, listenFd, socket, failures>>
  /\ WorkerOnly

\* The request is served, or its handler throws.
Serve ==
  /\ worker = "serve"
  /\ \/ worker' = "loop" /\ UNCHANGED <<running, listenFd, failures>>
     \/ Fail /\ Throw
  /\ UNCHANGED socket
  /\ WorkerOnly

\* Mutant of Cleanup: the socket is left to stop().
CleanupLeaves ==
  /\ worker = "cleanup"
  /\ worker' = "exit"
  /\ UNCHANGED <<running, listenFd, socket, failures>>
  /\ WorkerOnly

\* if (listenFd_ >= 0) close(listenFd_): closing it again does no harm here.
Cleanup ==
  /\ worker = "cleanup"
  /\ worker' = IF listenFd >= 0 THEN "cleanup_clear" ELSE "exit"
  /\ IF listenFd >= 0 THEN Close ELSE UNCHANGED socket
  /\ UNCHANGED <<running, listenFd, failures>>
  /\ WorkerOnly

CleanupClearFd ==
  /\ worker = "cleanup_clear"
  /\ worker' = "exit"
  /\ listenFd' = NoFd
  /\ UNCHANGED <<running, socket, failures>>
  /\ WorkerOnly

Exit ==
  /\ worker = "exit"
  /\ worker' = "finished"
  /\ running' = FALSE
  /\ UNCHANGED <<listenFd, socket, failures>>
  /\ WorkerOnly

WorkerStep ==
  \/ OpenSocket
  \/ PublishFd
  \/ Bind
  \/ Listen
  \/ GiveUp
  \/ Loop
  \/ Accept
  \/ AcceptFails
  \/ Retry
  \/ Serve
  \/ Cleanup
  \/ CleanupClearFd
  \/ Exit
  \/ Catch

-----------------------------------------------------------------------------

\* A program that was terminated takes no step.
Alive == gui # "terminated"

Next ==
  \/ \E on \in BOOLEAN, p \in Ports : ApplySettings(on, p)
  \/ CloseWindow
  \/ GuiStep
  \/ Alive /\ WorkerStep
  \/ Alive /\ Connection

Spec == Init /\ [][Next]_vars

\* Both threads are scheduled; a request is served within its timeouts.
FairSpec ==
  /\ Spec
  /\ WF_vars(GuiStep)
  /\ WF_vars(Alive /\ WorkerStep)

-----------------------------------------------------------------------------
(* Properties.                                                             *)

Stopping == {"stop", "stop_fd", "stop_shutdown", "stop_close", "stop_clear",
             "join", "reset"}

WorkerStates ==
  {"none", "init", "publish", "bind", "listen", "giveup", "loop", "accept",
   "blocked", "retry", "serve", "cleanup", "cleanup_clear", "exit", "throw",
   "finished"}

\* Every variable has its type, and no worker thread outlives the service whose
\* members it uses.
TypeOK ==
  /\ enabled \in BOOLEAN
  /\ port \in Ports
  /\ gui \in Stopping \cup {"idle", "starting", "gone", "terminated"}
  /\ after \in {"starting", "gone"}
  /\ thread \in {"none", "joinable", "joined"}
  /\ running \in BOOLEAN
  /\ listenFd \in {NoFd, Fd}
  /\ worker \in WorkerStates
  /\ own \in Ports \cup {NoPort}
  /\ sock \in {"closed", "open", "bound", "listening"}
  /\ sockPort \in Ports \cup {NoPort}
  /\ woken \in BOOLEAN
  /\ applies \in 0 .. MaxApplies
  /\ failures \in 0 .. MaxFailures
  /\ thread = "none" /\ Alive => worker \in {"none", "finished"}

\* When stop() has joined the worker, the worker has ended and its port is free,
\* wherever the worker was when stop() was called: opening the socket, serving,
\* throwing, or cleaning up by itself.  A restart on the same port relies on it.
StopReleases ==
  gui = "reset" /\ thread = "joined" => worker = "finished" /\ sock = "closed"

\* listenFd_ names the socket for as long as there is one, but for the moment
\* between socket() and the assignment.
FdNamesSocket ==
  /\ listenFd = NoFd /\ worker # "publish" => sock = "closed"
  /\ worker \in {"init", "publish"} => listenFd = NoFd
  /\ worker \in {"none", "init", "exit", "cleanup_clear"} => sock = "closed"

\* How far the worker and the socket are while stop() runs.
StopProceeds ==
  /\ gui \in Stopping => thread # "none"
  /\ gui \in Stopping \ {"stop"} => running = FALSE
  /\ gui \in {"stop_shutdown", "stop_close", "stop_clear"} =>
       worker \notin {"none", "init", "publish"}
  /\ gui = "stop_clear" => sock = "closed"
  /\ gui = "join" /\ sock # "closed" =>
       worker \in {"publish", "bind", "listen", "giveup", "loop", "cleanup"}

\* A service has a thread that is joinable until stop() joins it; when there is
\* no such thread there is no socket either.
ThreadOwned ==
  /\ thread # "joinable" /\ Alive =>
       sock = "closed" /\ worker \in {"none", "finished"}
  /\ thread # "none" => worker # "none"
  /\ thread = "joined" => gui = "reset"

\* stop() has found the service running and has not joined its thread yet.
Told == Stopping \ {"stop", "reset"}

\* As long as stop() has not told it to end, a worker ends after a failure only,
\* and without closing a socket that listens.
EndsByItself ==
  thread = "joinable" /\ gui \notin Told =>
    /\ worker \in {"publish", "bind"} => sock = "open"
    /\ worker = "listen" => sock = "bound"
    /\ worker \in {"giveup", "throw", "finished"} => failures > 0
    /\ worker \notin {"cleanup", "cleanup_clear", "exit"}
    /\ worker = "finished" => ~running
    /\ running \/ worker \in {"throw", "finished"}

\* The socket follows the worker, on the port the service was made with, which
\* is the port of the settings while the window is idle; a window that starts a
\* service, or is gone, has none that runs.
OnItsPort ==
  /\ worker \in {"bind", "publish"} => sock \in {"closed", "open"}
  /\ worker = "listen" => sock \in {"closed", "bound"}
  /\ worker = "giveup" => sock # "listening"
  /\ thread # "none" => own \in Ports
  /\ sock \in {"bound", "listening"} => sockPort = own
  /\ gui = "idle" /\ thread # "none" /\ running => own = port
  /\ gui = "starting" => after = "starting" /\ ~(thread # "none" /\ running)
  /\ gui = "gone" => thread = "none"

\* Applying settings or closing the window ends the program by std::terminate in
\* one case only: the peer's thread had ended by itself, after a failure, and
\* isRunning() was FALSE, so that stop() did not join it.
TerminatesOnlyAfterFailure ==
  gui = "terminated" =>
    /\ failures > 0
    /\ ~running
    /\ worker \in {"throw", "finished"}

\* What makes StopReleases inductive.
SocketInv ==
  /\ TypeOK
  /\ FdNamesSocket
  /\ StopProceeds
  /\ ThreadOwned

\* The inductive invariant behind the theorems of PeerProofs.
IInv ==
  /\ SocketInv
  /\ EndsByItself
  /\ OnItsPort
  /\ TerminatesOnlyAfterFailure

\* The window's view of this peer: EmbeddedPeer.
Embedded == INSTANCE EmbeddedPeer WITH
  phase <- IF gui \in Stopping \cup {"starting"}
           THEN IF after = "gone" THEN "closing" ELSE "changing" ELSE gui,
  up <- thread # "none" /\ running,
  at <- IF sock = "listening" THEN sockPort ELSE NoPort

\* At every moment the window may rely on EmbeddedPeer: a peer that runs while
\* the window is idle is on the port of the settings or on none, and a new one
\* is not started before the old one is off its port.
ImplementsEmbeddedPeer == Embedded!Spec

\* stop() always returns: it wakes a worker that waits in accept(), and a worker
\* that is not there yet sees running_.  The GUI does not freeze.
StopReturns == gui \in Stopping ~> gui \notin Stopping

\* A service that was told nothing but to run, and met no failure.
Undisturbed == gui = "idle" /\ enabled /\ failures = 0

\* "The embedded peer was restarted if it was running or is enabled": it comes
\* to listen on the port of the settings, unless something fails or the user
\* changes the settings again.
Restarted ==
  Undisturbed ~> \/ sock = "listening" /\ sockPort = port
                 \/ ~Undisturbed

=============================================================================
