------------------------------- MODULE PeerProofs ---------------------------
(***************************************************************************)
(* Theorems about the peer, for every set of ports and any number of       *)
(* calls, failures and changes of the settings: about PeerService by       *)
(* itself, where a connection is one step, and about PeerProtocol, where   *)
(* its handler and the clients take their steps.                           *)
(***************************************************************************)
EXTENDS PeerProtocol, TLAPS

-----------------------------------------------------------------------------
(* PeerService.                                                            *)

\* Before the window is shown there is no service, no thread and no socket.
LEMMA InitSocketInv == Init => SocketInv
<1> SUFFICES ASSUME Init
             PROVE  SocketInv
  OBVIOUS
<1>1. applies \in 0 .. MaxApplies /\ failures \in 0 .. MaxFailures
  BY PeerAssumption DEF Init
<1>2. TypeOK
  BY <1>1, Zenon DEF Init, TypeOK, WorkerStates, Stopping, NoFd
<1>3. FdNamesSocket
  BY Zenon DEF Init, FdNamesSocket
<1>4. gui \notin Stopping
  BY DEF Init, Stopping
<1>5. StopProceeds
  BY <1>4 DEF StopProceeds, Stopping
<1>6. ThreadOwned
  BY Zenon DEF Init, ThreadOwned
<1> QED
  BY <1>2, <1>3, <1>5, <1>6 DEF SocketInv

\* The GUI thread keeps the invariant: it starts a service only when no thread
\* is left, and lets go of one only when its thread was joined.
LEMMA GuiKeepsSocketInv ==
  ASSUME SocketInv,
         (\E on \in BOOLEAN, p \in Ports : ApplySettings(on, p))
           \/ CloseWindow \/ GuiStep
  PROVE  SocketInv'
<1> USE PeerAssumption
    DEF SocketInv, TypeOK, Alive, WorkerStates, Stopping, FdNamesSocket,
        StopProceeds, ThreadOwned, Fd, NoFd, window, service, socket
<1>1. ASSUME NEW on \in BOOLEAN, NEW p \in Ports, ApplySettings(on, p)
      PROVE  SocketInv'
  BY <1>1 DEF ApplySettings
<1>2. CASE CloseWindow
  BY <1>2 DEF CloseWindow
<1>3. CASE StartEmbeddedPeerIfEnabled
  <2>1. TypeOK'
    <3>1. /\ gui' \in {"idle", "terminated"}
          /\ thread' \in {thread, "joinable"}
          /\ running' \in BOOLEAN
          /\ listenFd' \in {NoFd, Fd}
          /\ own' \in Ports \cup {NoPort}
      BY <1>3 DEF StartEmbeddedPeerIfEnabled
    <3>2. \/ UNCHANGED <<thread, worker>>
          \/ thread' = "joinable" /\ worker' = "init"
      BY <1>3 DEF StartEmbeddedPeerIfEnabled
    <3>3. failures' \in 0 .. MaxFailures
      BY <1>3 DEF StartEmbeddedPeerIfEnabled, Fail
    <3>4. gui # "terminated" /\ UNCHANGED <<window, after, socket, applies>>
      BY <1>3 DEF StartEmbeddedPeerIfEnabled
    <3> QED
      BY <3>1, <3>2, <3>3, <3>4
  <2>2. FdNamesSocket'
    BY <1>3 DEF StartEmbeddedPeerIfEnabled, Fail
  <2>3. StopProceeds'
    BY <1>3 DEF StartEmbeddedPeerIfEnabled, Fail
  <2>4. ThreadOwned'
    BY <1>3 DEF StartEmbeddedPeerIfEnabled, Fail
  <2> QED
    BY <2>1, <2>2, <2>3, <2>4
<1>4. CASE StopBegin
  <2>1. TypeOK'
    <3>1. gui' \in {"stop_fd", "reset"} /\ running' \in BOOLEAN
      BY <1>4, Zenon DEF StopBegin
    <3> QED
      BY <1>4, <3>1 DEF StopBegin
  <2>2. FdNamesSocket'
    BY <1>4 DEF StopBegin
  <2>3. StopProceeds'
    BY <1>4 DEF StopBegin
  <2>4. ThreadOwned'
    BY <1>4 DEF StopBegin
  <2> QED
    BY <2>1, <2>2, <2>3, <2>4
<1>5. CASE StopTestFd
  BY <1>5 DEF StopTestFd
<1>6. CASE StopShutdown
  BY <1>6 DEF StopShutdown, Shutdown
<1>7. CASE StopClose
  BY <1>7 DEF StopClose
<1>8. CASE StopClearFd
  BY <1>8 DEF StopClearFd
<1>9. CASE StopJoin
  BY <1>9 DEF StopJoin
<1>10. CASE Reset
  BY <1>10 DEF Reset
<1> HIDE DEF SocketInv
<1> QED
  BY <1>1, <1>2, <1>3, <1>4, <1>5, <1>6, <1>7, <1>8, <1>9, <1>10, Zenon
  DEF GuiStep

\* The worker keeps the invariant: it never leaves a socket behind that stop()
\* does not close.
LEMMA WorkerKeepsSocketInv ==
  ASSUME SocketInv, Alive, WorkerStep \/ Connection
  PROVE  SocketInv'
<1> USE PeerAssumption
    DEF SocketInv, TypeOK, Alive, WorkerStates, Stopping, FdNamesSocket,
        StopProceeds, ThreadOwned, Fd, NoFd, window, service, socket, WorkerOnly
<1>1. CASE OpenSocket
  <2>1. TypeOK'
    <3>1. failures' \in 0 .. MaxFailures /\ UNCHANGED <<running, listenFd>>
      BY <1>1 DEF OpenSocket, Throw, Fail
    <3>2. /\ worker' \in {"publish", "throw"}
          /\ sock' \in {sock, "open"}
          /\ sockPort' \in {sockPort, NoPort}
          /\ woken' \in BOOLEAN
      BY <1>1, Zenon DEF OpenSocket, Throw
    <3> QED
      BY <1>1, <3>1, <3>2 DEF OpenSocket
  <2>2. FdNamesSocket'
    BY <1>1 DEF OpenSocket, Throw, Fail
  <2>3. StopProceeds'
    BY <1>1 DEF OpenSocket, Throw, Fail
  <2>4. ThreadOwned'
    BY <1>1 DEF OpenSocket, Throw, Fail
  <2> QED
    BY <2>1, <2>2, <2>3, <2>4
<1>2. CASE PublishFd
  BY <1>2 DEF PublishFd
<1>3. CASE Bind
  BY <1>3 DEF Bind, Fail
<1>4. CASE Listen
  BY <1>4 DEF Listen, Fail
<1>5. CASE GiveUp
  BY <1>5 DEF GiveUp, Close
<1>6. CASE Loop \/ Accept \/ AcceptFails \/ Retry \/ Connection
  BY <1>6 DEF Loop, Accept, AcceptFails, Retry, Connection
<1>7. CASE Serve
  BY <1>7 DEF Serve, Throw, Fail
<1>8. CASE Cleanup
  <2>1. TypeOK'
    <3>1. /\ worker' \in {"cleanup_clear", "exit"}
          /\ sock' \in {sock, "closed"}
          /\ sockPort' \in {sockPort, NoPort}
          /\ woken' \in BOOLEAN
      BY <1>8, Zenon DEF Cleanup, Close
    <3>2. thread # "none"
      BY <1>8 DEF Cleanup
    <3>3. UNCHANGED <<window, gui, after, thread, own, applies, running,
                      listenFd, failures>>
      BY <1>8, Zenon DEF Cleanup
    <3> QED
      BY <3>1, <3>2, <3>3
  <2>2. FdNamesSocket'
    BY <1>8 DEF Cleanup, Close
  <2>3. StopProceeds'
    BY <1>8 DEF Cleanup, Close
  <2>4. ThreadOwned'
    BY <1>8 DEF Cleanup, Close
  <2> QED
    BY <2>1, <2>2, <2>3, <2>4
<1>9. CASE CleanupClearFd \/ Exit \/ Catch
  <2>1. TypeOK'
    <3>1. worker' \in {"exit", "finished"} /\ running' \in BOOLEAN
      BY <1>9, Zenon DEF CleanupClearFd, Exit, Catch
    <3>2. listenFd' \in {NoFd, Fd}
      BY <1>9, Zenon DEF CleanupClearFd, Exit, Catch
    <3>3. thread # "none"
      BY <1>9 DEF CleanupClearFd, Exit, Catch
    <3>4. UNCHANGED <<window, gui, after, thread, own, applies, socket,
                      failures>>
      BY <1>9, Zenon DEF CleanupClearFd, Exit, Catch
    <3> QED
      BY <3>1, <3>2, <3>3, <3>4
  <2>2. FdNamesSocket'
    BY <1>9 DEF CleanupClearFd, Exit, Catch
  <2>3. StopProceeds'
    BY <1>9 DEF CleanupClearFd, Exit, Catch
  <2>4. ThreadOwned'
    BY <1>9 DEF CleanupClearFd, Exit, Catch
  <2> QED
    BY <2>1, <2>2, <2>3, <2>4
<1> HIDE DEF SocketInv
<1> QED
  BY <1>1, <1>2, <1>3, <1>4, <1>5, <1>6, <1>7, <1>8, <1>9, Zenon
  DEF WorkerStep

\* Before the window is shown the rest of IInv holds for want of a thread.
LEMMA InitIInv == Init => IInv
<1> SUFFICES ASSUME Init
             PROVE  IInv
  OBVIOUS
<1>1. SocketInv
  BY InitSocketInv
<1> QED
  BY <1>1, Zenon
  DEF Init, IInv, EndsByItself, OnItsPort, TerminatesOnlyAfterFailure

\* The GUI thread tells a worker to end before it waits for it, and starts a
\* service, on the port of the settings, only after it let go of the last one.
LEMMA GuiKeepsIInv ==
  ASSUME IInv,
         (\E on \in BOOLEAN, p \in Ports : ApplySettings(on, p))
           \/ CloseWindow \/ GuiStep
  PROVE  IInv'
<1> SocketInv'
  BY GuiKeepsSocketInv DEF IInv
<1> USE PeerAssumption
    DEF IInv, SocketInv, TypeOK, Alive, WorkerStates, Stopping, Told,
        FdNamesSocket, StopProceeds, ThreadOwned, EndsByItself, OnItsPort,
        TerminatesOnlyAfterFailure, Fd, NoFd, window, service, socket
<1>1. ASSUME NEW on \in BOOLEAN, NEW p \in Ports, ApplySettings(on, p)
      PROVE  IInv'
  BY <1>1 DEF ApplySettings
<1>2. CASE CloseWindow
  BY <1>2 DEF CloseWindow
<1>3. CASE StartEmbeddedPeerIfEnabled
  <2>1. EndsByItself'
    BY <1>3 DEF StartEmbeddedPeerIfEnabled, Fail
  <2>2. OnItsPort'
    BY <1>3 DEF StartEmbeddedPeerIfEnabled, Fail
  <2>3. TerminatesOnlyAfterFailure'
    BY <1>3 DEF StartEmbeddedPeerIfEnabled, Fail
  <2> QED
    BY <2>1, <2>2, <2>3
<1>4. CASE StopBegin
  <2>1. EndsByItself'
    BY <1>4 DEF StopBegin
  <2>2. OnItsPort'
    BY <1>4 DEF StopBegin
  <2>3. TerminatesOnlyAfterFailure'
    BY <1>4 DEF StopBegin
  <2> QED
    BY <2>1, <2>2, <2>3
<1>5. CASE StopTestFd \/ StopShutdown \/ StopClose \/ StopClearFd
  <2>1. EndsByItself'
    BY <1>5 DEF StopTestFd, StopShutdown, StopClose, StopClearFd, Shutdown
  <2>2. OnItsPort'
    BY <1>5 DEF StopTestFd, StopShutdown, StopClose, StopClearFd, Shutdown
  <2>3. TerminatesOnlyAfterFailure'
    BY <1>5 DEF StopTestFd, StopShutdown, StopClose, StopClearFd, Shutdown
  <2> QED
    BY <2>1, <2>2, <2>3
<1>6. CASE StopJoin
  BY <1>6 DEF StopJoin
<1>7. CASE Reset
  BY <1>7 DEF Reset
<1> HIDE DEF IInv
<1> QED
  BY <1>1, <1>2, <1>3, <1>4, <1>5, <1>6, <1>7, Zenon DEF GuiStep

\* A worker that was not told to end goes on until something fails.
LEMMA WorkerKeepsIInv ==
  ASSUME IInv, Alive, WorkerStep \/ Connection
  PROVE  IInv'
<1> SocketInv'
  BY WorkerKeepsSocketInv DEF IInv
<1> USE PeerAssumption
    DEF IInv, SocketInv, TypeOK, Alive, WorkerStates, Stopping, Told,
        FdNamesSocket, StopProceeds, ThreadOwned, EndsByItself, OnItsPort,
        TerminatesOnlyAfterFailure, Fd, NoFd, window, service, socket,
        WorkerOnly
<1>1. CASE OpenSocket
  BY <1>1 DEF OpenSocket, Throw, Fail
<1>2. CASE PublishFd
  BY <1>2 DEF PublishFd
<1>3. CASE Bind
  BY <1>3 DEF Bind, Fail
<1>4. CASE Listen
  BY <1>4 DEF Listen, Fail
<1>5. CASE GiveUp
  BY <1>5 DEF GiveUp, Close
<1>6. CASE Loop \/ Accept \/ AcceptFails \/ Retry \/ Connection
  BY <1>6 DEF Loop, Accept, AcceptFails, Retry, Connection
<1>7. CASE Serve
  BY <1>7 DEF Serve, Throw, Fail
<1>8. CASE Cleanup
  BY <1>8 DEF Cleanup, Close
<1>9. CASE CleanupClearFd \/ Exit \/ Catch
  BY <1>9 DEF CleanupClearFd, Exit, Catch
<1> HIDE DEF IInv
<1> QED
  BY <1>1, <1>2, <1>3, <1>4, <1>5, <1>6, <1>7, <1>8, <1>9, Zenon
  DEF WorkerStep

\* IInv is an invariant of both threads, whatever fails.
THEOREM Invariance == Spec => []IInv
<1>1. IInv /\ UNCHANGED vars => IInv'
  BY DEF IInv, SocketInv, TypeOK, Alive, WorkerStates, Stopping, Told,
         FdNamesSocket, StopProceeds, ThreadOwned, EndsByItself, OnItsPort,
         TerminatesOnlyAfterFailure, vars
<1>2. IInv /\ [Next]_vars => IInv'
  BY <1>1, GuiKeepsIInv, WorkerKeepsIInv DEF Next
<1> QED
  BY <1>2, InitIInv, PTL DEF Spec

\* Type correctness; in particular no worker thread outlives the PeerService
\* whose members it uses.
THEOREM TypeCorrect == Spec => []TypeOK
<1>1. IInv => TypeOK
  BY DEF IInv, SocketInv
<1> QED
  BY <1>1, Invariance, PTL

\* When stop() has joined the worker, the worker has ended and the port is free.
THEOREM StopFreesPort == Spec => []StopReleases
<1>1. IInv => StopReleases
  BY DEF IInv, SocketInv, TypeOK, StopReleases, ThreadOwned, Alive
<1> QED
  BY <1>1, Invariance, PTL

\* Applying settings or closing the window ends the program by std::terminate
\* only if the peer's thread had ended by itself after a failure.
THEOREM TerminationExplained == Spec => []TerminatesOnlyAfterFailure
<1>1. IInv => TerminatesOnlyAfterFailure
  BY DEF IInv
<1> QED
  BY <1>1, Invariance, PTL

-----------------------------------------------------------------------------
(* The refinement of EmbeddedPeer.                                         *)

\* A step of the GUI thread is a step of EmbeddedPeer, or hidden from it.
LEMMA GuiRefines ==
  ASSUME IInv, IInv',
         (\E on \in BOOLEAN, p \in Ports : ApplySettings(on, p))
           \/ CloseWindow \/ GuiStep
  PROVE  Embedded!Next \/ UNCHANGED Embedded!vars
<1> USE PeerAssumption
    DEF IInv, SocketInv, TypeOK, Alive, Stopping, Told, StopProceeds,
        ThreadOwned, OnItsPort, window, service, socket, Embedded!vars,
        Embedded!Busy
<1>1. ASSUME NEW on \in BOOLEAN, NEW p \in Ports, ApplySettings(on, p)
      PROVE  Embedded!ApplySettings(on, p)
  BY <1>1 DEF ApplySettings, Embedded!ApplySettings
<1>2. CASE CloseWindow
  <2>1. Embedded!CloseWindow
    BY <1>2 DEF CloseWindow, Embedded!CloseWindow
  <2> QED
    BY <2>1 DEF Embedded!Next
<1>3. CASE StartEmbeddedPeerIfEnabled
  <2>1. Embedded!Settle \/ Embedded!Terminate
    BY <1>3 DEF StartEmbeddedPeerIfEnabled, Embedded!Settle,
                Embedded!Terminate
  <2> QED
    BY <2>1 DEF Embedded!Next, Embedded!PeerNext
<1>4. CASE StopBegin
  <2>1. Embedded!Die \/ UNCHANGED Embedded!vars
    BY <1>4 DEF StopBegin, Embedded!Die
  <2> QED
    BY <2>1 DEF Embedded!Next, Embedded!PeerNext
<1>5. CASE StopTestFd \/ StopShutdown \/ StopClearFd \/ StopJoin
  BY <1>5 DEF StopTestFd, StopShutdown, StopClearFd, StopJoin, Shutdown
<1>6. CASE StopClose
  <2>1. Embedded!Unlisten \/ UNCHANGED Embedded!vars
    BY <1>6 DEF StopClose, Embedded!Unlisten
  <2> QED
    BY <2>1 DEF Embedded!Next, Embedded!PeerNext
<1>7. CASE Reset
  <2>1. Embedded!Leave \/ Embedded!Terminate \/ UNCHANGED Embedded!vars
    BY <1>7 DEF Reset, Embedded!Leave, Embedded!Terminate
  <2> QED
    BY <2>1 DEF Embedded!Next, Embedded!PeerNext
<1> QED
  BY <1>1, <1>2, <1>3, <1>4, <1>5, <1>6, <1>7
  DEF GuiStep, Embedded!Next

\* So is a step of the worker: it comes to listen only on the port of the
\* settings while the window is idle, and gives a port up only if told to.
LEMMA WorkerRefines ==
  ASSUME IInv, IInv', Alive, WorkerStep \/ Connection
  PROVE  Embedded!Next \/ UNCHANGED Embedded!vars
<1> USE PeerAssumption
    DEF IInv, SocketInv, TypeOK, Alive, Stopping, Told, FdNamesSocket,
        StopProceeds, ThreadOwned, EndsByItself, OnItsPort, window, service,
        socket, WorkerOnly, Embedded!vars, Embedded!Busy
<1>1. CASE OpenSocket \/ PublishFd \/ Bind
  BY <1>1 DEF OpenSocket, PublishFd, Bind, Throw
<1>2. CASE Listen
  <2>1. Embedded!Listen \/ UNCHANGED Embedded!vars
    BY <1>2 DEF Listen, Embedded!Listen
  <2> QED
    BY <2>1 DEF Embedded!Next, Embedded!PeerNext
<1>3. CASE GiveUp \/ Exit \/ Catch
  <2>1. Embedded!Die \/ UNCHANGED Embedded!vars
    BY <1>3 DEF GiveUp, Exit, Catch, Close, Embedded!Die
  <2> QED
    BY <2>1 DEF Embedded!Next, Embedded!PeerNext
<1>4. CASE \/ Loop \/ Accept \/ AcceptFails \/ Retry \/ Connection
           \/ Serve \/ CleanupClearFd
  BY <1>4 DEF Loop, Accept, AcceptFails, Retry, Connection, Serve, Throw,
              CleanupClearFd
<1>5. CASE Cleanup
  <2>1. Embedded!Unlisten \/ UNCHANGED Embedded!vars
    BY <1>5 DEF Cleanup, Close, Embedded!Unlisten
  <2> QED
    BY <2>1 DEF Embedded!Next, Embedded!PeerNext
<1> QED
  BY <1>1, <1>2, <1>3, <1>4, <1>5 DEF WorkerStep

\* PeerService implements EmbeddedPeer: what MainWindow relies on holds of the
\* two threads, their flag and their descriptor at every moment.
THEOREM RefinesEmbeddedPeer == Spec => ImplementsEmbeddedPeer
<1>1. Init => Embedded!Init
  BY DEF Init, Embedded!Init, Stopping
<1>2. UNCHANGED vars => UNCHANGED Embedded!vars
  BY DEF vars, Embedded!vars
<1>3. IInv /\ IInv' /\ [Next]_vars => [Embedded!Next]_Embedded!vars
  BY <1>2, GuiRefines, WorkerRefines DEF Next
<1> QED
  BY <1>1, <1>3, Invariance, PTL DEF Spec, ImplementsEmbeddedPeer,
     Embedded!Spec

-----------------------------------------------------------------------------
(* Calls.                                                                  *)

Seens   == {"nothing", "absent", "whole", "torn", "listed", "written"}
Answers == {"none", "OK", "ERR", "payload"}
Results == {"none", "ok", "failed", "yes", "no", "whole", "torn"}

CallType == [req : Requests, seen : Seens, answer : Answers, result : Results]

\* Changing one element of a sequence.
LEMMA UpdateFacts ==
  ASSUME NEW T, NEW s \in Seq(T), NEW k \in DOMAIN s, NEW r \in T
  PROVE  /\ [s EXCEPT ![k] = r] \in Seq(T)
         /\ Len([s EXCEPT ![k] = r]) = Len(s)
         /\ DOMAIN [s EXCEPT ![k] = r] = DOMAIN s
         /\ [s EXCEPT ![k] = r][k] = r
         /\ \A i \in DOMAIN s : i # k => [s EXCEPT ![k] = r][i] = s[i]
OBVIOUS

LEMMA CallFacts ==
  ASSUME ProtocolTypeOK
  PROVE  /\ calls \in Seq(CallType)
         /\ Len(calls) \in Nat /\ DOMAIN calls = 1 .. Len(calls)
         /\ \A k \in DOMAIN calls : calls[k] \in CallType
         /\ Len(backlog) \in Nat /\ DOMAIN backlog = 1 .. Len(backlog)
         /\ \A i \in DOMAIN backlog : backlog[i] \in DOMAIN calls
         /\ serving \in Nat
         /\ worker = "serve" => serving \in DOMAIN calls
<1>1. calls \in Seq(CallType)
  BY DEF ProtocolTypeOK, CallType, Seens, Answers, Results
<1>2. /\ Len(calls) \in Nat /\ DOMAIN calls = 1 .. Len(calls)
      /\ \A k \in DOMAIN calls : calls[k] \in CallType
  BY <1>1
<1>3. backlog \in Seq(DOMAIN calls)
  BY DEF ProtocolTypeOK
<1>4. /\ Len(backlog) \in Nat /\ DOMAIN backlog = 1 .. Len(backlog)
      /\ \A i \in DOMAIN backlog : backlog[i] \in DOMAIN calls
  BY <1>3
<1>5. serving \in {NoCall} \cup DOMAIN calls /\ (worker = "serve" <=> serving # NoCall)
  BY DEF ProtocolTypeOK
<1>6. serving \in Nat
  BY <1>2, <1>5 DEF NoCall
<1> QED
  BY <1>1, <1>2, <1>4, <1>5, <1>6

\* A call gets another record with the same request.
Replaced(k, r) ==
  /\ calls' \in Seq(CallType)
  /\ Len(calls') = Len(calls)
  /\ DOMAIN calls' = DOMAIN calls
  /\ calls'[k] = r
  /\ r \in CallType
  /\ r.req = calls[k].req
  /\ \A i \in DOMAIN calls : i # k => calls'[i] = calls[i]

\* What a handler's answer does to the calls.
LEMMA AnswerFacts ==
  ASSUME ProtocolTypeOK, serving \in DOMAIN calls, NEW seen \in Seens,
         NEW answer \in Answers, Answer(seen, answer)
  PROVE  \E r \in CallType :
           /\ Replaced(serving, r)
           /\ r.seen = seen
           /\ r.result = calls[serving].result
           /\ r.answer = answer \/ r.answer = calls[serving].answer
<1>1. calls \in Seq(CallType) /\ calls[serving] \in CallType
  BY CallFacts
<1>2. PICK a : a = IF Open(serving) THEN answer ELSE calls[serving].answer
  OBVIOUS
<1>3. PICK r : r = [calls[serving] EXCEPT !.seen = seen, !.answer = a]
  OBVIOUS
<1>4. a \in Answers /\ (a = answer \/ a = calls[serving].answer)
  BY <1>1, <1>2 DEF CallType
<1>5. /\ r \in CallType /\ r.seen = seen /\ r.answer = a
      /\ r.result = calls[serving].result /\ r.req = calls[serving].req
  BY <1>1, <1>3, <1>4 DEF CallType
<1>6. calls' = [calls EXCEPT ![serving] = r]
  BY <1>1, <1>2, <1>3 DEF Answer, CallType
<1>7. Replaced(serving, r)
  BY <1>1, <1>5, <1>6, UpdateFacts DEF Replaced
<1> QED
  BY <1>4, <1>5, <1>7

\* What the end of a call does to it.
LEMMA EndFacts ==
  ASSUME ProtocolTypeOK, NEW k \in DOMAIN calls, NEW res \in Results, Ends(k, res)
  PROVE  \E r \in CallType :
           /\ Replaced(k, r)
           /\ r.seen = calls[k].seen
           /\ r.result = res
           /\ r.answer = "none"
<1>1. calls \in Seq(CallType) /\ calls[k] \in CallType
  BY CallFacts
<1>3. PICK r : r = [calls[k] EXCEPT !.result = res, !.answer = "none"]
  OBVIOUS
<1>5. /\ r \in CallType /\ r.seen = calls[k].seen /\ r.answer = "none"
      /\ r.result = res /\ r.req = calls[k].req
  BY <1>1, <1>3 DEF CallType, Answers
<1>6. calls' = [calls EXCEPT ![k] = r]
  BY <1>1, <1>3 DEF Ends, CallType
<1>7. Replaced(k, r)
  BY <1>1, <1>5, <1>6, UpdateFacts DEF Replaced
<1> QED
  BY <1>5, <1>7

-----------------------------------------------------------------------------
(* The connections.                                                        *)

WireInv == ProtocolTypeOK /\ ServedInOrder /\ HandlerKnows /\ AnswersTruthful

\* Where only the backlog and the state of the handler may change.
LEMMA QuietStep ==
  ASSUME WireInv, UNCHANGED <<disk, calls>>,
         listed' = listed \/ listed' \subseteq Objects \ Manifests,
         backlog' \in Seq(DOMAIN calls),
         serving' \in {NoCall} \cup DOMAIN calls,
         step' \in {"none", "line", "body", "payload", "close", "sigpipe"},
         arrived' \in 0 .. 2, lost' \subseteq DOMAIN calls,
         worker' = "serve" <=> serving' # NoCall,
         worker' = "serve" <=> step' # "none",
         ServedInOrder', HandlerKnows'
  PROVE  WireInv'
<1>1. ProtocolTypeOK'
  BY DEF WireInv, ProtocolTypeOK
<1>2. AnswersTruthful'
  BY DEF WireInv, AnswersTruthful
<1> QED
  BY <1>1, <1>2 DEF WireInv

\* A handler answers, having acted at most now.
LEMMA AnsweringStep ==
  ASSUME WireInv, worker = "serve", UNCHANGED <<worker, backlog, serving, lost, arrived>>,
         disk' \in [Objects -> {"absent", "whole", "torn"}],
         listed' = listed \/ listed' \subseteq Objects \ Manifests,
         NEW seen \in Seens, NEW answer \in Answers, Answer(seen, answer),
         seen = calls[serving].seen \/ calls[serving].seen = "nothing",
         answer = "OK" => seen \in Justifies(calls[serving].req.op),
         answer = "payload" => seen \in Written,
         step' \in {"payload", "close", "sigpipe"},
         step' = "payload" => calls[serving].req.op = "get" /\ seen \in Written
  PROVE  WireInv'
<1>1. /\ serving \in DOMAIN calls /\ serving \in Nat
      /\ Len(calls) \in Nat /\ DOMAIN calls = 1 .. Len(calls)
      /\ \A i \in DOMAIN backlog : backlog[i] \in Nat
  BY CallFacts DEF WireInv
<1>2. PICK r \in CallType :
        /\ Replaced(serving, r)
        /\ r.seen = seen
        /\ r.result = calls[serving].result
        /\ r.answer = answer \/ r.answer = calls[serving].answer
  BY <1>1, AnswerFacts DEF WireInv
<1>3. /\ calls' \in Seq(CallType) /\ DOMAIN calls' = DOMAIN calls
      /\ calls'[serving] = r /\ r.req = calls[serving].req
      /\ \A k \in DOMAIN calls : k # serving => calls'[k] = calls[k]
  BY <1>2 DEF Replaced
<1>4. ProtocolTypeOK'
  <2>1. calls' \in Seq([req : Requests,
                    seen : {"nothing", "absent", "whole", "torn", "listed", "written"},
                    answer : {"none", "OK", "ERR", "payload"},
                    result : {"none", "ok", "failed", "yes", "no", "whole", "torn"}])
    BY <1>3 DEF CallType, Seens, Answers, Results
  <2> QED
    BY <1>3, <2>1 DEF WireInv, ProtocolTypeOK
<1>5. ServedInOrder'
  <2>1. /\ \A i \in DOMAIN backlog :
             /\ serving < backlog[i]
             /\ \A j \in DOMAIN backlog : i < j => backlog[i] < backlog[j]
             /\ \A k \in DOMAIN calls : k >= backlog[i] => calls[k].seen = "nothing"
        /\ serving # NoCall =>
             \A k \in DOMAIN calls : k > serving => calls[k].seen = "nothing"
    BY DEF WireInv, ServedInOrder
  <2>2. \A i \in DOMAIN backlog :
          \A k \in DOMAIN calls : k >= backlog[i] => k # serving
    BY <1>1, <2>1
  <2>3. \A k \in DOMAIN calls : k > serving => k # serving
    BY <1>1
  <2> QED
    BY <1>3, <2>1, <2>2, <2>3 DEF ServedInOrder
<1>6. HandlerKnows'
  BY <1>2, <1>3 DEF HandlerKnows
<1>7. AnswersTruthful'
  <2> SUFFICES ASSUME NEW k \in DOMAIN calls
               PROVE  /\ calls'[k].answer = "OK" =>
                           calls'[k].seen \in Justifies(calls'[k].req.op)
                      /\ calls'[k].answer = "payload" =>
                           calls'[k].seen \in Written
    BY <1>3 DEF AnswersTruthful
  <2>1. /\ calls[k].answer = "OK" =>
             calls[k].seen \in Justifies(calls[k].req.op)
        /\ calls[k].answer = "payload" => calls[k].seen \in Written
    BY DEF WireInv, AnswersTruthful
  <2>2. CASE k # serving
    BY <1>3, <2>1, <2>2
  <2>3. CASE k = serving
    <3>1. CASE r.answer = answer
      BY <1>2, <1>3, <2>3, <3>1
    <3>2. CASE r.answer = calls[serving].answer
      <4>1. calls[serving].req \in Requests
        BY <1>1, CallFacts DEF WireInv, CallType
      <4>2. calls[serving].req.op \in {"put", "get", "has"}
        BY <4>1, ProtocolAssumption
      <4>3. "nothing" \notin Justifies(calls[serving].req.op) /\ "nothing" \notin Written
        BY <4>2 DEF Justifies, Written
      <4> QED
        BY <1>2, <1>3, <2>1, <2>3, <3>2, <4>3
    <3> QED
      BY <1>2, <3>1, <3>2
  <2> QED
    BY <2>2, <2>3
<1> QED
  BY <1>4, <1>5, <1>6, <1>7 DEF WireInv

\* A client gets its result, or gives up.
LEMMA EndingStep ==
  ASSUME WireInv, NEW k \in DOMAIN calls, NEW res \in Results, Ends(k, res),
         UNCHANGED <<vars, disk, listed, backlog, serving, step, arrived, lost>>
  PROVE  WireInv'
<1>1. PICK r \in CallType :
        /\ Replaced(k, r)
        /\ r.seen = calls[k].seen
        /\ r.result = res
        /\ r.answer = "none"
  BY EndFacts DEF WireInv
<1>2. /\ calls' \in Seq(CallType) /\ DOMAIN calls' = DOMAIN calls
      /\ calls'[k] = r /\ r.req = calls[k].req
      /\ \A i \in DOMAIN calls : i # k => calls'[i] = calls[i]
  BY <1>1 DEF Replaced
<1>3. \A i \in DOMAIN calls : /\ calls'[i].seen = calls[i].seen
                              /\ calls'[i].req = calls[i].req
                              /\ calls'[i].answer \in {calls[i].answer, "none"}
  BY <1>1, <1>2
<1>4. ProtocolTypeOK'
  <2>1. calls' \in Seq([req : Requests,
                    seen : {"nothing", "absent", "whole", "torn", "listed", "written"},
                    answer : {"none", "OK", "ERR", "payload"},
                    result : {"none", "ok", "failed", "yes", "no", "whole", "torn"}])
    BY <1>2 DEF CallType, Seens, Answers, Results
  <2> QED
    BY <1>2, <2>1 DEF WireInv, ProtocolTypeOK, vars
<1>5. ServedInOrder'
  BY <1>2, <1>3 DEF WireInv, ServedInOrder
<1>6. HandlerKnows'
  <2>1. step # "none" => serving \in DOMAIN calls
    BY CallFacts DEF WireInv, ProtocolTypeOK
  <2> QED
    BY <1>2, <1>3, <2>1 DEF WireInv, HandlerKnows
<1>7. AnswersTruthful'
  BY <1>2, <1>3 DEF WireInv, AnswersTruthful
<1> QED
  BY <1>4, <1>5, <1>6, <1>7 DEF WireInv

\* A client connects: it is the last to be served.
LEMMA CallingStep ==
  ASSUME WireInv, NEW q \in Requests, Call(q)
  PROVE  WireInv'
<1> DEFINE n == Len(calls)
           m == Len(backlog)
           c == [req |-> q, seen |-> "nothing", answer |-> "none", result |-> "none"]
<1>1. /\ calls \in Seq(CallType) /\ n \in Nat /\ DOMAIN calls = 1 .. n
      /\ \A k \in DOMAIN calls : calls[k] \in CallType
      /\ m \in Nat /\ DOMAIN backlog = 1 .. m
      /\ \A i \in DOMAIN backlog : backlog[i] \in DOMAIN calls
      /\ serving \in Nat
      /\ worker = "serve" => serving \in DOMAIN calls
  BY CallFacts DEF WireInv
<1>2. c \in CallType
  BY DEF CallType, Seens, Answers, Results
<1>3. /\ calls' = Append(calls, c) /\ backlog' = Append(backlog, Len(calls'))
      /\ UNCHANGED <<worker, disk, listed, serving, step, arrived, lost>>
  BY DEF Call, vars
<1>4. /\ calls' \in Seq(CallType) /\ Len(calls') = n + 1
      /\ DOMAIN calls' = 1 .. n + 1
      /\ \A k \in 1 .. n : calls'[k] = calls[k]
      /\ calls'[n + 1] = c
  BY <1>1, <1>2, <1>3
<1>5. /\ backlog' \in Seq(1 .. n + 1) /\ DOMAIN backlog' = 1 .. m + 1
      /\ \A i \in 1 .. m : backlog'[i] = backlog[i]
      /\ backlog'[m + 1] = n + 1
  <2>1. backlog \in Seq(1 .. n)
    BY <1>1 DEF WireInv, ProtocolTypeOK
  <2>2. backlog \in Seq(1 .. n + 1)
    <3>1. backlog = [i \in 1 .. m |-> backlog[i]]
      BY <2>1
    <3>2. \A i \in 1 .. m : backlog[i] \in 1 .. n + 1
      BY <1>1
    <3> QED
      BY <1>1, <3>1, <3>2
  <2>3. backlog' = Append(backlog, n + 1) /\ n + 1 \in 1 .. n + 1
    BY <1>1, <1>3, <1>4
  <2> QED
    BY <1>1, <2>2, <2>3
<1>6. c.seen = "nothing" /\ c.answer = "none"
  OBVIOUS
<1> HIDE DEF n, m, c
<1>7. ProtocolTypeOK'
  <2>1. calls' \in Seq([req : Requests,
                    seen : {"nothing", "absent", "whole", "torn", "listed", "written"},
                    answer : {"none", "OK", "ERR", "payload"},
                    result : {"none", "ok", "failed", "yes", "no", "whole", "torn"}])
    BY <1>4 DEF CallType, Seens, Answers, Results
  <2>2. /\ serving' \in {NoCall} \cup DOMAIN calls' /\ lost' \subseteq DOMAIN calls'
        /\ backlog' \in Seq(DOMAIN calls')
    <3>1. serving \in {NoCall} \cup DOMAIN calls /\ lost \subseteq DOMAIN calls
      BY DEF WireInv, ProtocolTypeOK
    <3>2. DOMAIN calls \subseteq DOMAIN calls'
      BY <1>1, <1>4
    <3> QED
      BY <1>3, <1>4, <1>5, <3>1, <3>2
  <2> QED
    BY <1>3, <2>1, <2>2 DEF WireInv, ProtocolTypeOK
<1>8. \A k \in DOMAIN calls' : \/ k \in DOMAIN calls /\ calls'[k] = calls[k]
                               \/ k = n + 1 /\ calls'[k] = c
  BY <1>1, <1>4
<1>9. \A i \in DOMAIN backlog' : \/ i \in DOMAIN backlog /\ backlog'[i] = backlog[i]
                                 \/ i = m + 1 /\ backlog'[i] = n + 1
  BY <1>1, <1>5
<1>10. ServedInOrder'
  <2>1. /\ \A i \in DOMAIN backlog :
             /\ serving < backlog[i]
             /\ \A j \in DOMAIN backlog : i < j => backlog[i] < backlog[j]
             /\ \A k \in DOMAIN calls : k >= backlog[i] => calls[k].seen = "nothing"
        /\ serving # NoCall =>
             \A k \in DOMAIN calls : k > serving => calls[k].seen = "nothing"
    BY DEF WireInv, ServedInOrder
  <2>2. serving # NoCall => serving \in DOMAIN calls
    BY DEF WireInv, ProtocolTypeOK
  <2>3. serving < n + 1
    BY <1>1, <2>2 DEF NoCall
  <2>4. ASSUME NEW i \in DOMAIN backlog'
        PROVE  /\ serving < backlog'[i]
               /\ \A j \in DOMAIN backlog' : i < j => backlog'[i] < backlog'[j]
               /\ \A k \in DOMAIN calls' : k >= backlog'[i] => calls'[k].seen = "nothing"
    <3>1. serving < backlog'[i]
      BY <1>9, <2>1, <2>3
    <3>2. ASSUME NEW j \in DOMAIN backlog', i < j
          PROVE  backlog'[i] < backlog'[j]
      <4>1. i \in DOMAIN backlog /\ backlog'[i] = backlog[i]
        BY <1>1, <1>5, <1>9, <3>2
      <4>2. backlog[i] < n + 1
        BY <1>1, <4>1
      <4> QED
        BY <1>9, <2>1, <3>2, <4>1, <4>2
    <3>3. ASSUME NEW k \in DOMAIN calls', k >= backlog'[i]
          PROVE  calls'[k].seen = "nothing"
      <4>1. CASE k = n + 1 /\ calls'[k] = c
        BY <1>6, <4>1
      <4>2. CASE k \in DOMAIN calls /\ calls'[k] = calls[k]
        <5>1. k < n + 1
          BY <1>1, <4>2
        <5>2. i \in DOMAIN backlog /\ backlog'[i] = backlog[i]
          BY <1>1, <1>9, <3>3, <4>2, <5>1
        <5> QED
          BY <2>1, <3>3, <4>2, <5>2
      <4> QED
        BY <1>8, <4>1, <4>2
    <3> QED
      BY <3>1, <3>2, <3>3
  <2>5. ASSUME serving # NoCall, NEW k \in DOMAIN calls', k > serving
        PROVE  calls'[k].seen = "nothing"
    BY <1>6, <1>8, <2>1, <2>5
  <2> QED
    BY <1>3, <2>4, <2>5 DEF ServedInOrder
<1>11. HandlerKnows'
  <2>1. step # "none" => serving \in DOMAIN calls /\ calls'[serving] = calls[serving]
    BY <1>1, <1>4 DEF WireInv, ProtocolTypeOK
  <2> QED
    BY <1>3, <2>1 DEF WireInv, HandlerKnows
<1>12. AnswersTruthful'
  BY <1>6, <1>8 DEF WireInv, AnswersTruthful
<1> QED
  BY <1>7, <1>10, <1>11, <1>12 DEF WireInv

\* accept() takes the first connection of the backlog.
LEMMA AcceptingStep ==
  ASSUME WireInv, AcceptConnection
  PROVE  WireInv'
<1>1. /\ Len(calls) \in Nat /\ DOMAIN calls = 1 .. Len(calls)
      /\ Len(backlog) \in Nat /\ DOMAIN backlog = 1 .. Len(backlog)
      /\ \A i \in DOMAIN backlog : backlog[i] \in DOMAIN calls
      /\ backlog \in Seq(DOMAIN calls)
  BY CallFacts DEF WireInv, ProtocolTypeOK
<1>2. /\ worker = "blocked" /\ UNCHANGED <<disk, listed, calls, arrived, lost>>
      /\ \/ /\ worker' = "serve" /\ backlog # <<>> /\ serving' = Head(backlog)
            /\ backlog' = Tail(backlog) /\ step' = "line"
         \/ worker' = "retry" /\ UNCHANGED <<backlog, serving, step>>
  BY DEF AcceptConnection, Connection
<1>3. CASE worker' = "retry" /\ UNCHANGED <<backlog, serving, step>>
  BY <1>2, <1>3 DEF WireInv, ProtocolTypeOK, ServedInOrder, HandlerKnows,
                    AnswersTruthful
<1>4. CASE /\ worker' = "serve" /\ backlog # <<>> /\ serving' = Head(backlog)
           /\ backlog' = Tail(backlog) /\ step' = "line"
  <2>1. /\ serving' = backlog[1] /\ 1 \in DOMAIN backlog
        /\ backlog' \in Seq(DOMAIN calls)
        /\ DOMAIN backlog' = 1 .. Len(backlog) - 1
        /\ \A i \in 1 .. Len(backlog) - 1 : backlog'[i] = backlog[i + 1]
    BY <1>1, <1>4
  <2>2. serving' \in DOMAIN calls /\ serving' # NoCall
    BY <1>1, <2>1 DEF NoCall
  <2>3. \A i \in DOMAIN backlog :
          /\ \A j \in DOMAIN backlog : i < j => backlog[i] < backlog[j]
          /\ \A k \in DOMAIN calls : k >= backlog[i] => calls[k].seen = "nothing"
    BY DEF WireInv, ServedInOrder
  <2>4. \A i \in DOMAIN backlog' : /\ i + 1 \in DOMAIN backlog /\ 1 < i + 1
                                   /\ backlog'[i] = backlog[i + 1]
                                   /\ \A j \in DOMAIN backlog' : i < j => i + 1 < j + 1
    BY <1>1, <2>1, SMTT(30)
  <2>5. ServedInOrder'
    <3>1. \A k \in DOMAIN calls : k > serving' => k >= backlog[1]
      BY <1>1, <2>1
    <3>2. \A k \in DOMAIN calls : k > serving' => calls[k].seen = "nothing"
      BY <2>1, <2>3, <3>1
    <3>3. \A i \in DOMAIN backlog' :
            /\ serving' < backlog'[i]
            /\ \A j \in DOMAIN backlog' : i < j => backlog'[i] < backlog'[j]
            /\ \A k \in DOMAIN calls : k >= backlog'[i] => calls[k].seen = "nothing"
      BY <2>1, <2>3, <2>4
    <3> QED
      BY <1>2, <3>2, <3>3 DEF ServedInOrder
  <2>6. HandlerKnows'
    <3>1. serving' >= backlog[1]
      BY <1>1, <2>1
    <3>2. calls[serving'].seen = "nothing"
      BY <2>1, <2>2, <2>3, <3>1
    <3> QED
      BY <1>2, <1>4, <3>2 DEF HandlerKnows
  <2>7. arrived' \in 0 .. 2 /\ lost' \subseteq DOMAIN calls
    BY <1>2 DEF WireInv, ProtocolTypeOK
  <2> QED
    BY <1>2, <1>4, <2>1, <2>2, <2>5, <2>6, <2>7, QuietStep
<1> QED
  BY <1>2, <1>3, <1>4

\* The ledger that storage.init() reads lists chunks that were put.
LEMMA LedgerFacts ==
  ASSUME ProtocolTypeOK, InitStorage
  PROVE  listed' = listed \/ listed' \subseteq Objects \ Manifests
<1>1. \A k \in DOMAIN calls : calls[k].req.id \in Objects
  <2>1. \A k \in DOMAIN calls : calls[k].req \in Requests
    BY CallFacts DEF CallType
  <2> QED
    BY <2>1, ProtocolAssumption
<1> DEFINE put == {k \in DOMAIN calls : calls[k].seen = "written"}
           ids == {calls[k].req.id : k \in put} \ Manifests
<1>2. listed' \in SUBSET ids \/ listed' = {} \/ listed' = listed
  BY DEF InitStorage
<1>3. ids \subseteq Objects \ Manifests
  BY <1>1
<1> QED
  BY <1>2, <1>3

\* The threads do not touch what runLoop has accepted.
LEMMA ThreadsStep ==
  ASSUME WireInv, SocketInv, Process, UserStep \/ GuiStep \/ ThreadStep, Kernel
  PROVE  WireInv'
<1>1. /\ UNCHANGED <<disk, calls, serving, step, arrived, lost>>
      /\ backlog' = backlog \/ backlog' = <<>>
      /\ InitStorage
  BY DEF Kernel
<1>0. listed' = listed \/ listed' \subseteq Objects \ Manifests
  BY <1>1, LedgerFacts DEF WireInv
<1>2. worker' = "serve" <=> worker = "serve"
  <2>1. CASE UserStep
    BY <2>1 DEF UserStep, ApplySettings, CloseWindow
  <2>2. CASE ThreadStep
    BY <2>2 DEF ThreadStep, WorkerStep, OpenSocket, PublishFd, Bind, Listen,
       GiveUp, Loop, Accept, AcceptFails, Retry, Serve, Cleanup, CleanupClearFd,
       Exit, Catch, Throw
  <2>3. CASE GuiStep
    <3>1. worker' = worker \/ (worker' = "init" /\ thread = "none")
      BY <2>3 DEF GuiStep, StartEmbeddedPeerIfEnabled, StopBegin, StopTestFd,
         StopShutdown, StopClose, StopClearFd, StopJoin, Reset
    <3>2. thread = "none" => worker \in {"none", "finished"}
      BY DEF SocketInv, TypeOK, Process, Alive
    <3> QED
      BY <3>1, <3>2
  <2> QED
    BY <2>1, <2>2, <2>3
<1>3. ServedInOrder'
  BY <1>1 DEF WireInv, ServedInOrder
<1>4. HandlerKnows'
  BY <1>1 DEF WireInv, HandlerKnows
<1>5. backlog' \in Seq(DOMAIN calls)
  <2>1. backlog \in Seq(DOMAIN calls)
    BY DEF WireInv, ProtocolTypeOK
  <2>2. \A S : <<>> \in Seq(S)
    OBVIOUS
  <2> QED
    BY <1>1, <2>1, <2>2
<1>6. ProtocolTypeOK
  BY DEF WireInv
<1> QED
  BY <1>0, <1>1, <1>2, <1>3, <1>4, <1>5, <1>6, QuietStep DEF ProtocolTypeOK

\* The connection is closed or lost.
LEMMA FinishingStep ==
  ASSUME WireInv, FinishConnection
  PROVE  WireInv'
<1>1. /\ worker = "serve" /\ worker' \in {"loop", "throw"}
      /\ serving' = NoCall /\ step' = "none" /\ arrived' = 0
      /\ UNCHANGED <<disk, listed, calls, backlog>>
      /\ lost' = lost \/ lost' = lost \cup {serving}
  BY DEF FinishConnection, Serve, Throw
<1>2. serving \in DOMAIN calls /\ DOMAIN calls = 1 .. Len(calls)
      /\ \A i \in DOMAIN backlog : backlog[i] \in DOMAIN calls
  BY <1>1, CallFacts DEF WireInv
<1>3. ServedInOrder'
  <2>1. \A i \in DOMAIN backlog : NoCall < backlog[i]
    BY <1>2 DEF NoCall
  <2> QED
    BY <1>1, <2>1 DEF WireInv, ServedInOrder
<1>4. HandlerKnows'
  BY <1>1 DEF HandlerKnows
<1>5. backlog' \in Seq(DOMAIN calls) /\ lost' \subseteq DOMAIN calls
  BY <1>1, <1>2 DEF WireInv, ProtocolTypeOK
<1> QED
  BY <1>1, <1>3, <1>4, <1>5, QuietStep

\* The handler waits for its request, or gets a part of it.
LEMMA WaitingStep ==
  ASSUME WireInv, RecvLine \/ Arrive
  PROVE  WireInv'
<1>0. ProtocolTypeOK
  BY DEF WireInv
<1>1. CASE RecvLine
  <2>1. /\ worker = "serve" /\ step = "line"
        /\ UNCHANGED <<worker, disk, listed, calls, backlog, serving, arrived, lost>>
        /\ \/ step' = "body" /\ calls[serving].req.op = "put"
           \/ step' = "close"
    BY <1>1 DEF RecvLine, Asks, Handler, Inside, vars
  <2>2. ServedInOrder'
    BY <2>1 DEF WireInv, ServedInOrder
  <2>3. HandlerKnows'
    BY <2>1 DEF WireInv, HandlerKnows
  <2> QED
    BY <1>0, <2>1, <2>2, <2>3, QuietStep DEF ProtocolTypeOK
<1>2. CASE Arrive
  <2>1. /\ arrived < Parts(calls[serving].req) /\ arrived' = arrived + 1
        /\ UNCHANGED <<worker, disk, listed, calls, backlog, serving, step, lost>>
    BY <1>2 DEF Arrive, vars
  <2>2. arrived' \in 0 .. 2
    <3>1. Parts(calls[serving].req) \in {1, 2}
      BY DEF Parts
    <3> QED
      BY <1>0, <2>1, <3>1 DEF ProtocolTypeOK
  <2>3. ServedInOrder'
    BY <2>1 DEF WireInv, ServedInOrder
  <2>4. HandlerKnows'
    BY <2>1 DEF WireInv, HandlerKnows
  <2> QED
    BY <1>0, <2>1, <2>2, <2>3, <2>4, QuietStep DEF ProtocolTypeOK
<1> QED
  BY <1>1, <1>2

\* What the handler that serves a call is about to do, and what is on its disk.
LEMMA ServingFacts ==
  ASSUME WireInv, worker = "serve"
  PROVE  /\ serving \in DOMAIN calls /\ calls[serving] \in CallType
         /\ calls[serving].req \in Requests
         /\ calls[serving].req.id \in Objects
         /\ calls[serving].seen \in Seens
         /\ disk[calls[serving].req.id] \in {"absent", "whole", "torn"}
         /\ disk \in [Objects -> {"absent", "whole", "torn"}]
<1>1. serving \in DOMAIN calls /\ calls[serving] \in CallType
  BY CallFacts DEF WireInv
<1>2. calls[serving].req \in Requests /\ calls[serving].seen \in Seens
  BY <1>1 DEF CallType
<1>3. calls[serving].req.id \in Objects
  BY <1>2, ProtocolAssumption
<1> QED
  BY <1>1, <1>2, <1>3 DEF WireInv, ProtocolTypeOK

\* What a put does to the disk and to the ledger.
LEMMA StoringFacts ==
  ASSUME WireInv, NEW o \in Objects, Store(o) \/ StoreBadly(o)
  PROVE  /\ disk' \in [Objects -> {"absent", "whole", "torn"}]
         /\ listed' \subseteq Objects \ Manifests
         /\ Promise!Put(o)
<1>0. PICK f \in Written, kept \in Kept(o) :
        \E gone \in SUBSET (Ledger(o) \ kept) : Stores(o, f, kept, gone)
  BY DEF Store, StoreBadly, Written
<1>1. PICK gone \in SUBSET (Ledger(o) \ kept) : Stores(o, f, kept, gone)
  BY <1>0
<1>2. listed \subseteq Objects \ Manifests
      /\ disk \in [Objects -> {"absent", "whole", "torn"}]
  BY DEF WireInv, ProtocolTypeOK
<1>3. Ledger(o) \subseteq Objects \ Manifests /\ kept \subseteq Ledger(o)
  BY <1>2 DEF Ledger, Kept
<1>4. /\ listed' = kept
      /\ disk' = [x \in Objects |-> IF x \in gone THEN "absent"
                                    ELSE IF x = o THEN f ELSE disk[x]]
  BY <1>1 DEF Stores
<1>5. f \in {"whole", "torn"}
  BY DEF Written
<1>6. disk' \in [Objects -> {"absent", "whole", "torn"}]
  BY <1>2, <1>4, <1>5
<1>7. CASE o \in Manifests
  <2>1. kept = listed /\ gone = {}
    BY <1>1, <1>7 DEF Kept, Ledger
  <2>2. disk' = [disk EXCEPT ![o] = f]
    BY <1>2, <1>4, <2>1
  <2> QED
    BY <1>3, <1>4, <1>5, <1>6, <1>7, <2>1, <2>2 DEF Promise!Put
<1>8. CASE o \notin Manifests
  <2>1. Ledger(o) = listed \cup {o}
    BY <1>8 DEF Ledger
  <2>2. kept \in SUBSET (listed \cup {o}) /\ gone \in SUBSET ((listed \cup {o}) \ kept)
    BY <1>3, <2>1
  <2>3. Promise!Put(o)
    BY <1>4, <1>5, <1>8, <2>2 DEF Promise!Put
  <2> QED
    BY <1>3, <1>4, <1>6, <2>3
<1> QED
  BY <1>7, <1>8

\* What a get or has finds.
LEMMA FindsFacts ==
  ASSUME WireInv, worker = "serve"
  PROVE  /\ Finds(calls[serving].req) \in {"absent", "whole", "torn", "listed"}
         /\ calls[serving].req.op = "get" => Finds(calls[serving].req) # "listed"
         /\ Finds(calls[serving].req) = Promise!Look(calls[serving].req)
BY ServingFacts DEF Finds, Promise!Look

\* A handler reads or writes the object and answers.
LEMMA HandlingStep ==
  ASSUME WireInv, BodyMissing \/ PutObject \/ GetObject \/ HasObject \/ SendPayload
  PROVE  WireInv'
<1>0. /\ worker = "serve"
      /\ UNCHANGED <<worker, backlog, serving, lost, arrived>>
  BY DEF BodyMissing, PutObject, GetObject, HasObject, SendPayload, Asks, Handler,
         Inside, PutFails, vars
<1>1. /\ serving \in DOMAIN calls
      /\ calls[serving].req.id \in Objects
      /\ calls[serving].seen \in Seens
      /\ disk \in [Objects -> {"absent", "whole", "torn"}]
  BY <1>0, ServingFacts
<1>2. CASE UNCHANGED <<disk, listed>> /\ Send(calls[serving].seen, "ERR", "close")
  <2>1. "ERR" \in Answers
    BY DEF Answers
  <2>2. step' \in {"close", "sigpipe"} /\ Answer(calls[serving].seen, "ERR")
    BY <1>2 DEF Send
  <2> QED
    BY <1>0, <1>1, <1>2, <2>1, <2>2, AnsweringStep
<1>3. CASE /\ step = "body" /\ Send("written", "OK", "close")
           /\ \/ Store(calls[serving].req.id) \/ StoreBadly(calls[serving].req.id)
  <2>1. "OK" \in Answers /\ "written" \in Seens
    BY DEF Answers, Seens
  <2>2. /\ disk' \in [Objects -> {"absent", "whole", "torn"}]
        /\ listed' \subseteq Objects \ Manifests
    BY <1>1, <1>3, StoringFacts
  <2>3. calls[serving].seen = "nothing" /\ calls[serving].req.op = "put"
    BY <1>3 DEF WireInv, HandlerKnows
  <2>4. step' \in {"close", "sigpipe"} /\ Answer("written", "OK")
    BY <1>3 DEF Send
  <2>5. "written" \in Justifies(calls[serving].req.op)
    BY <2>3 DEF Justifies
  <2> QED
    BY <1>0, <2>1, <2>2, <2>3, <2>4, <2>5, AnsweringStep
<1>4. CASE GetObject \/ HasObject
  <2> DEFINE f == Finds(calls[serving].req)
  <2>1. /\ step = "line" /\ calls[serving].req.op \in {"get", "has"}
        /\ Answer(f, IF f = "absent" THEN "ERR" ELSE "OK")
        /\ UNCHANGED <<disk, listed>>
        /\ \/ step' \in {"close", "sigpipe"}
           \/ step' = "payload" /\ f # "absent" /\ calls[serving].req.op = "get"
    BY <1>4 DEF GetObject, HasObject, Asks, Handler, Send
  <2>2. /\ f \in {"absent", "whole", "torn", "listed"}
        /\ calls[serving].req.op = "get" => f # "listed"
    BY <1>0, FindsFacts
  <2> HIDE DEF f
  <2>3. PICK a : a = IF f = "absent" THEN "ERR" ELSE "OK"
    OBVIOUS
  <2>4. a \in Answers /\ f \in Seens /\ Answer(f, a) /\ a # "payload"
        /\ (a = "OK" => f \in Justifies(calls[serving].req.op))
    BY <2>1, <2>2, <2>3 DEF Answers, Seens, Justifies, Written
  <2>5. calls[serving].seen = "nothing"
    BY <2>1 DEF WireInv, HandlerKnows
  <2>6. step' = "payload" => calls[serving].req.op = "get" /\ f \in Written
    BY <2>1, <2>2 DEF Written
  <2>7. step' \in {"payload", "close", "sigpipe"}
    BY <2>1
  <2> QED
    BY <1>0, <1>1, <2>1, <2>4, <2>5, <2>6, <2>7, AnsweringStep
<1>5. CASE SendPayload
  <2>1. /\ step = "payload" /\ step' \in {"close", "sigpipe"}
        /\ UNCHANGED <<disk, listed>>
        /\ Answer(calls[serving].seen, "payload")
    BY <1>5 DEF SendPayload, Handler, Send
  <2>2. calls[serving].seen \in Written /\ "payload" \in Answers
    BY <2>1 DEF WireInv, HandlerKnows, Answers
  <2> QED
    BY <1>0, <1>1, <2>1, <2>2, AnsweringStep
<1> QED
  BY <1>2, <1>3, <1>4, <1>5 DEF BodyMissing, PutObject, PutFails, Handler

\* What a call makes of its answer is a result, and one that PeerCalls allows.
LEMMA ResultFacts ==
  ASSUME WireInv, NEW k \in DOMAIN calls
  PROVE  /\ Result(k) \in Results
         /\ Result(k) \in Promise!Results(calls[k].req.op, calls[k].seen)
         /\ (IF calls[k].req.op = "has" THEN "no" ELSE "failed") \in Results
         /\ (IF calls[k].req.op = "has" THEN "no" ELSE "failed")
              \in Promise!Results(calls[k].req.op, calls[k].seen)
<1>1. calls[k].req.op \in {"put", "get", "has"}
  <2>1. calls[k] \in CallType
    BY CallFacts DEF WireInv
  <2>2. calls[k].req \in Requests
    BY <2>1 DEF CallType
  <2> QED
    BY <2>2, ProtocolAssumption
<1>2. /\ calls[k].answer = "OK" =>
           calls[k].seen \in Justifies(calls[k].req.op)
      /\ calls[k].answer = "payload" => calls[k].seen \in Written
  BY DEF WireInv, AnswersTruthful
<1>3. CASE calls[k].req.op = "put"
  BY <1>2, <1>3 DEF Result, Results, Promise!Results, Justifies, Written
<1>4. CASE calls[k].req.op = "get"
  BY <1>2, <1>4 DEF Result, Results, Promise!Results, Justifies, Written
<1>5. CASE calls[k].req.op = "has"
  BY <1>2, <1>5 DEF Result, Results, Promise!Results, Justifies, Written
<1> QED
  BY <1>1, <1>3, <1>4, <1>5

-----------------------------------------------------------------------------
(* The inductive invariant.                                                *)

LEMMA WireStep ==
  ASSUME WireInv, SocketInv, [ProtocolNext]_allVars
  PROVE  WireInv'
<1>1. CASE Process /\ (UserStep \/ GuiStep \/ ThreadStep) /\ Kernel
  BY <1>1, ThreadsStep
<1>2. CASE Process /\ (AcceptConnection \/ FinishConnection)
  BY <1>2, AcceptingStep, FinishingStep
<1>3. CASE HandlerStep \/ Arrive
  BY <1>3, HandlingStep, WaitingStep DEF HandlerStep
<1>4. CASE Sigpipe \/ UNCHANGED allVars
  <2>1. UNCHANGED <<worker, disk, listed, calls, backlog, serving, step, arrived, lost>>
    BY <1>4 DEF Sigpipe, wire, allVars, vars
  <2> QED
    BY <2>1 DEF WireInv, ProtocolTypeOK, ServedInOrder, HandlerKnows, AnswersTruthful
<1>5. ASSUME NEW q \in Requests, Call(q)
      PROVE  WireInv'
  BY <1>5, CallingStep
<1>6. ASSUME NEW k \in DOMAIN calls, Return(k) \/ Break(k)
      PROVE  WireInv'
  <2>1. PICK res \in Results : Ends(k, res)
    BY <1>6, ResultFacts DEF Return, Break
  <2>2. UNCHANGED <<vars, disk, listed, backlog, serving, step, arrived, lost>>
    BY <1>6 DEF Return, Break
  <2> QED
    BY <2>1, <2>2, EndingStep
<1> QED
  BY <1>1, <1>2, <1>3, <1>4, <1>5, <1>6 DEF ProtocolNext

\* The threads and the socket are those of PeerService; SIGPIPE only ends them.
LEMMA SocketStep ==
  ASSUME WireInv, SocketInv, [ProtocolNext]_allVars
  PROVE  SocketInv'
<1>1. CASE Process /\ (UserStep \/ GuiStep \/ ThreadStep)
  <2>1. Alive
    BY <1>1 DEF Process, Alive
  <2> QED
    BY <1>1, <2>1, GuiKeepsSocketInv, WorkerKeepsSocketInv DEF UserStep, ThreadStep
<1>2. CASE Process /\ (AcceptConnection \/ FinishConnection)
  <2>1. Alive /\ (Connection \/ WorkerStep)
    BY <1>2 DEF Process, Alive, AcceptConnection, FinishConnection, WorkerStep
  <2> QED
    BY <2>1, WorkerKeepsSocketInv
<1>3. CASE UNCHANGED vars
  BY <1>3 DEF SocketInv, TypeOK, Alive, WorkerStates, Stopping, FdNamesSocket,
              StopProceeds, ThreadOwned, vars
<1>4. CASE PutFails
  <2>1. failures' \in 0 .. MaxFailures
    BY <1>4, PeerAssumption DEF PutFails, Fail, SocketInv, TypeOK
  <2>2. UNCHANGED <<enabled, port, gui, after, thread, running, listenFd, worker,
                    own, sock, sockPort, woken, applies>>
    BY <1>4 DEF PutFails, window, service, socket
  <2> QED
    BY <2>1, <2>2 DEF SocketInv, TypeOK, Alive, WorkerStates, Stopping,
       FdNamesSocket, StopProceeds, ThreadOwned
<1>5. CASE Sigpipe
  <2>1. /\ gui' = "terminated" /\ worker = "serve" /\ gui # "terminated"
        /\ UNCHANGED <<enabled, port, after, thread, running, listenFd, worker,
                       own, sock, sockPort, woken, applies, failures>>
    BY <1>5 DEF Sigpipe, Handler, Process, window, service, socket
  <2>2. thread = "joinable"
    BY <2>1 DEF SocketInv, ThreadOwned, TypeOK, Alive
  <2>3. TypeOK'
    BY <2>1 DEF SocketInv, TypeOK, Alive
  <2>4. FdNamesSocket'
    BY <2>1 DEF SocketInv, FdNamesSocket
  <2>5. StopProceeds'
    BY <2>1 DEF StopProceeds, Stopping
  <2>6. ThreadOwned'
    BY <2>1, <2>2 DEF ThreadOwned
  <2> QED
    BY <2>3, <2>4, <2>5, <2>6 DEF SocketInv
<1>6. CASE HandlerStep
  BY <1>3, <1>4, <1>6 DEF HandlerStep, RecvLine, BodyMissing, PutObject, GetObject,
     HasObject, SendPayload, Inside
<1>7. CASE \/ \E q \in Requests : Call(q)
           \/ Arrive
           \/ \E k \in DOMAIN calls : Return(k) \/ Break(k)
           \/ UNCHANGED allVars
  BY <1>3, <1>7 DEF Call, Arrive, Return, Break, allVars
<1> QED
  BY <1>1, <1>2, <1>5, <1>6, <1>7 DEF ProtocolNext

LEMMA InitProtocolInv == ProtocolInit => SocketInv /\ WireInv
<1> SUFFICES ASSUME ProtocolInit
             PROVE  SocketInv /\ WireInv
  OBVIOUS
<1>1. SocketInv
  BY InitSocketInv DEF ProtocolInit
<1>2. /\ calls = <<>> /\ backlog = <<>> /\ serving = NoCall /\ step = "none"
      /\ arrived = 0 /\ lost = {} /\ worker = "none"
      /\ disk = [o \in Objects |-> "absent"] /\ listed = {}
  BY DEF ProtocolInit, Init
<1>3. \A S : <<>> \in Seq(S)
  OBVIOUS
<1>4. ProtocolTypeOK
  BY <1>2, <1>3 DEF ProtocolTypeOK
<1>5. ServedInOrder /\ HandlerKnows /\ AnswersTruthful
  BY <1>2 DEF ServedInOrder, HandlerKnows, AnswersTruthful
<1> QED
  BY <1>1, <1>4, <1>5 DEF WireInv

\* ProtocolInv is an invariant, whatever fails, times out, breaks or is stopped.
THEOREM ProtocolInvariance == ProtocolSpec => []ProtocolInv
<1>1. SocketInv /\ WireInv /\ [ProtocolNext]_allVars => (SocketInv /\ WireInv)'
  BY WireStep, SocketStep
<1>2. SocketInv /\ WireInv => ProtocolInv
  BY DEF WireInv, ProtocolInv
<1> QED
  BY <1>1, <1>2, InitProtocolInv, PTL DEF ProtocolSpec

\* Type correctness: a connection is being served exactly while the worker serves.
THEOREM ProtocolTypeCorrect == ProtocolSpec => []ProtocolTypeOK
<1>1. ProtocolInv => ProtocolTypeOK
  BY DEF ProtocolInv
<1> QED
  BY <1>1, ProtocolInvariance, PTL

\* When stop() has joined the worker, the worker has ended and the port is free,
\* whatever its clients do: a handler in the middle of a request is waited for.
THEOREM ProtocolStopFreesPort == ProtocolSpec => []StopReleases
<1>1. ProtocolInv => StopReleases
  BY DEF ProtocolInv, SocketInv, TypeOK, StopReleases, ThreadOwned, Alive
<1> QED
  BY <1>1, ProtocolInvariance, PTL

-----------------------------------------------------------------------------
(* The peer that serves its clients implements EmbeddedPeer.               *)

\* What the refinement needs of the threads, for as long as there is a process.
LiveInv == Process => EndsByItself /\ OnItsPort

LEMMA LiveIsIInv ==
  ASSUME SocketInv, LiveInv, Process
  PROVE  IInv /\ Alive
BY DEF LiveInv, IInv, TerminatesOnlyAfterFailure, Process, Alive

\* A step of the protocol is one of the threads of PeerService, SIGPIPE, a
\* failure that the handler answers, or hidden from the threads.
LEMMA ServiceSteps ==
  ASSUME [ProtocolNext]_allVars
  PROVE  \/ Process /\ ((\E on \in BOOLEAN, p \in Ports : ApplySettings(on, p))
                          \/ CloseWindow \/ GuiStep)
         \/ Process /\ (WorkerStep \/ Connection)
         \/ PutFails
         \/ Sigpipe
         \/ UNCHANGED vars
<1>1. CASE Process /\ (UserStep \/ GuiStep \/ ThreadStep)
  BY <1>1 DEF UserStep, ThreadStep
<1>2. CASE Process /\ (AcceptConnection \/ FinishConnection)
  BY <1>2 DEF AcceptConnection, FinishConnection, WorkerStep
<1>3. CASE HandlerStep
  BY <1>3 DEF HandlerStep, RecvLine, BodyMissing, PutObject, GetObject,
     HasObject, SendPayload, Inside
<1>4. CASE \/ \E q \in Requests : Call(q)
           \/ Arrive
           \/ \E k \in DOMAIN calls : Return(k) \/ Break(k)
           \/ UNCHANGED allVars
  BY <1>4 DEF Call, Arrive, Return, Break, allVars
<1> QED
  BY <1>1, <1>2, <1>3, <1>4 DEF ProtocolNext

\* A failure the handler answers leaves the threads where they are.
LEMMA PutFailsFacts ==
  ASSUME SocketInv, PutFails
  PROVE  /\ failures \in Nat /\ failures' = failures + 1
         /\ UNCHANGED <<enabled, port, gui, after, thread, running, listenFd,
                        worker, own, sock, sockPort, woken, applies>>
BY PeerAssumption DEF PutFails, Fail, SocketInv, TypeOK, window, service, socket

LEMMA LiveStep ==
  ASSUME SocketInv, LiveInv, [ProtocolNext]_allVars
  PROVE  LiveInv'
<1>1. ASSUME Process,
             (\E on \in BOOLEAN, p \in Ports : ApplySettings(on, p))
               \/ CloseWindow \/ GuiStep
      PROVE  LiveInv'
  BY <1>1, LiveIsIInv, GuiKeepsIInv DEF IInv, LiveInv
<1>2. ASSUME Process, WorkerStep \/ Connection
      PROVE  LiveInv'
  BY <1>2, LiveIsIInv, WorkerKeepsIInv DEF IInv, LiveInv
<1>3. CASE PutFails
  <2>1. OnItsPort /\ Process => OnItsPort'
    BY <1>3, PutFailsFacts DEF OnItsPort
  <2>2. EndsByItself /\ Process => EndsByItself'
    BY <1>3, PutFailsFacts DEF EndsByItself
  <2>3. Process' => Process
    BY <1>3, PutFailsFacts DEF Process
  <2> QED
    BY <2>1, <2>2, <2>3 DEF LiveInv
<1>4. CASE Sigpipe
  BY <1>4 DEF Sigpipe, LiveInv, Process
<1>5. CASE UNCHANGED vars
  BY <1>5 DEF LiveInv, Process, EndsByItself, OnItsPort, Told, vars
<1> QED
  BY <1>1, <1>2, <1>3, <1>4, <1>5, ServiceSteps

\* To the window a connection that is served is nothing, and SIGPIPE is the end
\* of the program.
LEMMA ServiceRefines ==
  ASSUME SocketInv, LiveInv, [ProtocolNext]_allVars
  PROVE  Embedded!Next \/ UNCHANGED Embedded!vars
<1>1. ASSUME Process,
             (\E on \in BOOLEAN, p \in Ports : ApplySettings(on, p))
               \/ CloseWindow \/ GuiStep
      PROVE  Embedded!Next \/ UNCHANGED Embedded!vars
  BY <1>1, LiveIsIInv, GuiKeepsIInv, GuiRefines
<1>2. ASSUME Process, WorkerStep \/ Connection
      PROVE  Embedded!Next \/ UNCHANGED Embedded!vars
  BY <1>2, LiveIsIInv, WorkerKeepsIInv, WorkerRefines
<1>3. CASE PutFails
  BY <1>3, PutFailsFacts DEF Embedded!vars
<1>4. CASE Sigpipe
  <2>1. Embedded!Terminate
    BY <1>4 DEF Sigpipe, Handler, Process, SocketInv, TypeOK, Stopping, window,
       service, socket, Embedded!Terminate, Embedded!Busy
  <2> QED
    BY <2>1 DEF Embedded!Next, Embedded!PeerNext
<1>5. CASE UNCHANGED vars
  BY <1>5 DEF vars, Embedded!vars
<1> QED
  BY <1>1, <1>2, <1>3, <1>4, <1>5, ServiceSteps

\* What MainWindow relies on holds of the peer with its clients too: no request
\* that stalls, fails or is abandoned shows in the window, but for SIGPIPE, which
\* ends the program.
THEOREM ProtocolRefinesEmbeddedPeer == ProtocolSpec => ImplementsEmbeddedPeer
<1>1. ProtocolInit => Embedded!Init
  BY DEF ProtocolInit, Init, Embedded!Init, Stopping
<1>2. ProtocolInit => LiveInv
  BY InitIInv DEF ProtocolInit, IInv, LiveInv
<1>3. ProtocolInv => SocketInv
  BY DEF ProtocolInv
<1>4. ProtocolInv /\ LiveInv /\ [ProtocolNext]_allVars => LiveInv'
  BY <1>3, LiveStep
<1>5. ProtocolInv /\ LiveInv /\ [ProtocolNext]_allVars
        => [Embedded!Next]_Embedded!vars
  BY <1>3, ServiceRefines
<1> QED
  BY <1>1, <1>2, <1>4, <1>5, ProtocolInvariance, PTL
  DEF ProtocolSpec, ImplementsEmbeddedPeer, Embedded!Spec

-----------------------------------------------------------------------------
(* The protocol implements PeerCalls.                                      *)

\* What a caller sees of the calls.
Visible(s) == [k \in DOMAIN s |-> [req |-> s[k].req, seen |-> s[k].seen,
                                   result |-> s[k].result]]

LEMMA VisibleFacts ==
  ASSUME WireInv
  PROVE  /\ DOMAIN Visible(calls) = 1 .. Len(calls)
         /\ Len(Visible(calls)) = Len(calls)
         /\ \A k \in DOMAIN calls : /\ Visible(calls)[k].req = calls[k].req
                                    /\ Visible(calls)[k].seen = calls[k].seen
                                    /\ Visible(calls)[k].result = calls[k].result
<1>1. Len(calls) \in Nat /\ DOMAIN calls = 1 .. Len(calls)
  BY CallFacts DEF WireInv
<1>2. DOMAIN Visible(calls) = 1 .. Len(calls)
  BY <1>1 DEF Visible
<1>3. Visible(calls) \in Seq({Visible(calls)[k] : k \in DOMAIN calls})
  <2>1. Visible(calls) = [k \in 1 .. Len(calls) |-> Visible(calls)[k]]
    BY <1>1 DEF Visible
  <2> QED
    BY <1>1, <2>1
<1>4. Len(Visible(calls)) = Len(calls)
  BY <1>1, <1>2, <1>3
<1> QED
  BY <1>2, <1>4 DEF Visible

\* A call whose record changes in what its caller cannot see.
LEMMA UnseenChange ==
  ASSUME NEW k \in DOMAIN calls, NEW r, Replaced(k, r), r.seen = calls[k].seen,
         r.result = calls[k].result
  PROVE  Visible(calls') = Visible(calls)
BY DEF Replaced, Visible

\* The moment a call acts.
LEMMA Acting ==
  ASSUME WireInv, worker = "serve", step \in {"line", "body"},
         NEW seen \in Seens, NEW answer \in Answers, Answer(seen, answer),
         \/ /\ calls[serving].req.op # "put"
            /\ seen = Finds(calls[serving].req)
            /\ UNCHANGED <<disk, listed>>
         \/ /\ calls[serving].req.op = "put"
            /\ seen = "written"
            /\ \/ Store(calls[serving].req.id) \/ StoreBadly(calls[serving].req.id)
  PROVE  Promise!Act(serving)
<1>1. /\ serving \in DOMAIN calls /\ serving \in Nat
      /\ Len(calls) \in Nat /\ DOMAIN calls = 1 .. Len(calls)
  BY CallFacts DEF WireInv
<1>2. PICK r \in CallType :
        /\ Replaced(serving, r)
        /\ r.seen = seen
        /\ r.result = calls[serving].result
  BY <1>1, AnswerFacts DEF WireInv
<1>3. \A j \in serving .. Len(calls) : j \in DOMAIN calls /\ calls[j].seen = "nothing"
  <2>1. calls[serving].seen = "nothing"
    BY DEF WireInv, HandlerKnows
  <2>2. serving # NoCall
    BY <1>1 DEF NoCall
  <2>3. \A k \in DOMAIN calls : k > serving => calls[k].seen = "nothing"
    BY <2>2 DEF WireInv, ServedInOrder
  <2> QED
    BY <1>1, <2>1, <2>3
<1>4. \A j \in serving .. Len(Visible(calls)) : Visible(calls)[j].seen = Promise!Unseen
  BY <1>3, VisibleFacts DEF Promise!Unseen
<1>5. Visible(calls') = [Visible(calls) EXCEPT ![serving].seen = seen]
  BY <1>1, <1>2, ZenonT(60) DEF Replaced, Visible
<1>6. Visible(calls)[serving].req = calls[serving].req
  BY <1>1, VisibleFacts
<1>7. CASE calls[serving].req.op # "put"
  <2>1. seen = Promise!Look(calls[serving].req)
    BY <1>7, FindsFacts
  <2> QED
    BY <1>4, <1>5, <1>6, <1>7, <2>1 DEF Promise!Act, Visible
<1>8. CASE calls[serving].req.op = "put"
  <2>1. Promise!Put(calls[serving].req.id)
    BY <1>8, ServingFacts, StoringFacts
  <2> QED
    BY <1>4, <1>5, <1>6, <1>8, <2>1 DEF Promise!Act, Visible
<1> QED
  BY <1>7, <1>8

\* Every step is a step of PeerCalls, or one that no caller sees.
LEMMA CallsRefine ==
  ASSUME WireInv, [ProtocolNext]_allVars
  PROVE  [Promise!Next]_Promise!vars
<1> DEFINE Same == disk' = disk /\ listed' = listed /\ Visible(calls') = Visible(calls)
<1>0. ASSUME Same
      PROVE  UNCHANGED Promise!vars
  BY <1>0 DEF Promise!vars, Visible
<1>a. DOMAIN Visible(calls) = DOMAIN calls /\ Len(Visible(calls)) = Len(calls)
      /\ Len(calls) \in Nat /\ DOMAIN calls = 1 .. Len(calls)
  BY VisibleFacts, CallFacts DEF WireInv
<1>b. ASSUME NEW k \in DOMAIN calls, Promise!Act(k) \/ Promise!Return(k)
      PROVE  Promise!Next
  BY <1>a, <1>b DEF Promise!Next, Visible
<1> HIDE DEF Same
<1>1. ASSUME UNCHANGED <<disk, listed, calls>>
      PROVE  Same
  BY <1>1 DEF Same
<1>2. ASSUME worker = "serve", UNCHANGED <<disk, listed>>, NEW answer \in Answers,
             Answer(calls[serving].seen, answer)
      PROVE  Same
  <2>1. serving \in DOMAIN calls /\ calls[serving].seen \in Seens
    BY <1>2, ServingFacts
  <2>2. PICK r \in CallType :
          /\ Replaced(serving, r)
          /\ r.seen = calls[serving].seen
          /\ r.result = calls[serving].result
    BY <1>2, <2>1, AnswerFacts DEF WireInv
  <2> QED
    BY <1>2, <2>1, <2>2, UnseenChange DEF Same
<1>3. CASE HandlerStep
  <2>0. "ERR" \in Answers /\ "OK" \in Answers /\ "payload" \in Answers
    BY DEF Answers
  <2>1. CASE RecvLine
    BY <1>0, <1>1, <2>1 DEF RecvLine
  <2>2. CASE BodyMissing \/ SendPayload
    BY <1>0, <1>2, <2>0, <2>2 DEF BodyMissing, SendPayload, Handler, Send
  <2>3. CASE PutObject
    <3> DEFINE Puts == \/ Store(calls[serving].req.id)
                       \/ StoreBadly(calls[serving].req.id)
    <3>1. /\ worker = "serve" /\ step = "body"
          /\ \/ Puts /\ Answer("written", "OK")
             \/ Answer(calls[serving].seen, "ERR") /\ UNCHANGED <<disk, listed>>
      BY <2>3 DEF PutObject, Handler, PutFails, Send
    <3>2. CASE Puts /\ Answer("written", "OK")
      <4>1. calls[serving].req.op = "put" /\ "written" \in Seens
        BY <3>1 DEF WireInv, HandlerKnows, Seens
      <4>2. Promise!Act(serving)
        BY <2>0, <3>1, <3>2, <4>1, Acting
      <4>3. serving \in DOMAIN calls
        BY <3>1, ServingFacts
      <4>4. PICK k \in DOMAIN calls : k = serving
        BY <4>3
      <4>5. Promise!Act(k)
        BY <4>2, <4>4 DEF Promise!Act
      <4>6. Promise!Next
        BY <1>b, <4>4, <4>5
      <4> QED
        BY <4>6
    <3> QED
      BY <1>0, <1>2, <2>0, <3>1, <3>2
  <2>4. CASE GetObject \/ HasObject
    <3> DEFINE f == Finds(calls[serving].req)
    <3>1. /\ worker = "serve" /\ step = "line" /\ UNCHANGED <<disk, listed>>
          /\ calls[serving].req.op # "put"
          /\ Answer(f, IF f = "absent" THEN "ERR" ELSE "OK")
      BY <2>4 DEF GetObject, HasObject, Asks, Handler, Send
    <3>2. PICK a \in Answers : Answer(f, a)
      BY <2>0, <3>1
    <3>3. f \in Seens /\ serving \in DOMAIN calls
      BY <3>1, ServingFacts, FindsFacts DEF Seens
    <3>4. Promise!Act(serving)
      BY <3>1, <3>2, <3>3, Acting
    <3>5. PICK k \in DOMAIN calls : k = serving
      BY <3>3
    <3>6. Promise!Act(k)
      BY <3>4, <3>5 DEF Promise!Act
    <3>7. Promise!Next
      BY <1>b, <3>5, <3>6
    <3> QED
      BY <3>7
  <2> QED
    BY <1>3, <2>1, <2>2, <2>3, <2>4 DEF HandlerStep
<1>4. ASSUME NEW q \in Requests, Call(q)
      PROVE  Promise!Next
  <2> DEFINE n == Len(calls)
             c == [req |-> q, seen |-> "nothing", answer |-> "none", result |-> "none"]
             v == [req |-> q, seen |-> "nothing", result |-> "none"]
  <2>1. calls' = Append(calls, c) /\ n < MaxCalls /\ disk' = disk /\ listed' = listed
    BY <1>4 DEF Call
  <2>2. calls \in Seq(CallType) /\ c \in CallType
    BY CallFacts DEF WireInv, CallType, Seens, Answers, Results
  <2>3. /\ DOMAIN calls' = 1 .. n + 1 /\ calls'[n + 1] = c
        /\ \A k \in 1 .. n : calls'[k] = calls[k]
    BY <1>a, <2>1, <2>2
  <2>4. DOMAIN Visible(calls') = 1 .. n + 1
    BY <2>3 DEF Visible
  <2>5. \A k \in 1 .. n : Visible(calls')[k] = Visible(calls)[k]
    BY <1>a, <2>3 DEF Visible
  <2>6. Visible(calls')[n + 1] = v
    BY <1>a, <2>3 DEF Visible
  <2>7. Visible(calls') = [k \in 1 .. n + 1 |-> Visible(calls')[k]]
    BY <2>3 DEF Visible
  <2>8. Visible(calls') = Append(Visible(calls), v)
    <3> DEFINE s == Visible(calls)
    <3>1. s \in Seq({s[k] : k \in 1 .. n} \cup {v})
      <4>1. s = [k \in 1 .. n |-> s[k]]
        BY <1>a DEF Visible
      <4>2. n \in Nat
        BY <1>a
      <4> HIDE DEF s, v, n
      <4> QED
        BY <4>1, <4>2
    <3>2. Len(s) = n /\ n \in Nat
      BY <1>a
    <3> HIDE DEF s, v
    <3>3. Append(s, v) = [k \in 1 .. n + 1 |-> IF k = n + 1 THEN v ELSE s[k]]
      <4> HIDE DEF n
      <4>1. PICK S : s \in Seq(S) /\ v \in S
        BY <3>1
      <4>2. Append(s, v) = [k \in 1 .. Len(s) + 1 |-> IF k = Len(s) + 1 THEN v ELSE s[k]]
        <5>1. Append(s, v) \in Seq(S) /\ Len(Append(s, v)) = Len(s) + 1
          BY <4>1
        <5>2. \A k \in 1 .. Len(s) + 1 :
                Append(s, v)[k] = IF k = Len(s) + 1 THEN v ELSE s[k]
          BY <4>1
        <5>3. Append(s, v) = [k \in 1 .. Len(s) + 1 |-> Append(s, v)[k]]
          <6>1. PICK a : a = Append(s, v)
            OBVIOUS
          <6>2. PICK m : m = Len(s) + 1
            OBVIOUS
          <6>3. a \in Seq(S) /\ Len(a) = m
            BY <5>1, <6>1, <6>2
          <6>4. a = [k \in 1 .. m |-> a[k]]
            BY <6>3
          <6> QED
            BY <6>1, <6>2, <6>4
        <5> QED
          BY <5>2, <5>3
      <4> QED
        BY <3>2, <4>2
    <3>4. \A k \in 1 .. n + 1 : Visible(calls')[k] = IF k = n + 1 THEN v ELSE s[k]
      BY <2>5, <2>6, <3>2 DEF s
    <3>5. Visible(calls') = [k \in 1 .. n + 1 |-> IF k = n + 1 THEN v ELSE s[k]]
      BY <2>7, <3>4
    <3> QED
      BY <3>3, <3>5 DEF s
  <2>9. Promise!Begin(q)
    BY <1>a, <2>1, <2>8 DEF Promise!Begin, Promise!Unseen, Visible
  <2> QED
    BY <2>9 DEF Promise!Next
<1>5. ASSUME NEW k \in DOMAIN calls, Return(k) \/ Break(k)
      PROVE  Promise!Next
  <2>1. PICK res \in Results : /\ Ends(k, res)
                               /\ res \in Promise!Results(calls[k].req.op, calls[k].seen)
    BY <1>5, ResultFacts DEF Return, Break
  <2>2. calls[k].result = "none" /\ disk' = disk /\ listed' = listed
    BY <1>5 DEF Return, Break, Open
  <2>3. PICK r \in CallType :
          Replaced(k, r) /\ r.seen = calls[k].seen /\ r.result = res
    BY <2>1, EndFacts DEF WireInv
  <2>4. Visible(calls') = [Visible(calls) EXCEPT ![k].result = res]
    BY <2>3 DEF Replaced, Visible
  <2>5. /\ Visible(calls)[k].result = "none"
        /\ Visible(calls)[k].req = calls[k].req
        /\ Visible(calls)[k].seen = calls[k].seen
    BY <2>2, VisibleFacts
  <2>6. Promise!Return(k)
    BY <2>1, <2>2, <2>4, <2>5 DEF Promise!Return, Visible
  <2> QED
    BY <1>b, <2>6
<1>6. CASE Process /\ (UserStep \/ GuiStep \/ ThreadStep) /\ Kernel
  <2>1. UNCHANGED <<disk, calls>> /\ InitStorage
    BY <1>6 DEF Kernel
  <2> DEFINE put == {k \in DOMAIN calls : calls[k].seen = "written"}
             ids == {calls[k].req.id : k \in put} \ Manifests
  <2>2. listed' = listed \/ listed' \in SUBSET ids
    BY <2>1 DEF InitStorage
  <2>3. CASE listed' = listed
    BY <1>0, <1>1, <2>1, <2>3
  <2>4. CASE listed' \in SUBSET ids
    <3>1. Visible(calls') = Visible(calls)
      BY <2>1
    <3>2. Promise!Reload
      BY <2>1, <2>4, <3>1 DEF Promise!Reload, Visible
    <3> QED
      BY <3>2 DEF Promise!Next
  <2> QED
    BY <2>2, <2>3, <2>4
<1>7. CASE \/ Process /\ (AcceptConnection \/ FinishConnection)
           \/ Sigpipe \/ Arrive \/ UNCHANGED allVars
  <2>1. UNCHANGED <<disk, listed, calls>>
    BY <1>7 DEF AcceptConnection, FinishConnection, Sigpipe, Arrive, wire, allVars
  <2> QED
    BY <1>0, <1>1, <2>1
<1> QED
  BY <1>3, <1>4, <1>5, <1>6, <1>7 DEF ProtocolNext

\* ImplementsCalls: a call acts at most once, not after a call that connected later
\* has acted, and succeeds only if it acted, whatever breaks, times out, throws or
\* is stopped in between; a get returns what the disk held at that moment, torn
\* files of a full disk included, and HAS_CHUNK what the ledger said.
THEOREM RefinesPeerCalls == ProtocolSpec => ImplementsCalls
<1>1. ProtocolInit => Promise!Init
  <2> SUFFICES ASSUME ProtocolInit
               PROVE  Promise!Init
    OBVIOUS
  <2>1. calls = <<>> /\ disk = [o \in Objects |-> "absent"] /\ listed = {}
    BY DEF ProtocolInit
  <2>2. Visible(calls) = <<>>
    BY <2>1 DEF Visible
  <2> QED
    BY <2>1, <2>2 DEF Promise!Init, Visible
<1>2. ProtocolInv /\ [ProtocolNext]_allVars => [Promise!Next]_Promise!vars
  BY CallsRefine DEF ProtocolInv, WireInv
<1> QED
  BY <1>1, <1>2, ProtocolInvariance, PTL
  DEF ProtocolSpec, ImplementsCalls, Promise!Spec

=============================================================================
