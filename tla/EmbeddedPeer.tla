---------------------------- MODULE EmbeddedPeer ----------------------------
(***************************************************************************)
(* What the window of the graphical client may expect of its embedded      *)
(* peer, without threads, descriptors and the steps of stopping:           *)
(* PeerService implements it, MainWindow is built on it.                   *)
(***************************************************************************)
CONSTANTS
  Ports,     \* values of peerPort_
  NoPort     \* where a peer is that does not listen

VARIABLES
  enabled,   \* peerEnabled_
  port,      \* peerPort_
  phase,     \* the window is idle, changes its peer, or closes
  up,        \* isRunning() of the peer there is
  at         \* the port on which connections are taken

vars == <<enabled, port, phase, up, at>>

Busy == {"changing", "closing"}

Init ==
  /\ enabled \in BOOLEAN
  /\ port \in Ports
  /\ phase = "changing"
  /\ up = FALSE
  /\ at = NoPort

ApplySettings(on, p) ==
  /\ phase = "idle"
  /\ phase' = "changing"
  /\ enabled' = on
  /\ port' = p
  /\ UNCHANGED <<up, at>>

\* At once if there is no peer to stop.
CloseWindow ==
  /\ phase = "idle"
  /\ phase' = "closing" \/ (~up /\ at = NoPort /\ phase' = "gone")
  /\ UNCHANGED <<enabled, port, up, at>>

\* The old peer is off, and a new one may have been started, but none while the
\* old one still holds its port.
Settle ==
  /\ phase = "changing"
  /\ ~up
  /\ phase' = "idle"
  /\ \/ enabled /\ at = NoPort /\ up' = TRUE
     \/ UNCHANGED up
  /\ UNCHANGED <<enabled, port, at>>

Leave ==
  /\ phase = "closing"
  /\ ~up
  /\ at = NoPort
  /\ phase' = "gone"
  /\ UNCHANGED <<enabled, port, up, at>>

\* The program ends by std::terminate, or by SIGPIPE in the peer's thread.
Terminate ==
  /\ phase \in Busy \cup {"idle"}
  /\ phase' = "terminated"
  /\ UNCHANGED <<enabled, port, up, at>>

\* The peer ends, by itself or because it is told to; by itself it may leave
\* its socket behind.
Die ==
  /\ phase \in Busy \cup {"idle"}
  /\ up
  /\ up' = FALSE
  /\ UNCHANGED <<enabled, port, phase, at>>

\* Left alone, a peer comes to listen only where the settings say.
Listen ==
  /\ phase \in Busy \cup {"idle"}
  /\ at = NoPort
  /\ at' \in Ports
  /\ phase = "idle" => up /\ at' = port
  /\ UNCHANGED <<enabled, port, phase, up>>

Unlisten ==
  /\ phase \in Busy
  /\ at' = NoPort
  /\ UNCHANGED <<enabled, port, phase, up>>

PeerNext ==
  \/ Settle
  \/ Leave
  \/ Terminate
  \/ Die
  \/ Listen
  \/ Unlisten

Next ==
  \/ \E on \in BOOLEAN, p \in Ports : ApplySettings(on, p)
  \/ CloseWindow
  \/ PeerNext

Spec == Init /\ [][Next]_vars

=============================================================================
