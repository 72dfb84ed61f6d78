----------------------------- MODULE MainWindow -----------------------------
(***************************************************************************)
(* The window of the graphical client (client/main_window.cpp), composed   *)
(* with its embedded peer, EmbeddedPeer: the list of peers it discovers,   *)
(* the calls it posts to the thread of DssWorker (client/dss_worker.cpp),  *)
(* and the signals that come back.                                         *)
(*                                                                         *)
(* Both directions are Qt queues.  The slots of the signals open message   *)
(* boxes, whose nested event loops go on delivering signals: the slots     *)
(* that wait for a box to be closed form a stack.  What putFile and        *)
(* getFile do is in DssClient.                                             *)
(***************************************************************************)
EXTENDS EmbeddedPeer, Integers, Sequences, FiniteSets, SequencesExt

CONSTANTS
  Hosts,       \* values of peerAdvertiseIp_, all names of this machine
  Remote,      \* endpoints of other machines
  SeedLists,   \* the bootstrap_seeds a user may enter: sets of endpoints
  Names,       \* names of the files to upload, without their directories
  MaxClicks    \* bound: times the user clicks a button of the tabs

Local == Hosts \X Ports

ASSUME WindowAssumption ==
  /\ SeedLists \subseteq SUBSET (Remote \cup Local)
  /\ Remote \cap Local = {}
  /\ Names # {}
  /\ MaxClicks \in Nat

VARIABLES
  \* MainWindow:
  advertise,  \* peerAdvertiseIp_
  seeds,      \* bootstrapNodes_
  task,       \* what the GUI thread does when it is not busy with the peer
  merged,     \* discoverPeersFromBootstrap: the peers found so far
  listed,     \* discoveredPeersCsv_
  busy,       \* the progress bar is visible
  boxes,      \* the message boxes that are open, the top one last
  rows,       \* filesTable_
  \* DssWorker:
  calls,      \* calls posted to its thread
  job,        \* the call it executes
  signals,    \* signals posted to the window
  manifests,  \* the local manifest under a name: the upload that wrote it
  \* History and bounds:
  uploaded,   \* uploads whose putFile returned
  clicks

network == <<advertise, seeds, merged, listed>>
view    == <<busy, boxes, rows>>
work    == <<calls, job, signals, manifests, uploaded>>
winVars == <<network, task, view, work, clicks>>
allVars == <<vars, winVars>>

-----------------------------------------------------------------------------

NoJob   == [kind |-> "none"]
Unknown == 0     \* the size "-" of a row whose manifest cannot be read

Calls == [kind : {"put", "get", "repair"}, id : 1 .. MaxClicks, name : Names]

\* A box that says what the slot does after it was closed.
Box(slot, id, name) == [slot |-> slot, id |-> id, name |-> name]

Plain == Box("return", Unknown, CHOOSE n \in Names : TRUE)

WindowInit ==
  /\ Init
  /\ advertise \in Hosts
  /\ seeds \in SeedLists
  /\ task = "events"
  /\ merged = {}
  /\ listed = {}
  /\ busy = FALSE
  /\ boxes = <<>>
  /\ rows = <<>>
  /\ calls = <<>>
  /\ job = NoJob
  /\ signals = <<>>
  /\ manifests = [n \in Names |-> Unknown]
  /\ uploaded = {}
  /\ clicks = 0

-----------------------------------------------------------------------------
(* The GUI thread.                                                         *)

\* Mutant of InEventLoop: discovering peers lets events through.
InEventLoopAlways == phase = "idle"

\* It waits for events; with no box open the user can use the window.
InEventLoop == phase = "idle" /\ task = "events"
AtLeisure   == InEventLoop /\ boxes = <<>>

\* onApplySettingsClicked
OnApplySettingsClicked(on, p) ==
  /\ AtLeisure
  /\ ApplySettings(on, p)
  /\ boxes' = <<Plain>>    \* shown once the rest is done
  /\ UNCHANGED <<network, task, busy, rows, work, clicks>>

\* onApplyNetworkSettingsClicked: the peer is restarted with its settings.
OnApplyNetworkSettingsClicked(ip, s) ==
  /\ AtLeisure
  /\ ApplySettings(enabled, port)
  /\ advertise' = ip
  /\ seeds' = s
  /\ UNCHANGED <<merged, listed, task, view, work, clicks>>

\* ~MainWindow
CloseMainWindow ==
  /\ AtLeisure
  /\ CloseWindow
  /\ UNCHANGED winVars

\* Mutant of Followed: the list is left alone when the peer is switched off.
FollowedIfEnabled ==
  task' = IF phase = "changing" /\ phase' = "idle" /\ enabled THEN "probe" ELSE task

\* When a peer was started, or could not or need not be, the peers are
\* discovered.
Followed ==
  task' = IF phase = "changing" /\ phase' = "idle" THEN "probe" ELSE task

EmbeddedPeerStep ==
  /\ PeerNext
  /\ Followed
  /\ UNCHANGED <<network, view, work, clicks>>

\* The embedded peer listens at an endpoint of this machine.
Listening(ep) == ep[2] = at

\* discoverPeersFromBootstrap connects to every seed: one of this machine
\* answers if the embedded peer listens there, others may or may not.
Probe ==
  /\ phase = "idle"
  /\ task = "probe"
  /\ task' = "merge"
  /\ \E answer \in SUBSET (seeds \cap Remote) :
       merged' = answer \cup {ep \in seeds \cap Local : Listening(ep)}
  /\ UNCHANGED <<vars, advertise, seeds, listed, view, work, clicks>>

\* Then it adds the embedded peer if isRunning(), which is before it listens.
Merge ==
  /\ phase = "idle"
  /\ task = "merge"
  /\ task' = "events"
  /\ listed' = merged \cup IF enabled /\ up
                           THEN {<<advertise, port>>} ELSE {}
  /\ merged' = {}
  /\ UNCHANGED <<vars, advertise, seeds, view, work, clicks>>

Click ==
  /\ AtLeisure
  /\ clicks < MaxClicks
  /\ clicks' = clicks + 1

\* A click without a peer in the list or with an input missing: a warning.
Refused ==
  /\ Click
  /\ boxes' = <<Plain>>
  /\ UNCHANGED <<vars, network, task, busy, rows, work>>

\* The bar is shown and the call posted to the worker thread.
Post(kind, name) ==
  /\ Click
  /\ listed # {}
  /\ busy' = TRUE
  /\ calls' = Append(calls, [kind |-> kind, id |-> clicks', name |-> name])
  /\ UNCHANGED <<vars, network, task, boxes, rows, job, signals, manifests,
                 uploaded>>

OnPutClicked(name) == Post("put", name)
OnGetClicked       == Post("get", Plain.name)
OnRepairClicked    == Post("repair", Plain.name)

\* The button of a row; nothing else happens while its file dialog is open that
\* could not have happened before.
OnDownloadButtonClicked == rows # <<>> /\ Post("get", Plain.name)

\* refreshPeerMonitor, whose table of peers changes nothing else
Refresh ==
  /\ Click
  /\ task' = "probe"
  /\ UNCHANGED <<vars, network, view, work>>

\* Mutant of Deliver: a signal that comes when the bar is hidden is dropped.
DeliverWhileBusy ==
  /\ InEventLoop
  /\ signals # <<>>
  /\ signals' = Tail(signals)
  /\ busy' = FALSE
  /\ boxes' = IF busy THEN Append(boxes, Head(signals)) ELSE boxes
  /\ UNCHANGED <<vars, network, task, rows, calls, job, manifests, uploaded,
                 clicks>>

\* onPutFinished, onGetFinished, onError, up to their message box
Deliver ==
  /\ InEventLoop
  /\ signals # <<>>
  /\ signals' = Tail(signals)
  /\ busy' = FALSE
  /\ boxes' = Append(boxes, Head(signals))
  /\ UNCHANGED <<vars, network, task, rows, calls, job, manifests, uploaded,
                 clicks>>

\* The user closes the top box and its slot goes on: onPutFinished adds a row
\* with what the local manifest says by now, if it can be read.
CloseBox ==
  /\ InEventLoop
  /\ boxes # <<>>
  /\ boxes' = Front(boxes)
  /\ LET b == Last(boxes) IN
       IF b.slot = "put"
       THEN \E m \in {manifests[b.name], Unknown} :
              rows' = Append(rows, [share |-> b.id, name |-> b.name, shows |-> m])
       ELSE UNCHANGED rows
  /\ UNCHANGED <<vars, network, task, busy, work, clicks>>

-----------------------------------------------------------------------------
(* The thread of DssWorker.                                                *)

\* The window was destroyed: quit() was called, wait() waits for the thread.
Quitting == phase = "gone" /\ task = "events"

WorkerLives == phase # "terminated" /\ task # "ended"

StartCall ==
  /\ WorkerLives
  /\ job = NoJob
  /\ calls # <<>>
  /\ job' = Head(calls)
  /\ calls' = Tail(calls)
  /\ UNCHANGED <<vars, network, task, view, signals, manifests, uploaded, clicks>>

\* Mutant of WriteLocalManifest: a manifest that exists is kept.
WriteLocalManifestOnce(n, id) ==
  [manifests EXCEPT ![n] = IF @ = Unknown THEN id ELSE @]

\* The local manifest is named after the file: a namesake replaces it.
WriteLocalManifest(n, id) == [manifests EXCEPT ![n] = id]

\* putFile or getFile returned.
CallReturns ==
  /\ WorkerLives
  /\ job.kind \in {"put", "get"}
  /\ signals' = Append(signals, Box(job.kind, job.id, job.name))
  /\ IF job.kind = "put"
     THEN /\ manifests' = WriteLocalManifest(job.name, job.id)
          /\ uploaded' = uploaded \cup {job.id}
     ELSE UNCHANGED <<manifests, uploaded>>
  /\ job' = NoJob
  /\ UNCHANGED <<vars, network, task, view, calls, clicks>>

\* Mutant of CallThrows: the exception is caught and nothing is emitted.
CallThrowsSilently ==
  /\ WorkerLives
  /\ job # NoJob
  /\ job' = NoJob
  /\ UNCHANGED <<vars, network, task, view, calls, signals, manifests, uploaded,
                 clicks>>

\* An exception, which becomes error(); repair does nothing else.
CallThrows ==
  /\ WorkerLives
  /\ job # NoJob
  /\ signals' = Append(signals, Box("error", job.id, job.name))
  /\ job' = NoJob
  /\ UNCHANGED <<vars, network, task, view, calls, manifests, uploaded, clicks>>

\* Mutant of ThreadExits: the signals wait for their slots.
ThreadExitsBlocking ==
  /\ Quitting
  /\ job = NoJob
  /\ signals = <<>>
  /\ task' = "ended"
  /\ UNCHANGED <<vars, network, view, work, clicks>>

\* The event loop of the thread ends between two calls; calls that are still
\* posted may or may not be executed before.
ThreadExits ==
  /\ Quitting
  /\ job = NoJob
  /\ task' = "ended"
  /\ UNCHANGED <<vars, network, view, work, clicks>>

-----------------------------------------------------------------------------

WindowStep == Probe \/ Merge \/ Deliver
JobStep    == StartCall \/ CallReturns \/ CallThrows \/ ThreadExits

UserStep ==
  \/ \E on \in BOOLEAN, p \in Ports : OnApplySettingsClicked(on, p)
  \/ \E ip \in Hosts, s \in SeedLists : OnApplyNetworkSettingsClicked(ip, s)
  \/ CloseMainWindow
  \/ Refused
  \/ \E n \in Names : OnPutClicked(n)
  \/ OnGetClicked
  \/ OnRepairClicked
  \/ OnDownloadButtonClicked
  \/ Refresh
  \/ CloseBox

WindowNext ==
  \/ UserStep
  \/ EmbeddedPeerStep
  \/ WindowStep
  \/ JobStep

\* The threads of the window and of DssWorker are scheduled, and the calls of
\* DssClient end.  Each time the event loop runs it delivers what was posted.
\* Stopping and starting the embedded peer takes finitely long, which is
\* StopReturns of PeerService.  Nothing is assumed of the user.
WindowFairness ==
  /\ WF_allVars(phase \in Busy /\ EmbeddedPeerStep /\ phase' # phase)
  /\ WF_allVars(phase \in Busy /\ Die /\ UNCHANGED winVars)
  /\ WF_allVars(Probe \/ Merge)
  /\ SF_allVars(Deliver)
  /\ WF_allVars(JobStep)

WindowSpec == WindowInit /\ [][WindowNext]_allVars /\ WindowFairness

-----------------------------------------------------------------------------
(* Properties.                                                             *)

\* Every variable of the window has its type, and no slot runs while the thread
\* is busy with the peer.
WindowTypeOK ==
  /\ advertise \in Hosts
  /\ seeds \in SeedLists
  /\ task \in {"events", "probe", "merge", "ended"}
  /\ merged \subseteq Remote \cup Local
  /\ listed \subseteq Remote \cup Local
  /\ busy \in BOOLEAN
  /\ boxes \in Seq([slot : {"put", "get", "error", "return"},
                    id : 0 .. MaxClicks, name : Names])
  /\ rows \in Seq([share : 1 .. MaxClicks, name : Names, shows : 0 .. MaxClicks])
  /\ calls \in Seq(Calls)
  /\ job \in Calls \cup {NoJob}
  /\ signals \in Seq([slot : {"put", "get", "error"}, id : 1 .. MaxClicks,
                      name : Names])
  /\ manifests \in [Names -> 0 .. MaxClicks]
  /\ uploaded \subseteq 1 .. MaxClicks
  /\ clicks \in 0 .. MaxClicks
  /\ task \in {"probe", "merge"} => phase \in {"idle", "terminated"}
  /\ task = "ended" => phase = "gone"

\* When nothing is under way, the table has one row for every upload that
\* succeeded and no other, in whatever order boxes were nested, and the bar is
\* hidden.
RowsMatchUploads ==
  AtLeisure /\ calls = <<>> /\ job = NoJob /\ signals = <<>> =>
    /\ {rows[i].share : i \in DOMAIN rows} = uploaded
    /\ Len(rows) = Cardinality(uploaded)
    /\ ~busy

\* The name and size in a row are of the upload with that share id or of a later
\* one of a file with the same name, never of an earlier one.
RowsNotOutdated ==
  \A i \in DOMAIN rows : rows[i].shows = Unknown \/ rows[i].shows >= rows[i].share

\* Whenever the user can click, the list that the next upload will use names the
\* embedded peer only where the settings put it, and names it if it runs.
ListIsCurrent ==
  AtLeisure =>
    /\ \A ep \in listed : ep \in seeds \/ (enabled /\ ep = <<advertise, port>>)
    /\ up => <<advertise, port>> \in listed

\* The list is only wrong while it is being made, or the peer changed.
ListInv ==
  /\ enabled \in BOOLEAN /\ port \in Ports
  /\ phase = "idle" /\ up => enabled
  /\ task = "merge" => merged \subseteq seeds
  /\ InEventLoop =>
       /\ \A ep \in listed : ep \in seeds \/ (enabled /\ ep = <<advertise, port>>)
       /\ up => <<advertise, port>> \in listed

\* Every upload that ended has an id below k.
EndedBefore(k) ==
  (\A n \in Names : manifests[n] < k) /\ (\A u \in uploaded : u < k)

\* The worker executes the calls in the order of the clicks.
InTurn ==
  /\ EndedBefore(clicks + 1)
  /\ job # NoJob => job.id <= clicks /\ EndedBefore(job.id)
  /\ \A i \in DOMAIN calls :
       /\ calls[i].id <= clicks
       /\ EndedBefore(calls[i].id)
       /\ job # NoJob => job.id < calls[i].id
       /\ \A j \in DOMAIN calls : i < j => calls[i].id < calls[j].id

\* The uploads that the signals or boxes in s report, and that none does twice.
PutIds(s) == {s[i].id : i \in {j \in DOMAIN s : s[j].slot = "put"}}

OnceEach(s) ==
  \A i, j \in DOMAIN s :
    s[i].slot = "put" /\ s[j].slot = "put" /\ s[i].id = s[j].id => i = j

\* The local manifest is as new as the uploads that are yet to be shown.
ManifestReady(s) ==
  \A i \in DOMAIN s : s[i].slot = "put" => s[i].id <= manifests[s[i].name]

RowIds == {rows[i].share : i \in DOMAIN rows}

\* Every upload that succeeded is in one place: a signal, a box or a row.
OnePlaceEach ==
  /\ uploaded = RowIds \cup PutIds(boxes) \cup PutIds(signals)
  /\ RowIds \cap PutIds(boxes) = {}
  /\ RowIds \cap PutIds(signals) = {}
  /\ PutIds(boxes) \cap PutIds(signals) = {}
  /\ OnceEach(boxes) /\ OnceEach(signals)
  /\ \A i, j \in DOMAIN rows : rows[i].share = rows[j].share => i = j

\* The bar is visible only while something is under way.
BusyWithReason == busy => calls # <<>> \/ job # NoJob \/ signals # <<>>

\* The inductive invariant behind the theorems of MainWindowProofs.
WindowInv ==
  /\ WindowTypeOK
  /\ ListInv
  /\ InTurn
  /\ OnePlaceEach
  /\ ManifestReady(boxes) /\ ManifestReady(signals)
  /\ RowsNotOutdated
  /\ BusyWithReason

\* The bar that a click shows does not stay: every call ends with a signal, and
\* no box that is open keeps its slot from running.
BusyEnds == busy ~> ~busy \/ phase \in {"gone", "terminated"}

\* Closing the window ends the program: neither the embedded peer nor a call
\* that is under way keeps the destructor waiting for good.
ClosingEnds == phase = "closing" ~> task = "ended" \/ phase = "terminated"

=============================================================================
