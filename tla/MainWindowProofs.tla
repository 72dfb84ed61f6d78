-------------------------- MODULE MainWindowProofs --------------------------
(***************************************************************************)
(* Proofs about MainWindow: the inductive invariant WindowInv, and the     *)
(* list of peers and the table of uploads that follow from it.             *)
(***************************************************************************)
EXTENDS MainWindow, FiniteSetTheorems, TLAPS

-----------------------------------------------------------------------------
(* Queues and stacks.                                                      *)

\* Appending adds one position at the end.
LEMMA AppendFacts ==
  ASSUME NEW S, NEW s \in Seq(S), NEW e \in S
  PROVE  /\ Append(s, e) \in Seq(S)
         /\ Len(Append(s, e)) = Len(s) + 1
         /\ Len(s) \in Nat
         /\ DOMAIN s = 1 .. Len(s)
         /\ DOMAIN Append(s, e) = 1 .. Len(s) + 1
         /\ \A i \in 1 .. Len(s) : Append(s, e)[i] = s[i]
         /\ Append(s, e)[Len(s) + 1] = e
OBVIOUS

\* Taking the first one shifts the others.
LEMMA TailFacts ==
  ASSUME NEW S, NEW s \in Seq(S), s # <<>>
  PROVE  /\ Tail(s) \in Seq(S)
         /\ Head(s) \in S
         /\ Head(s) = s[1]
         /\ Len(s) \in Nat /\ Len(s) >= 1
         /\ DOMAIN s = 1 .. Len(s)
         /\ DOMAIN Tail(s) = 1 .. Len(s) - 1
         /\ \A i \in 1 .. Len(s) - 1 : Tail(s)[i] = s[i + 1]
OBVIOUS

\* Taking the last one leaves the others where they are.
LEMMA FrontFacts ==
  ASSUME NEW S, NEW s \in Seq(S), s # <<>>
  PROVE  /\ Front(s) \in Seq(S)
         /\ Last(s) \in S
         /\ Last(s) = s[Len(s)]
         /\ Len(s) \in Nat /\ Len(s) >= 1
         /\ DOMAIN s = 1 .. Len(s)
         /\ DOMAIN Front(s) = 1 .. Len(s) - 1
         /\ \A i \in 1 .. Len(s) - 1 : Front(s)[i] = s[i]
BY DEF Front, Last

\* What a new signal or box adds to the uploads that s reports.
LEMMA PutAppend ==
  ASSUME NEW S, NEW s \in Seq(S), NEW b \in S
  PROVE  /\ b.slot = "put" => PutIds(Append(s, b)) = PutIds(s) \cup {b.id}
         /\ b.slot # "put" => PutIds(Append(s, b)) = PutIds(s)
         /\ OnceEach(s) /\ (b.slot = "put" => b.id \notin PutIds(s))
              => OnceEach(Append(s, b))
         /\ ManifestReady(s) /\ (b.slot = "put" => b.id <= manifests[b.name])
              => ManifestReady(Append(s, b))
<1> DEFINE t == Append(s, b)
           n == Len(s)
<1>1. /\ n \in Nat /\ DOMAIN s = 1 .. n /\ DOMAIN t = 1 .. n + 1
      /\ \A i \in 1 .. n : t[i] = s[i]
      /\ t[n + 1] = b
  BY AppendFacts
<1> HIDE DEF t, n
<1>2. \A i \in DOMAIN t : i = n + 1 \/ i \in DOMAIN s
  BY <1>1
<1>3. n + 1 \in DOMAIN t /\ n + 1 \notin DOMAIN s
      /\ \A i \in DOMAIN s : i \in DOMAIN t /\ t[i] = s[i]
  BY <1>1
<1>4. ASSUME b.slot = "put"
      PROVE  PutIds(t) = PutIds(s) \cup {b.id}
  BY <1>1, <1>2, <1>3, <1>4 DEF PutIds
<1>5. ASSUME b.slot # "put"
      PROVE  PutIds(t) = PutIds(s)
  BY <1>1, <1>2, <1>3, <1>5 DEF PutIds
<1>6. ASSUME OnceEach(s), b.slot = "put" => b.id \notin PutIds(s)
      PROVE  OnceEach(t)
  <2> SUFFICES ASSUME NEW i \in DOMAIN t, NEW j \in DOMAIN t, t[i].slot = "put",
                      t[j].slot = "put", t[i].id = t[j].id
               PROVE  i = j
    BY DEF OnceEach
  <2>1. \A k \in DOMAIN s : s[k].slot = "put" => s[k].id \in PutIds(s)
    BY DEF PutIds
  <2>2. CASE i \in DOMAIN s /\ j \in DOMAIN s
    BY <1>3, <1>6, <2>2 DEF OnceEach
  <2>3. CASE i = n + 1 /\ j \in DOMAIN s
    BY <1>1, <1>3, <1>6, <2>1, <2>3
  <2>4. CASE i \in DOMAIN s /\ j = n + 1
    BY <1>1, <1>3, <1>6, <2>1, <2>4
  <2> QED
    BY <1>2, <2>2, <2>3, <2>4
<1>7. ASSUME ManifestReady(s), b.slot = "put" => b.id <= manifests[b.name]
      PROVE  ManifestReady(t)
  BY <1>1, <1>2, <1>3, <1>7 DEF ManifestReady
<1> QED
  BY <1>4, <1>5, <1>6, <1>7 DEF t

\* t is s without its position k: f says where each of t's was.
Without(s, t, k, f) ==
  /\ \A i \in DOMAIN t : f[i] \in DOMAIN s /\ t[i] = s[f[i]] /\ f[i] # k
  /\ \A i, j \in DOMAIN t : f[i] = f[j] => i = j
  /\ \A i \in DOMAIN s : i = k \/ \E j \in DOMAIN t : i = f[j]

\* What is reported by a sequence without its position k.
LEMMA PutWithout ==
  ASSUME NEW s, NEW t, NEW k, NEW f, k \in DOMAIN s, OnceEach(s),
         Without(s, t, k, f)
  PROVE  /\ s[k].slot = "put" => /\ PutIds(s) = PutIds(t) \cup {s[k].id}
                                 /\ s[k].id \notin PutIds(t)
         /\ s[k].slot # "put" => PutIds(t) = PutIds(s)
         /\ OnceEach(t)
         /\ ManifestReady(s) => ManifestReady(t)
<1>1. \A x : x \in PutIds(t) <=>
             \E i \in DOMAIN t : t[i].slot = "put" /\ x = t[i].id
  BY DEF PutIds
<1>2. \A x : x \in PutIds(s) <=>
             \E i \in DOMAIN s : s[i].slot = "put" /\ x = s[i].id
  BY DEF PutIds
<1>3. /\ \A i \in DOMAIN t : f[i] \in DOMAIN s /\ t[i] = s[f[i]] /\ f[i] # k
      /\ \A i, j \in DOMAIN t : f[i] = f[j] => i = j
      /\ \A i \in DOMAIN s : i = k \/ \E j \in DOMAIN t : i = f[j]
  BY DEF Without
<1>4. \A x : x \in PutIds(s) <=> (x \in PutIds(t) \/ (s[k].slot = "put" /\ x = s[k].id))
  BY <1>1, <1>2, <1>3
<1>5. s[k].slot = "put" => s[k].id \notin PutIds(t)
  BY <1>1, <1>3 DEF OnceEach
<1>6. OnceEach(t)
  BY <1>3 DEF OnceEach
<1>7. ManifestReady(s) => ManifestReady(t)
  BY <1>3 DEF ManifestReady
<1> QED
  BY <1>4, <1>5, <1>6, <1>7

\* Delivering a signal.
LEMMA PutTail ==
  ASSUME NEW S, NEW s \in Seq(S), s # <<>>, OnceEach(s)
  PROVE  /\ Head(s).slot = "put" => /\ PutIds(s) = PutIds(Tail(s)) \cup {Head(s).id}
                                    /\ Head(s).id \notin PutIds(Tail(s))
         /\ Head(s).slot # "put" => PutIds(Tail(s)) = PutIds(s)
         /\ OnceEach(Tail(s))
         /\ ManifestReady(s) => ManifestReady(Tail(s))
<1> DEFINE t == Tail(s)
           f == [i \in DOMAIN t |-> i + 1]
<1>1. /\ Len(s) \in Nat /\ Len(s) >= 1 /\ DOMAIN s = 1 .. Len(s) /\ Head(s) = s[1]
      /\ DOMAIN t = 1 .. Len(s) - 1
      /\ \A i \in 1 .. Len(s) - 1 : t[i] = s[i + 1]
  BY TailFacts
<1> HIDE DEF t
<1>2. /\ 1 \in DOMAIN s
      /\ \A i \in DOMAIN t : f[i] \in DOMAIN s /\ t[i] = s[f[i]] /\ f[i] # 1
      /\ \A i, j \in DOMAIN t : f[i] = f[j] => i = j
  BY <1>1
<1>3. ASSUME NEW i \in DOMAIN s, i # 1
      PROVE  \E j \in DOMAIN t : i = f[j]
  <2>1. i - 1 \in DOMAIN t /\ i = (i - 1) + 1
    BY <1>1, <1>3
  <2>2. f[i - 1] = i
    BY <2>1
  <2> QED
    BY <2>1, <2>2
<1> HIDE DEF f
<1>w. Without(s, t, 1, f)
  BY <1>2, <1>3 DEF Without
<1>4. /\ s[1].slot = "put" => PutIds(s) = PutIds(t) \cup {s[1].id} /\ s[1].id \notin PutIds(t)
      /\ s[1].slot # "put" => PutIds(t) = PutIds(s)
      /\ OnceEach(t)
      /\ ManifestReady(s) => ManifestReady(t)
  BY <1>2, <1>w, PutWithout
<1> QED
  BY <1>1, <1>4 DEF t

\* Closing a box.
LEMMA PutFront ==
  ASSUME NEW S, NEW s \in Seq(S), s # <<>>, OnceEach(s)
  PROVE  /\ Last(s).slot = "put" => /\ PutIds(s) = PutIds(Front(s)) \cup {Last(s).id}
                                    /\ Last(s).id \notin PutIds(Front(s))
         /\ Last(s).slot # "put" => PutIds(Front(s)) = PutIds(s)
         /\ OnceEach(Front(s))
         /\ ManifestReady(s) => ManifestReady(Front(s))
<1> DEFINE t == Front(s)
           n == Len(s)
           f == [i \in DOMAIN t |-> i]
<1>1. /\ n \in Nat /\ n >= 1 /\ DOMAIN s = 1 .. n /\ Last(s) = s[n]
      /\ DOMAIN t = 1 .. n - 1
      /\ \A i \in 1 .. n - 1 : t[i] = s[i]
  BY FrontFacts
<1> HIDE DEF t, n
<1>2. /\ n \in DOMAIN s
      /\ \A i \in DOMAIN t : f[i] \in DOMAIN s /\ t[i] = s[f[i]] /\ f[i] # n
      /\ \A i, j \in DOMAIN t : f[i] = f[j] => i = j
  BY <1>1
<1>3. \A i \in DOMAIN s : i = n \/ \E j \in DOMAIN t : i = f[j]
  BY <1>1
<1> HIDE DEF f
<1>w. Without(s, t, n, f)
  BY <1>2, <1>3 DEF Without
<1>4. /\ s[n].slot = "put" => PutIds(s) = PutIds(t) \cup {s[n].id} /\ s[n].id \notin PutIds(t)
      /\ s[n].slot # "put" => PutIds(t) = PutIds(s)
      /\ OnceEach(t)
      /\ ManifestReady(s) => ManifestReady(t)
  BY <1>2, <1>w, PutWithout
<1> QED
  BY <1>1, <1>4 DEF t

-----------------------------------------------------------------------------
(* The kinds of steps.                                                     *)

\* A step that does not move a call, a signal or a row; it may open a warning.
Aside ==
  /\ UNCHANGED <<busy, rows, work>>
  /\ boxes' = boxes \/ (boxes = <<>> /\ boxes' = <<Plain>>)
  /\ clicks' = clicks \/ (clicks < MaxClicks /\ clicks' = clicks + 1)

\* A step that changes neither the embedded peer nor the list of peers.
ListKept == UNCHANGED <<vars, network, task>>

LEMMA PlainFacts ==
  /\ Plain \in [slot : {"put", "get", "error", "return"}, id : 0 .. MaxClicks,
                name : Names]
  /\ Plain.slot = "return"
  /\ Plain.name \in Names
BY WindowAssumption DEF Plain, Box, Unknown

\* Every step is one of these, for calls, signals and rows ...
LEMMA Moves ==
  ASSUME [WindowNext]_allVars
  PROVE  \/ Aside
         \/ \E kind \in {"put", "get", "repair"}, n \in Names : Post(kind, n)
         \/ Deliver
         \/ CloseBox
         \/ StartCall
         \/ CallReturns
         \/ CallThrows
<1> USE DEF view, winVars, allVars, Aside
<1>1. ASSUME UserStep
      PROVE  \/ Aside
             \/ \E kind \in {"put", "get", "repair"}, n \in Names : Post(kind, n)
             \/ CloseBox
  <2>1. ASSUME NEW on \in BOOLEAN, NEW p \in Ports, OnApplySettingsClicked(on, p)
        PROVE  Aside
    BY <2>1 DEF OnApplySettingsClicked, AtLeisure
  <2>2. ASSUME NEW ip \in Hosts, NEW s \in SeedLists,
               OnApplyNetworkSettingsClicked(ip, s)
        PROVE  Aside
    BY <2>2 DEF OnApplyNetworkSettingsClicked
  <2>3. ASSUME CloseMainWindow \/ Refused \/ Refresh
        PROVE  Aside
    BY <2>3 DEF CloseMainWindow, Refused, Refresh, Click, AtLeisure
  <2>4. ASSUME \/ \E n \in Names : OnPutClicked(n)
               \/ OnGetClicked \/ OnRepairClicked \/ OnDownloadButtonClicked
        PROVE  \E kind \in {"put", "get", "repair"}, n \in Names : Post(kind, n)
    BY <2>4, PlainFacts
    DEF OnPutClicked, OnGetClicked, OnRepairClicked, OnDownloadButtonClicked
  <2> HIDE DEF Aside
  <2> QED
    BY <1>1, <2>1, <2>2, <2>3, <2>4 DEF UserStep
<1>2. ASSUME EmbeddedPeerStep \/ Probe \/ Merge \/ ThreadExits \/ UNCHANGED allVars
      PROVE  Aside
  BY <1>2 DEF EmbeddedPeerStep, Probe, Merge, ThreadExits
<1> HIDE DEF Aside
<1> QED
  BY <1>1, <1>2 DEF WindowNext, WindowStep, JobStep

\* ... and one of these for the list of peers.
LEMMA ListMoves ==
  ASSUME [WindowNext]_allVars
  PROVE  \/ ListKept
         \/ \E on \in BOOLEAN, p \in Ports : OnApplySettingsClicked(on, p)
         \/ \E ip \in Hosts, s \in SeedLists : OnApplyNetworkSettingsClicked(ip, s)
         \/ CloseMainWindow
         \/ Refresh
         \/ EmbeddedPeerStep
         \/ Probe
         \/ Merge
         \/ ThreadExits
<1>1. ASSUME \/ Refused \/ CloseBox \/ Deliver \/ StartCall \/ CallReturns
             \/ CallThrows \/ UNCHANGED allVars
      PROVE  ListKept
  BY <1>1 DEF Refused, CloseBox, Deliver, StartCall, CallReturns, CallThrows,
              ListKept, allVars, winVars
<1>2. ASSUME NEW kind, NEW n, Post(kind, n)
      PROVE  ListKept
  BY <1>2 DEF Post, ListKept
<1>3. ASSUME \/ \E n \in Names : OnPutClicked(n)
             \/ OnGetClicked \/ OnRepairClicked \/ OnDownloadButtonClicked
      PROVE  ListKept
  BY <1>2, <1>3
  DEF OnPutClicked, OnGetClicked, OnRepairClicked, OnDownloadButtonClicked
<1> QED
  BY <1>1, <1>3 DEF WindowNext, UserStep, WindowStep, JobStep

-----------------------------------------------------------------------------
(* The list of peers.                                                      *)

\* The parts of WindowTypeOK that are about the list, and about the calls.
ListType ==
  /\ advertise \in Hosts
  /\ seeds \in SeedLists
  /\ task \in {"events", "probe", "merge", "ended"}
  /\ merged \subseteq Remote \cup Local
  /\ listed \subseteq Remote \cup Local
  /\ task \in {"probe", "merge"} => phase \in {"idle", "terminated"}
  /\ task = "ended" => phase = "gone"

BoxType    == [slot : {"put", "get", "error", "return"}, id : 0 .. MaxClicks,
               name : Names]
SignalType == [slot : {"put", "get", "error"}, id : 1 .. MaxClicks, name : Names]
RowType    == [share : 1 .. MaxClicks, name : Names, shows : 0 .. MaxClicks]

WorkType ==
  /\ busy \in BOOLEAN
  /\ boxes \in Seq(BoxType)
  /\ rows \in Seq(RowType)
  /\ calls \in Seq(Calls)
  /\ job \in Calls \cup {NoJob}
  /\ signals \in Seq(SignalType)
  /\ manifests \in [Names -> 0 .. MaxClicks]
  /\ uploaded \subseteq 1 .. MaxClicks
  /\ clicks \in 0 .. MaxClicks

LEMMA TypeParts == WindowTypeOK <=> ListType /\ WorkType
BY DEF WindowTypeOK, ListType, WorkType, BoxType, SignalType, RowType

\* Whatever the peer does, the list is made anew before the next event.
LEMMA ListStep ==
  ASSUME ListType, ListInv, [WindowNext]_allVars
  PROVE  ListType' /\ ListInv'
<1> USE DEF network
<1>1. CASE ListKept
  BY <1>1 DEF ListKept, vars, ListType, ListInv, InEventLoop
<1>2. ASSUME NEW on \in BOOLEAN, NEW p \in Ports, OnApplySettingsClicked(on, p)
      PROVE  ListType' /\ ListInv'
  <2>1. /\ task = "events" /\ phase' = "changing" /\ enabled' = on /\ port' = p
        /\ UNCHANGED <<advertise, seeds, merged, listed, task>>
    BY <1>2 DEF OnApplySettingsClicked, ApplySettings, AtLeisure, InEventLoop
  <2> QED
    BY <2>1 DEF ListType, ListInv, InEventLoop
<1>3. ASSUME NEW ip \in Hosts, NEW s \in SeedLists,
             OnApplyNetworkSettingsClicked(ip, s)
      PROVE  ListType' /\ ListInv'
  <2>1. /\ task = "events" /\ phase' = "changing" /\ UNCHANGED <<enabled, port>>
        /\ advertise' = ip /\ seeds' = s /\ UNCHANGED <<merged, listed, task>>
    BY <1>3
    DEF OnApplyNetworkSettingsClicked, ApplySettings, AtLeisure, InEventLoop
  <2> QED
    BY <2>1 DEF ListType, ListInv, InEventLoop
<1>4. CASE CloseMainWindow
  <2>1. /\ task = "events" /\ phase' \in {"closing", "gone"}
        /\ UNCHANGED <<enabled, port, up, advertise, seeds, merged, listed, task>>
    BY <1>4 DEF CloseMainWindow, CloseWindow, AtLeisure, InEventLoop, winVars
  <2> QED
    BY <2>1 DEF ListType, ListInv, InEventLoop
<1>5. CASE Refresh
  <2>1. phase = "idle" /\ task' = "probe"
        /\ UNCHANGED <<enabled, port, up, phase, advertise, seeds, merged, listed>>
    BY <1>5 DEF Refresh, Click, AtLeisure, InEventLoop, vars
  <2> QED
    BY <2>1 DEF ListType, ListInv, InEventLoop
<1>6. CASE EmbeddedPeerStep
  <2>1. PeerNext /\ UNCHANGED <<advertise, seeds, merged, listed>>
        /\ task' = IF phase = "changing" /\ phase' = "idle" THEN "probe" ELSE task
    BY <1>6 DEF EmbeddedPeerStep, Followed
  <2>2. UNCHANGED <<enabled, port>>
    BY <2>1 DEF PeerNext, Settle, Leave, Terminate, Die, Listen, Unlisten
  <2>3. \/ phase = "changing" /\ phase' = "idle" /\ (up' => enabled)
        \/ phase = "closing" /\ phase' = "gone"
        \/ phase # "gone" /\ phase' = "terminated"
        \/ phase' = phase /\ (up' => up)
    BY <2>1 DEF PeerNext, Settle, Leave, Terminate, Die, Listen, Unlisten, Busy
  <2> QED
    BY <2>1, <2>2, <2>3 DEF ListType, ListInv, InEventLoop
<1>7. CASE Probe
  <2>1. /\ phase = "idle" /\ task' = "merge"
        /\ UNCHANGED <<enabled, port, up, phase, advertise, seeds, listed>>
        /\ merged' \subseteq seeds
    BY <1>7 DEF Probe, vars
  <2>2. seeds \subseteq Remote \cup Local
    BY WindowAssumption DEF ListType
  <2> QED
    BY <2>1, <2>2 DEF ListType, ListInv, InEventLoop
<1>8. CASE Merge
  <2>1. /\ phase = "idle" /\ task = "merge" /\ task' = "events" /\ merged' = {}
        /\ UNCHANGED <<enabled, port, up, phase, advertise, seeds>>
        /\ listed' = merged \cup IF enabled /\ up
                                 THEN {<<advertise, port>>} ELSE {}
    BY <1>8 DEF Merge, vars
  <2>2. <<advertise, port>> \in Local
    BY DEF ListType, ListInv, Local
  <2> QED
    BY <2>1, <2>2 DEF ListType, ListInv, InEventLoop
<1>9. CASE ThreadExits
  BY <1>9 DEF ThreadExits, Quitting, vars, ListType, ListInv, InEventLoop
<1> QED
  BY <1>1, <1>2, <1>3, <1>4, <1>5, <1>6, <1>7, <1>8, <1>9, ListMoves

-----------------------------------------------------------------------------
(* Calls, signals, boxes and rows.                                         *)

\* The call that is executed, and what it posts.
LEMMA JobFacts ==
  ASSUME WorkType, job # NoJob
  PROVE  /\ job \in Calls /\ job.id \in 1 .. MaxClicks /\ job.name \in Names
         /\ \A slot : Box(slot, job.id, job.name).slot = slot
         /\ \A slot : Box(slot, job.id, job.name).id = job.id
         /\ \A slot : Box(slot, job.id, job.name).name = job.name
         /\ \A slot \in {"put", "get", "error"} :
              Box(slot, job.id, job.name) \in SignalType
BY DEF WorkType, Calls, Box, SignalType

LEMMA ReturnFacts ==
  ASSUME WorkType, CallReturns
  PROVE  /\ job # NoJob
         /\ job.kind \in {"put", "get"}
         /\ job' = NoJob
         /\ signals' = Append(signals, Box(job.kind, job.id, job.name))
         /\ Box(job.kind, job.id, job.name) \in SignalType
         /\ UNCHANGED <<busy, boxes, rows, calls, clicks>>
         /\ job.kind = "put" => /\ manifests' = [manifests EXCEPT ![job.name] = job.id]
                                /\ uploaded' = uploaded \cup {job.id}
         /\ job.kind # "put" => UNCHANGED <<manifests, uploaded>>
<1>1. job # NoJob
  BY DEF CallReturns, NoJob
<1> QED
  BY <1>1, JobFacts DEF CallReturns, WriteLocalManifest, view

LEMMA WorkTypeStep ==
  ASSUME WorkType, OnePlaceEach, [WindowNext]_allVars
  PROVE  WorkType'
<1> USE DEF work, network, view
<1>1. CASE Aside
  <2>1. boxes' \in Seq(BoxType)
    <3>1. Plain \in BoxType
      BY PlainFacts DEF BoxType
    <3>2. <<Plain>> \in Seq(BoxType)
      BY <3>1
    <3> QED
      BY <1>1, <3>2 DEF Aside, WorkType
  <2>2. clicks' \in 0 .. MaxClicks
    BY <1>1, WindowAssumption DEF Aside, WorkType
  <2> QED
    BY <1>1, <2>1, <2>2 DEF Aside, WorkType
<1>2. ASSUME NEW kind \in {"put", "get", "repair"}, NEW n \in Names, Post(kind, n)
      PROVE  WorkType'
  <2>1. clicks' \in 1 .. MaxClicks
    BY <1>2, WindowAssumption DEF Post, Click, WorkType
  <2>2. [kind |-> kind, id |-> clicks', name |-> n] \in Calls
    BY <2>1 DEF Calls
  <2>3. calls' \in Seq(Calls)
    BY <1>2, <2>2 DEF Post, WorkType
  <2> QED
    BY <1>2, <2>1, <2>3 DEF Post, WorkType
<1>3. CASE Deliver
  <2>1. Head(signals) \in SignalType /\ signals' \in Seq(SignalType)
    BY <1>3, TailFacts DEF Deliver, WorkType
  <2>2. Head(signals) \in BoxType
    BY <2>1 DEF SignalType, BoxType
  <2>3. boxes' \in Seq(BoxType)
    BY <1>3, <2>2 DEF Deliver, WorkType
  <2> QED
    BY <1>3, <2>1, <2>3 DEF Deliver, WorkType
<1>4. CASE CloseBox
  <2>1. Last(boxes) \in BoxType /\ boxes' \in Seq(BoxType)
    BY <1>4, FrontFacts DEF CloseBox, WorkType
  <2>2. UNCHANGED <<busy, calls, job, signals, manifests, uploaded, clicks>>
    BY <1>4 DEF CloseBox
  <2>3. rows' \in Seq(RowType)
    <3>1. CASE Last(boxes).slot # "put"
      BY <1>4, <3>1 DEF CloseBox, WorkType
    <3>2. CASE Last(boxes).slot = "put"
      <4>1. PICK m \in {manifests[Last(boxes).name], Unknown} :
              rows' = Append(rows, [share |-> Last(boxes).id,
                                    name |-> Last(boxes).name, shows |-> m])
        BY <1>4, <3>2 DEF CloseBox
      <4>2. Last(boxes).name \in Names
        BY <2>1 DEF BoxType
      <4>3. m \in 0 .. MaxClicks
        BY <4>1, <4>2, WindowAssumption DEF WorkType, Unknown
      <4>4. Last(boxes).id \in 1 .. MaxClicks
        <5>1. /\ Len(boxes) \in DOMAIN boxes
              /\ Last(boxes) = boxes[Len(boxes)]
          <6>1. boxes # <<>> /\ boxes \in Seq(BoxType)
            BY <1>4 DEF CloseBox, WorkType
          <6>2. /\ DOMAIN boxes = 1 .. Len(boxes)
                /\ Len(boxes) \in Nat /\ Len(boxes) >= 1
                /\ Last(boxes) = boxes[Len(boxes)]
            BY <6>1, FrontFacts
          <6> QED
            BY <6>2
        <5>2. Last(boxes).id \in PutIds(boxes)
          BY <3>2, <5>1 DEF PutIds
        <5> QED
          BY <5>2 DEF OnePlaceEach, WorkType
      <4>5. PICK r \in RowType : rows' = Append(rows, r)
        BY <4>1, <4>2, <4>3, <4>4 DEF RowType
      <4> QED
        BY <4>5 DEF WorkType
    <3> QED
      BY <3>1, <3>2
  <2> QED
    BY <2>1, <2>2, <2>3 DEF WorkType
<1>5. CASE StartCall
  BY <1>5, TailFacts DEF StartCall, WorkType
<1>6. CASE CallReturns
  <2>1. signals' \in Seq(SignalType)
    <3>1. PICK b \in SignalType : signals' = Append(signals, b)
      BY <1>6, ReturnFacts
    <3> QED
      BY <3>1 DEF WorkType
  <2>2. manifests' \in [Names -> 0 .. MaxClicks] /\ uploaded' \subseteq 1 .. MaxClicks
    <3>1. job.id \in 1 .. MaxClicks /\ job.id \in 0 .. MaxClicks
      BY <1>6, ReturnFacts, JobFacts
    <3> QED
      BY <1>6, <3>1, ReturnFacts DEF WorkType
  <2> QED
    BY <1>6, <2>1, <2>2, ReturnFacts DEF WorkType
<1>7. CASE CallThrows
  <2>1. Box("error", job.id, job.name) \in SignalType
    BY <1>7, JobFacts DEF CallThrows
  <2> QED
    BY <1>7, <2>1 DEF CallThrows, WorkType
<1> QED
  BY <1>1, <1>2, <1>3, <1>4, <1>5, <1>6, <1>7, Moves

\* The ids of calls are numbers.
LEMMA CallIds ==
  ASSUME WorkType
  PROVE  /\ Len(calls) \in Nat /\ DOMAIN calls = 1 .. Len(calls)
         /\ \A i \in DOMAIN calls : calls[i] \in Calls /\ calls[i].id \in Nat
         /\ job # NoJob => job.id \in Nat
         /\ clicks \in Nat
         /\ \A n \in Names : manifests[n] \in Nat
         /\ \A u \in uploaded : u \in Nat
<1>1. calls \in Seq(Calls)
  BY DEF WorkType
<1>2. Len(calls) \in Nat /\ DOMAIN calls = 1 .. Len(calls)
      /\ \A i \in DOMAIN calls : calls[i] \in Calls
  BY <1>1
<1>3. \A c \in Calls : c.id \in Nat
  BY WindowAssumption DEF Calls
<1>4. job # NoJob => job \in Calls
  BY DEF WorkType
<1>5. /\ clicks \in Nat
      /\ \A n \in Names : manifests[n] \in Nat
      /\ \A u \in uploaded : u \in Nat
  BY WindowAssumption DEF WorkType
<1> QED
  BY <1>2, <1>3, <1>4, <1>5

LEMMA EndedLater ==
  ASSUME WorkType, NEW k \in Nat, NEW m \in Nat, k <= m, EndedBefore(k)
  PROVE  EndedBefore(m)
BY CallIds DEF EndedBefore

\* The calls are executed in the order of the clicks.
LEMMA InTurnStep ==
  ASSUME WorkType, InTurn, [WindowNext]_allVars
  PROVE  InTurn'
<1> USE DEF work, network, view
<1>0. ASSUME UNCHANGED <<manifests, uploaded>>, NEW k, EndedBefore(k)
      PROVE  EndedBefore(k)'
  BY <1>0 DEF EndedBefore
<1>1. CASE Aside
  <2>1. /\ UNCHANGED <<calls, job, manifests, uploaded>>
        /\ clicks' = clicks \/ clicks' = clicks + 1
    BY <1>1 DEF Aside
  <2>2. clicks' \in Nat /\ clicks <= clicks' /\ clicks + 1 <= clicks' + 1
    BY <2>1, CallIds
  <2>3. EndedBefore(clicks' + 1)
    BY <2>2, CallIds, EndedLater DEF InTurn
  <2>4. EndedBefore(clicks + 1)'
    BY <2>1, <2>3 DEF EndedBefore
  <2>5. job # NoJob => job.id <= clicks'
    BY <2>2, CallIds DEF InTurn
  <2>6. \A i \in DOMAIN calls : calls[i].id <= clicks'
    BY <2>2, CallIds DEF InTurn
  <2> QED
    BY <2>1, <2>4, <2>5, <2>6 DEF InTurn, EndedBefore
<1>2. ASSUME NEW kind \in {"put", "get", "repair"}, NEW n \in Names, Post(kind, n)
      PROVE  InTurn'
  <2>1. /\ UNCHANGED <<job, manifests, uploaded>> /\ clicks' = clicks + 1
        /\ clicks' \in 1 .. MaxClicks
        /\ calls' = Append(calls, [kind |-> kind, id |-> clicks', name |-> n])
    BY <1>2, WindowAssumption DEF Post, Click, WorkType
  <2>2. PICK c \in Calls : c.id = clicks' /\ calls' = Append(calls, c)
    BY <2>1 DEF Calls
  <2>3. calls \in Seq(Calls)
    BY DEF WorkType
  <2>4. /\ DOMAIN calls = 1 .. Len(calls) /\ DOMAIN calls' = 1 .. Len(calls) + 1
        /\ \A i \in 1 .. Len(calls) : calls'[i] = calls[i]
        /\ calls'[Len(calls) + 1] = c /\ Len(calls) \in Nat
    BY <2>2, <2>3, AppendFacts
  <2>5. \A i \in DOMAIN calls' : \/ i \in DOMAIN calls /\ calls'[i] = calls[i]
                                 \/ i = Len(calls) + 1 /\ calls'[i].id = clicks + 1
    BY <2>1, <2>2, <2>4
  <2>6. clicks \in Nat /\ EndedBefore(clicks + 1)
    BY CallIds DEF InTurn
  <2>7. EndedBefore(clicks + 1 + 1)
    BY <2>6, EndedLater
  <2>8. EndedBefore(clicks + 1)'
    BY <1>0, <2>1, <2>7
  <2>9. job' # NoJob => job'.id <= clicks' /\ EndedBefore(job.id)'
    <3>1. job # NoJob => job.id <= clicks /\ EndedBefore(job.id) /\ job.id \in Nat
      BY CallIds DEF InTurn
    <3> QED
      BY <2>1, <2>6, <3>1 DEF EndedBefore
  <2>10. ASSUME NEW i \in DOMAIN calls'
         PROVE  /\ calls'[i].id <= clicks'
                /\ EndedBefore(calls[i].id)'
                /\ job' # NoJob => job'.id < calls'[i].id
                /\ \A j \in DOMAIN calls' : i < j => calls'[i].id < calls'[j].id
    <3>1. CASE i \in DOMAIN calls /\ calls'[i] = calls[i]
      <4>1. /\ calls[i].id <= clicks /\ EndedBefore(calls[i].id)
            /\ job # NoJob => job.id < calls[i].id
            /\ \A j \in DOMAIN calls : i < j => calls[i].id < calls[j].id
        BY <3>1 DEF InTurn
      <4>2. calls[i].id \in Nat
        BY <3>1, CallIds
      <4>3. EndedBefore(calls[i].id)'
        BY <2>1, <3>1, <4>1 DEF EndedBefore
      <4>4. ASSUME NEW j \in DOMAIN calls', i < j
            PROVE  calls'[i].id < calls'[j].id
        <5>1. j \in DOMAIN calls => calls[i].id < calls[j].id
          BY <4>1, <4>4
        <5> QED
          BY <2>5, <2>6, <3>1, <4>1, <4>2, <5>1
      <4> QED
        BY <2>1, <2>6, <3>1, <4>1, <4>2, <4>3, <4>4
    <3>2. CASE i = Len(calls) + 1 /\ calls'[i].id = clicks + 1
      <4>1. \A j \in DOMAIN calls' : ~ (i < j)
        BY <2>4, <3>2
      <4>2. EndedBefore(calls[i].id)'
        BY <2>1, <2>6, <3>2 DEF EndedBefore
      <4>3. job # NoJob => job.id <= clicks /\ job.id \in Nat
        BY CallIds DEF InTurn
      <4> QED
        BY <2>1, <2>6, <3>2, <4>1, <4>2, <4>3
    <3> QED
      BY <2>5, <3>1, <3>2
  <2> QED
    BY <2>8, <2>9, <2>10 DEF InTurn
<1>3. ASSUME Deliver \/ CloseBox
      PROVE  InTurn'
  BY <1>3 DEF Deliver, CloseBox, InTurn, EndedBefore
<1>4. CASE StartCall
  <2>1. /\ job = NoJob /\ calls # <<>> /\ job' = Head(calls) /\ calls' = Tail(calls)
        /\ UNCHANGED <<manifests, uploaded, clicks>>
    BY <1>4 DEF StartCall
  <2>2. calls \in Seq(Calls)
    BY DEF WorkType
  <2>3. /\ job' = calls[1] /\ Len(calls) \in Nat /\ Len(calls) >= 1
        /\ DOMAIN calls = 1 .. Len(calls) /\ DOMAIN calls' = 1 .. Len(calls) - 1
        /\ \A i \in 1 .. Len(calls) - 1 : calls'[i] = calls[i + 1]
    BY <2>1, <2>2, TailFacts
  <2>4. \A i \in DOMAIN calls : /\ calls[i].id <= clicks
                                /\ EndedBefore(calls[i].id)
                                /\ \A j \in DOMAIN calls :
                                     i < j => calls[i].id < calls[j].id
    BY DEF InTurn
  <2>5. 1 \in DOMAIN calls
    BY <2>3
  <2>6. job'.id <= clicks' /\ EndedBefore(job.id)'
    BY <2>1, <2>3, <2>4, <2>5 DEF EndedBefore
  <2>7. ASSUME NEW i \in DOMAIN calls'
        PROVE  /\ calls'[i].id <= clicks'
               /\ EndedBefore(calls[i].id)'
               /\ job'.id < calls'[i].id
               /\ \A j \in DOMAIN calls' : i < j => calls'[i].id < calls'[j].id
    <3>1. /\ i + 1 \in DOMAIN calls /\ 1 < i + 1 /\ calls'[i] = calls[i + 1]
          /\ \A j \in DOMAIN calls' :
               /\ j + 1 \in DOMAIN calls /\ calls'[j] = calls[j + 1]
               /\ i < j => i + 1 < j + 1
      BY <2>3
    <3>2. EndedBefore(calls[i].id)'
      BY <2>1, <2>4, <3>1 DEF EndedBefore
    <3>3. job'.id < calls'[i].id
      BY <2>3, <2>4, <2>5, <3>1
    <3> QED
      BY <2>1, <2>4, <3>1, <3>2, <3>3
  <2>8. EndedBefore(clicks + 1)'
    BY <2>1 DEF InTurn, EndedBefore
  <2> QED
    BY <2>6, <2>7, <2>8 DEF InTurn
<1>5. ASSUME CallReturns \/ CallThrows
      PROVE  InTurn'
  <2>1. /\ job # NoJob /\ job' = NoJob /\ UNCHANGED <<calls, clicks>>
        /\ \/ UNCHANGED <<manifests, uploaded>>
           \/ /\ manifests' = [manifests EXCEPT ![job.name] = job.id]
              /\ uploaded' = uploaded \cup {job.id}
    BY <1>5, ReturnFacts DEF CallThrows
  <2>2. ASSUME NEW k \in Nat, EndedBefore(k), job.id < k
        PROVE  /\ \A n \in Names : manifests'[n] < k
               /\ \A u \in uploaded' : u < k
    <3>1. manifests \in [Names -> 0 .. MaxClicks]
      BY DEF WorkType
    <3> QED
      BY <2>1, <2>2, <3>1 DEF EndedBefore
  <2>3. EndedBefore(clicks + 1)'
    <3>1. clicks + 1 \in Nat /\ EndedBefore(clicks + 1) /\ job.id < clicks + 1
      BY <2>1, CallIds DEF InTurn
    <3> QED
      BY <2>1, <2>2, <3>1 DEF EndedBefore
  <2>4. \A i \in DOMAIN calls : EndedBefore(calls[i].id)'
    <3>1. ASSUME NEW i \in DOMAIN calls
          PROVE  EndedBefore(calls[i].id)'
      <4>1. PICK k \in Nat : k = calls[i].id
        BY CallIds
      <4>2. EndedBefore(k) /\ job.id < k
        BY <2>1, <4>1 DEF InTurn
      <4> QED
        BY <2>1, <2>2, <4>1, <4>2 DEF EndedBefore
    <3> QED
      BY <3>1
  <2>5. \A i \in DOMAIN calls :
          /\ calls[i].id <= clicks
          /\ \A j \in DOMAIN calls : i < j => calls[i].id < calls[j].id
    BY DEF InTurn
  <2> QED
    BY <2>1, <2>3, <2>4, <2>5 DEF InTurn
<1> QED
  BY <1>1, <1>2, <1>3, <1>4, <1>5, Moves

\* The warning that Aside may open reports nothing.
LEMMA WarningFacts ==
  /\ PutIds(<<>>) = {} /\ PutIds(<<Plain>>) = {}
  /\ OnceEach(<<Plain>>)
  /\ \A i \in DOMAIN <<Plain>> : <<Plain>>[i].slot # "put"
<1>1. DOMAIN <<Plain>> = {1} /\ <<Plain>>[1] = Plain
  OBVIOUS
<1>2. \A i \in DOMAIN <<Plain>> : <<Plain>>[i].slot # "put"
  BY <1>1, PlainFacts
<1>3. PutIds(<<>>) = {}
  BY DEF PutIds
<1>4. PutIds(<<Plain>>) = {}
  BY <1>2 DEF PutIds
<1>5. OnceEach(<<Plain>>)
  BY <1>2 DEF OnceEach
<1> QED
  BY <1>2, <1>3, <1>4, <1>5

\* What closing a box does to the table.
LEMMA CloseFacts ==
  ASSUME WorkType, CloseBox
  PROVE  /\ boxes # <<>> /\ boxes \in Seq(BoxType) /\ boxes' = Front(boxes)
         /\ UNCHANGED <<busy, calls, job, signals, manifests, uploaded, clicks>>
         /\ Last(boxes).slot # "put" => rows' = rows
         /\ Last(boxes).slot = "put" =>
              \E m \in {manifests[Last(boxes).name], Unknown} :
                rows' = Append(rows, [share |-> Last(boxes).id,
                                      name |-> Last(boxes).name, shows |-> m])
BY DEF WorkType, CloseBox, work

\* Appending a row.
LEMMA RowAppend ==
  ASSUME WorkType, NEW r, rows' = Append(rows, r)
  PROVE  /\ DOMAIN rows' = DOMAIN rows \cup {Len(rows) + 1}
         /\ Len(rows) + 1 \notin DOMAIN rows
         /\ \A i \in DOMAIN rows : rows'[i] = rows[i]
         /\ rows'[Len(rows) + 1] = r
<1>1. rows \in Seq(RowType)
  BY DEF WorkType
<1>2. rows \in Seq(RowType \cup {r}) /\ r \in RowType \cup {r}
  <2>1. Len(rows) \in Nat /\ DOMAIN rows = 1 .. Len(rows)
        /\ rows = [i \in 1 .. Len(rows) |-> rows[i]]
        /\ \A i \in 1 .. Len(rows) : rows[i] \in RowType
    BY <1>1
  <2> QED
    BY <1>1, <2>1
<1>3. /\ DOMAIN rows = 1 .. Len(rows) /\ DOMAIN rows' = 1 .. Len(rows) + 1
      /\ Len(rows) \in Nat
      /\ \A i \in 1 .. Len(rows) : rows'[i] = rows[i]
      /\ rows'[Len(rows) + 1] = r
  BY <1>2, AppendFacts
<1> QED
  BY <1>3

\* A signal becomes a box and a box becomes a row; a new upload has a new id.
LEMMA PlaceStep ==
  ASSUME WorkType, InTurn, OnePlaceEach, [WindowNext]_allVars
  PROVE  OnePlaceEach'
<1> USE DEF work, network, view
<1>0. ASSUME UNCHANGED <<rows, boxes, signals, uploaded>>
      PROVE  OnePlaceEach'
  BY <1>0 DEF OnePlaceEach, RowIds
<1>1. CASE Aside
  <2>1. UNCHANGED <<rows, signals, uploaded>>
        /\ (boxes' = boxes \/ (boxes = <<>> /\ boxes' = <<Plain>>))
    BY <1>1 DEF Aside
  <2>2. CASE boxes' = boxes
    BY <1>0, <2>1, <2>2
  <2>3. CASE boxes = <<>> /\ boxes' = <<Plain>>
    <3>1. PutIds(boxes') = PutIds(boxes) /\ OnceEach(boxes')
      BY <2>3, WarningFacts
    <3> QED
      BY <2>1, <3>1 DEF OnePlaceEach, RowIds
  <2> QED
    BY <2>1, <2>2, <2>3
<1>2. ASSUME NEW kind, NEW n, Post(kind, n)
      PROVE  OnePlaceEach'
  BY <1>0, <1>2 DEF Post
<1>3. CASE Deliver
  <2>1. /\ signals # <<>> /\ signals' = Tail(signals)
        /\ boxes' = Append(boxes, Head(signals)) /\ UNCHANGED <<rows, uploaded>>
    BY <1>3 DEF Deliver
  <2>2. boxes \in Seq(BoxType) /\ signals \in Seq(SignalType)
    BY DEF WorkType
  <2>3. PICK b \in BoxType : b = Head(signals)
    <3>1. Head(signals) \in SignalType
      BY <2>1, <2>2, TailFacts
    <3> QED
      BY <3>1 DEF SignalType, BoxType
  <2>4. OnceEach(boxes) /\ OnceEach(signals)
    BY DEF OnePlaceEach
  <2>5. /\ b.slot = "put" => /\ PutIds(signals) = PutIds(signals') \cup {b.id}
                             /\ b.id \notin PutIds(signals')
        /\ b.slot # "put" => PutIds(signals') = PutIds(signals)
        /\ OnceEach(signals')
    BY <2>1, <2>2, <2>3, <2>4, PutTail
  <2>6. b.slot = "put" => b.id \notin PutIds(boxes)
    BY <2>5 DEF OnePlaceEach
  <2>7. /\ b.slot = "put" => PutIds(boxes') = PutIds(boxes) \cup {b.id}
        /\ b.slot # "put" => PutIds(boxes') = PutIds(boxes)
        /\ OnceEach(boxes')
    BY <2>1, <2>2, <2>3, <2>4, <2>6, PutAppend
  <2>8. RowIds' = RowIds
    BY <2>1 DEF RowIds
  <2>9. /\ uploaded' = RowIds' \cup PutIds(boxes') \cup PutIds(signals')
        /\ RowIds' \cap PutIds(boxes') = {}
        /\ RowIds' \cap PutIds(signals') = {}
        /\ PutIds(boxes') \cap PutIds(signals') = {}
    <3>1. CASE b.slot = "put"
      BY <2>1, <2>5, <2>7, <2>8, <3>1 DEF OnePlaceEach
    <3>2. CASE b.slot # "put"
      BY <2>1, <2>5, <2>7, <2>8, <3>2 DEF OnePlaceEach
    <3> QED
      BY <3>1, <3>2
  <2> QED
    BY <2>1, <2>5, <2>7, <2>9 DEF OnePlaceEach
<1>4. CASE CloseBox
  <2>1. /\ boxes # <<>> /\ boxes' = Front(boxes) /\ UNCHANGED <<signals, uploaded>>
        /\ boxes \in Seq(BoxType)
    BY <1>4, CloseFacts
  <2>2. PICK b : b = Last(boxes)
    OBVIOUS
  <2>3. OnceEach(boxes)
    BY DEF OnePlaceEach
  <2>4. /\ b.slot = "put" => /\ PutIds(boxes) = PutIds(boxes') \cup {b.id}
                             /\ b.id \notin PutIds(boxes')
        /\ b.slot # "put" => PutIds(boxes') = PutIds(boxes)
        /\ OnceEach(boxes')
    BY <2>1, <2>2, <2>3, PutFront
  <2>5. CASE b.slot # "put"
    <3>1. rows' = rows
      BY <1>4, <2>2, <2>5, CloseFacts
    <3> QED
      BY <2>1, <2>4, <2>5, <3>1 DEF OnePlaceEach, RowIds
  <2>6. CASE b.slot = "put"
    <3>1. PICK r : rows' = Append(rows, r) /\ r.share = b.id
      BY <1>4, <2>2, <2>6, CloseFacts
    <3>2. /\ DOMAIN rows' = DOMAIN rows \cup {Len(rows) + 1}
          /\ Len(rows) + 1 \notin DOMAIN rows
          /\ \A i \in DOMAIN rows : rows'[i] = rows[i]
          /\ rows'[Len(rows) + 1] = r
      BY <3>1, RowAppend
    <3>3. RowIds' = RowIds \cup {b.id}
      BY <3>1, <3>2 DEF RowIds
    <3>4. b.id \notin RowIds
      BY <2>4, <2>6 DEF OnePlaceEach
    <3>5. /\ uploaded' = RowIds' \cup PutIds(boxes') \cup PutIds(signals')
          /\ RowIds' \cap PutIds(boxes') = {}
          /\ RowIds' \cap PutIds(signals') = {}
          /\ PutIds(boxes') \cap PutIds(signals') = {}
      BY <2>1, <2>4, <2>6, <3>3 DEF OnePlaceEach
    <3>6. \A i, j \in DOMAIN rows' : rows'[i].share = rows'[j].share => i = j
      <4>1. \A i \in DOMAIN rows : rows[i].share # b.id
        BY <3>4 DEF RowIds
      <4>2. \A i, j \in DOMAIN rows : rows[i].share = rows[j].share => i = j
        BY DEF OnePlaceEach
      <4> QED
        BY <3>1, <3>2, <4>1, <4>2
    <3> QED
      BY <2>1, <2>3, <2>4, <3>5, <3>6 DEF OnePlaceEach
  <2> QED
    BY <2>5, <2>6
<1>5. CASE StartCall
  BY <1>0, <1>5 DEF StartCall
<1>6. ASSUME CallReturns \/ CallThrows
      PROVE  OnePlaceEach'
  <2>1. PICK b \in SignalType :
          /\ signals' = Append(signals, b) /\ UNCHANGED <<rows, boxes>>
          /\ b.slot = "put" => b.id = job.id /\ uploaded' = uploaded \cup {job.id}
          /\ b.slot # "put" => uploaded' = uploaded
    <3>1. CASE CallReturns
      <4>1. Box(job.kind, job.id, job.name).slot = job.kind
            /\ Box(job.kind, job.id, job.name).id = job.id
        BY <3>1, ReturnFacts, JobFacts
      <4> QED
        BY <3>1, <4>1, ReturnFacts
    <3>2. CASE CallThrows
      <4>1. Box("error", job.id, job.name).slot = "error"
            /\ Box("error", job.id, job.name) \in SignalType
        BY <3>2, JobFacts DEF CallThrows
      <4> QED
        BY <3>2, <4>1 DEF CallThrows
    <3> QED
      BY <1>6, <3>1, <3>2
  <2>2. job.id \notin uploaded
    <3>1. job # NoJob
      BY <1>6, ReturnFacts DEF CallThrows
    <3>2. job.id \in Nat /\ \A u \in uploaded : u \in Nat /\ u < job.id
      BY <3>1, CallIds DEF InTurn, EndedBefore
    <3> QED
      BY <3>2
  <2>3. signals \in Seq(SignalType) /\ OnceEach(signals)
    BY DEF WorkType, OnePlaceEach
  <2>4. b.slot = "put" => b.id \notin PutIds(signals)
    BY <2>1, <2>2 DEF OnePlaceEach
  <2>5. /\ b.slot = "put" => PutIds(signals') = PutIds(signals) \cup {b.id}
        /\ b.slot # "put" => PutIds(signals') = PutIds(signals)
        /\ OnceEach(signals')
    BY <2>1, <2>3, <2>4, PutAppend
  <2>6. RowIds' = RowIds
    BY <2>1 DEF RowIds
  <2>7. /\ uploaded' = RowIds' \cup PutIds(boxes') \cup PutIds(signals')
        /\ RowIds' \cap PutIds(boxes') = {}
        /\ RowIds' \cap PutIds(signals') = {}
        /\ PutIds(boxes') \cap PutIds(signals') = {}
    <3>1. CASE b.slot = "put"
      BY <2>1, <2>2, <2>5, <2>6, <3>1 DEF OnePlaceEach
    <3>2. CASE b.slot # "put"
      BY <2>1, <2>5, <2>6, <3>2 DEF OnePlaceEach
    <3> QED
      BY <3>1, <3>2
  <2> QED
    BY <2>1, <2>5, <2>7 DEF OnePlaceEach
<1> QED
  BY <1>1, <1>2, <1>3, <1>4, <1>5, <1>6, Moves

\* The manifest that a row will be filled from is never older than its upload.
LEMMA ReadyStep ==
  ASSUME WorkType, InTurn, OnePlaceEach, ManifestReady(boxes),
         ManifestReady(signals), RowsNotOutdated, [WindowNext]_allVars
  PROVE  ManifestReady(boxes)' /\ ManifestReady(signals)' /\ RowsNotOutdated'
<1> USE DEF work, network, view
<1>0. ASSUME UNCHANGED manifests, ManifestReady(boxes'), ManifestReady(signals'),
             UNCHANGED rows
      PROVE  ManifestReady(boxes)' /\ ManifestReady(signals)' /\ RowsNotOutdated'
  BY <1>0 DEF ManifestReady, RowsNotOutdated
<1>1. CASE Aside
  <2>1. UNCHANGED <<rows, signals, manifests>>
        /\ (boxes' = boxes \/ boxes' = <<Plain>>)
    BY <1>1 DEF Aside
  <2>2. ManifestReady(<<Plain>>)
    BY WarningFacts DEF ManifestReady
  <2>3. ManifestReady(boxes') /\ ManifestReady(signals')
    BY <2>1, <2>2
  <2> QED
    BY <1>0, <2>1, <2>3
<1>2. ASSUME NEW kind, NEW n, Post(kind, n)
      PROVE  ManifestReady(boxes)' /\ ManifestReady(signals)' /\ RowsNotOutdated'
  <2>1. UNCHANGED <<rows, boxes, signals, manifests>>
    BY <1>2 DEF Post
  <2> QED
    BY <1>0, <2>1
<1>3. CASE Deliver
  <2>1. /\ signals # <<>> /\ signals' = Tail(signals)
        /\ boxes' = Append(boxes, Head(signals)) /\ UNCHANGED <<rows, manifests>>
    BY <1>3 DEF Deliver
  <2>2. /\ boxes \in Seq(BoxType) /\ signals \in Seq(SignalType)
        /\ OnceEach(signals)
    BY DEF WorkType, OnePlaceEach
  <2>3. /\ Head(signals) \in SignalType /\ Head(signals) = signals[1]
        /\ 1 \in DOMAIN signals
    <3>1. /\ Head(signals) \in SignalType /\ Head(signals) = signals[1]
          /\ DOMAIN signals = 1 .. Len(signals)
          /\ Len(signals) \in Nat /\ Len(signals) >= 1
      BY <2>1, <2>2, TailFacts
    <3> QED
      BY <3>1
  <2>4. PICK b \in BoxType : b = Head(signals)
    BY <2>3 DEF SignalType, BoxType
  <2>5. b.slot = "put" => b.id <= manifests[b.name]
    BY <2>3, <2>4 DEF ManifestReady
  <2>6. ManifestReady(boxes')
    BY <2>1, <2>2, <2>4, <2>5, PutAppend
  <2>7. ManifestReady(signals')
    BY <2>1, <2>2, PutTail
  <2> QED
    BY <1>0, <2>1, <2>6, <2>7
<1>4. CASE CloseBox
  <2>1. /\ boxes # <<>> /\ boxes' = Front(boxes) /\ boxes \in Seq(BoxType)
        /\ UNCHANGED <<signals, manifests>> /\ OnceEach(boxes)
    BY <1>4, CloseFacts DEF OnePlaceEach
  <2>2. ManifestReady(boxes') /\ ManifestReady(signals')
    BY <2>1, PutFront
  <2>3. ManifestReady(boxes)' /\ ManifestReady(signals)'
    BY <2>1, <2>2 DEF ManifestReady
  <2>4. RowsNotOutdated'
    <3>1. CASE Last(boxes).slot # "put"
      <4>1. rows' = rows
        BY <1>4, <3>1, CloseFacts
      <4> QED
        BY <4>1 DEF RowsNotOutdated
    <3>2. CASE Last(boxes).slot = "put"
      <4>1. PICK m \in {manifests[Last(boxes).name], Unknown} :
              rows' = Append(rows, [share |-> Last(boxes).id,
                                    name |-> Last(boxes).name, shows |-> m])
        BY <1>4, <3>2, CloseFacts
      <4>2. PICK r : /\ rows' = Append(rows, r) /\ r.share = Last(boxes).id
                     /\ r.shows = m
        BY <4>1
      <4>3. /\ Last(boxes) = boxes[Len(boxes)] /\ DOMAIN boxes = 1 .. Len(boxes)
            /\ Len(boxes) \in Nat /\ Len(boxes) >= 1 /\ Last(boxes) \in BoxType
        BY <2>1, FrontFacts
      <4>4. Len(boxes) \in DOMAIN boxes
        BY <4>3
      <4>5. Last(boxes).id <= manifests[Last(boxes).name]
        BY <3>2, <4>3, <4>4 DEF ManifestReady
      <4>6. Last(boxes).id \in Nat /\ manifests[Last(boxes).name] \in Nat
        <5>1. Last(boxes).name \in Names /\ Last(boxes).id \in 0 .. MaxClicks
          BY <4>3 DEF BoxType
        <5> QED
          BY <5>1, CallIds, WindowAssumption
      <4>7. r.shows = Unknown \/ r.shows >= r.share
        BY <4>1, <4>2, <4>5, <4>6
      <4>8. /\ DOMAIN rows' = DOMAIN rows \cup {Len(rows) + 1}
            /\ \A i \in DOMAIN rows : rows'[i] = rows[i]
            /\ rows'[Len(rows) + 1] = r
        BY <4>2, RowAppend
      <4> QED
        BY <4>7, <4>8 DEF RowsNotOutdated
    <3> QED
      BY <3>1, <3>2
  <2> QED
    BY <2>3, <2>4
<1>5. CASE StartCall
  <2>1. UNCHANGED <<rows, boxes, signals, manifests>>
    BY <1>5 DEF StartCall
  <2> QED
    BY <1>0, <2>1
<1>6. CASE CallThrows
  <2>1. /\ UNCHANGED <<rows, boxes, manifests>>
        /\ signals' = Append(signals, Box("error", job.id, job.name))
    BY <1>6 DEF CallThrows
  <2>2. PICK b \in SignalType : signals' = Append(signals, b) /\ b.slot # "put"
    BY <1>6, <2>1, JobFacts DEF CallThrows
  <2>3. signals \in Seq(SignalType)
    BY DEF WorkType
  <2>4. ManifestReady(signals')
    BY <2>2, <2>3, PutAppend
  <2> QED
    BY <1>0, <2>1, <2>4
<1>7. CASE CallReturns
  <2>1. /\ job # NoJob /\ UNCHANGED <<rows, boxes>>
        /\ job.id \in Nat /\ job.name \in Names
        /\ Box(job.kind, job.id, job.name).slot = job.kind
        /\ Box(job.kind, job.id, job.name).id = job.id
        /\ Box(job.kind, job.id, job.name).name = job.name
    BY <1>7, ReturnFacts, JobFacts, CallIds
  <2>2. PICK b \in SignalType :
          /\ signals' = Append(signals, b)
          /\ b.slot = job.kind /\ b.id = job.id /\ b.name = job.name
    BY <1>7, <2>1, ReturnFacts
  <2>3. \A n \in Names : /\ manifests[n] \in Nat /\ manifests'[n] \in Nat
                         /\ manifests[n] <= manifests'[n]
    <3>1. manifests \in [Names -> 0 .. MaxClicks] /\ \A n \in Names : manifests[n] \in Nat
      BY CallIds DEF WorkType
    <3>2. \A n \in Names : manifests[n] < job.id
      BY <2>1 DEF InTurn, EndedBefore
    <3>3. CASE job.kind = "put"
      <4>1. manifests' = [manifests EXCEPT ![job.name] = job.id]
        BY <1>7, <3>3, ReturnFacts
      <4> QED
        BY <2>1, <3>1, <3>2, <4>1
    <3>4. CASE job.kind # "put"
      <4>1. manifests' = manifests
        BY <1>7, <3>4, ReturnFacts
      <4> QED
        BY <3>1, <4>1
    <3> QED
      BY <3>3, <3>4
  <2>4. b.slot = "put" => b.id <= manifests'[b.name]
    <3>1. job.kind = "put" => manifests'[job.name] = job.id
      BY <1>7, <2>1, ReturnFacts DEF WorkType
    <3> QED
      BY <2>1, <2>2, <3>1
  <2>5. ManifestReady(boxes)'
    <3>1. ASSUME NEW i \in DOMAIN boxes
          PROVE  boxes[i].name \in Names /\ boxes[i].id \in Nat
      <4>1. boxes \in Seq(BoxType)
        BY DEF WorkType
      <4>2. boxes[i] \in BoxType
        BY <3>1, <4>1
      <4> QED
        BY <4>2, WindowAssumption DEF BoxType
    <3> QED
      BY <2>1, <2>3, <3>1 DEF ManifestReady
  <2>6. ManifestReady(signals)'
    <3>0. signals \in Seq(SignalType)
      BY DEF WorkType
    <3>1. ASSUME NEW i \in DOMAIN signals
          PROVE  signals[i].name \in Names /\ signals[i].id \in Nat
      <4>1. signals[i] \in SignalType
        BY <3>0, <3>1
      <4> QED
        BY <4>1, WindowAssumption DEF SignalType
    <3>2. /\ DOMAIN signals = 1 .. Len(signals) /\ Len(signals) \in Nat
          /\ DOMAIN signals' = 1 .. Len(signals) + 1
          /\ \A i \in 1 .. Len(signals) : signals'[i] = signals[i]
          /\ signals'[Len(signals) + 1] = b
      BY <2>2, <3>0, AppendFacts
    <3>3. \A i \in DOMAIN signals' : \/ i \in DOMAIN signals /\ signals'[i] = signals[i]
                                     \/ signals'[i] = b
      BY <3>2
    <3> QED
      BY <2>3, <2>4, <3>1, <3>3 DEF ManifestReady
  <2>7. RowsNotOutdated'
    BY <2>1 DEF RowsNotOutdated
  <2> QED
    BY <2>5, <2>6, <2>7
<1> QED
  BY <1>1, <1>2, <1>3, <1>4, <1>5, <1>6, <1>7, Moves

\* The bar is shown by a call and hidden with its signal.
LEMMA BusyStep ==
  ASSUME WorkType, BusyWithReason, [WindowNext]_allVars
  PROVE  BusyWithReason'
<1> USE DEF work, network, view
<1>1. ASSUME UNCHANGED <<busy, calls, job, signals>>
      PROVE  BusyWithReason'
  BY <1>1 DEF BusyWithReason
<1>2. ASSUME NEW kind \in {"put", "get", "repair"}, NEW n \in Names, Post(kind, n)
      PROVE  BusyWithReason'
  <2>1. /\ calls \in Seq(Calls)
        /\ calls' = Append(calls, [kind |-> kind, id |-> clicks', name |-> n])
    BY <1>2 DEF Post, WorkType
  <2>2. calls' # <<>>
    BY <2>1
  <2> QED
    BY <2>2 DEF BusyWithReason
<1>3. CASE StartCall
  <2>1. calls # <<>> /\ calls \in Seq(Calls) /\ job' = Head(calls)
    BY <1>3 DEF StartCall, WorkType
  <2>2. job' \in Calls
    BY <2>1, TailFacts
  <2>3. job' # NoJob
    BY <2>2 DEF Calls, NoJob
  <2> QED
    BY <2>3 DEF BusyWithReason
<1>4. ASSUME CallReturns \/ CallThrows
      PROVE  BusyWithReason'
  <2>1. PICK b : signals' = Append(signals, b)
    BY <1>4 DEF CallReturns, CallThrows
  <2>2. signals \in Seq(SignalType)
    BY DEF WorkType
  <2>3. Len(signals') = Len(signals) + 1 /\ Len(signals) \in Nat
    BY <2>1, <2>2
  <2>4. signals' # <<>>
    BY <2>3
  <2> QED
    BY <2>4 DEF BusyWithReason
<1> QED
  BY <1>1, <1>2, <1>3, <1>4, Moves DEF Aside, Deliver, CloseBox, BusyWithReason

-----------------------------------------------------------------------------
(* The inductive invariant and what follows from it.                       *)

LEMMA InitWindowInv == WindowInit => WindowInv
<1> SUFFICES ASSUME WindowInit
             PROVE  WindowInv
  OBVIOUS
<1>0. clicks = 0 /\ 0 \in 0 .. MaxClicks
  BY WindowAssumption DEF WindowInit
<1>1. ListType /\ ListInv
  BY DEF WindowInit, Init, ListType, ListInv, InEventLoop
<1>2. WorkType
  <2>1. manifests \in [Names -> 0 .. MaxClicks]
    BY <1>0 DEF WindowInit, Unknown
  <2>2. \A S : <<>> \in Seq(S)
    OBVIOUS
  <2>3. /\ busy = FALSE /\ boxes = <<>> /\ rows = <<>> /\ calls = <<>>
        /\ signals = <<>> /\ job = NoJob /\ uploaded = {}
    BY DEF WindowInit
  <2> QED
    BY <1>0, <2>1, <2>2, <2>3 DEF WorkType
<1>3. InTurn
  BY <1>0 DEF WindowInit, InTurn, EndedBefore, Unknown
<1>4. OnePlaceEach
  BY WarningFacts DEF WindowInit, OnePlaceEach, RowIds, OnceEach
<1>5. ManifestReady(boxes) /\ ManifestReady(signals) /\ RowsNotOutdated
      /\ BusyWithReason
  BY DEF WindowInit, ManifestReady, RowsNotOutdated, BusyWithReason
<1> QED
  BY <1>1, <1>2, <1>3, <1>4, <1>5, TypeParts DEF WindowInv

\* WindowInv is an invariant, in whatever order the user, the worker thread, the
\* embedded peer and the nested event loops take their steps.
THEOREM Invariance == WindowSpec => []WindowInv
<1>1. WindowInv /\ [WindowNext]_allVars => WindowInv'
  <2> SUFFICES ASSUME WindowInv, [WindowNext]_allVars
               PROVE  WindowInv'
    OBVIOUS
  <2>1. /\ ListType /\ WorkType /\ ListInv /\ InTurn /\ OnePlaceEach
        /\ ManifestReady(boxes) /\ ManifestReady(signals) /\ RowsNotOutdated
        /\ BusyWithReason
    BY TypeParts DEF WindowInv
  <2>2. ListType' /\ ListInv' /\ WorkType' /\ InTurn'
    BY <2>1, ListStep, WorkTypeStep, InTurnStep
  <2>3. OnePlaceEach' /\ BusyWithReason'
    BY <2>1, PlaceStep, BusyStep
  <2>4. ManifestReady(boxes)' /\ ManifestReady(signals)' /\ RowsNotOutdated'
    BY <2>1, ReadyStep
  <2>5. WindowTypeOK'
    BY <2>2, TypeParts
       DEF WindowTypeOK, ListType, WorkType, BoxType, SignalType, RowType
  <2> QED
    BY <2>2, <2>3, <2>4, <2>5 DEF WindowInv
<1> QED
  BY <1>1, InitWindowInv, PTL DEF WindowSpec

\* Type correctness of the window, and no slot runs while the GUI thread is busy.
THEOREM TypeCorrect == WindowSpec => []WindowTypeOK
<1>1. WindowInv => WindowTypeOK
  BY DEF WindowInv
<1> QED
  BY <1>1, Invariance, PTL

\* ListIsCurrent: whenever the user can click, the list of peers is that of the
\* settings in force, and names the embedded peer if it runs.
THEOREM ListCorrect == WindowSpec => []ListIsCurrent
<1>1. WindowInv => ListIsCurrent
  BY DEF WindowInv, ListInv, ListIsCurrent, AtLeisure
<1> QED
  BY <1>1, Invariance, PTL

\* RowsNotOutdated: a row never shows an earlier upload of a file of that name.
THEOREM RowsCorrect == WindowSpec => []RowsNotOutdated
<1>1. WindowInv => RowsNotOutdated
  BY DEF WindowInv
<1> QED
  BY <1>1, Invariance, PTL

\* RowsMatchUploads: when nothing is under way every upload that succeeded has one
\* row, and no other has, in whatever order the boxes were nested and closed.
THEOREM RowsComplete == WindowSpec => []RowsMatchUploads
<1>1. WindowInv => RowsMatchUploads
  <2> SUFFICES ASSUME WindowInv, boxes = <<>>, calls = <<>>, job = NoJob,
                      signals = <<>>
               PROVE  /\ {rows[i].share : i \in DOMAIN rows} = uploaded
                      /\ Len(rows) = Cardinality(uploaded)
                      /\ ~busy
    BY DEF RowsMatchUploads, AtLeisure
  <2>1. OnePlaceEach /\ rows \in Seq(RowType) /\ ~busy
    BY TypeParts DEF WindowInv, WorkType, BusyWithReason
  <2>2. RowIds = uploaded
    BY <2>1, WarningFacts DEF OnePlaceEach
  <2>3. Len(rows) = Cardinality(uploaded)
    <3> DEFINE f == [i \in 1 .. Len(rows) |-> rows[i].share]
    <3>1. Len(rows) \in Nat /\ DOMAIN rows = 1 .. Len(rows)
      BY <2>1
    <3>2. f \in Bijection(1 .. Len(rows), uploaded)
      <4>1. \A i \in 1 .. Len(rows) : f[i] \in uploaded
        BY <2>2, <3>1 DEF RowIds
      <4>2. \A i, j \in 1 .. Len(rows) : f[i] = f[j] => i = j
        BY <2>1, <3>1 DEF OnePlaceEach
      <4>3. \A u \in uploaded : \E i \in 1 .. Len(rows) : f[i] = u
        BY <2>2, <3>1 DEF RowIds
      <4> QED
        BY <4>1, <4>2, <4>3 DEF Bijection, Injection, Surjection, IsInjective
    <3> HIDE DEF f
    <3>3. ExistsBijection(1 .. Len(rows), uploaded)
      BY <3>2 DEF ExistsBijection
    <3>4. Cardinality(uploaded) = Len(rows)
      BY <3>1, <3>3, FS_CountingElements
    <3> QED
      BY <3>4
  <2> QED
    BY <2>1, <2>2, <2>3 DEF RowIds
<1> QED
  BY <1>1, Invariance, PTL

=============================================================================
