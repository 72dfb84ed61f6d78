----------------------------- MODULE PeerCalls ------------------------------
(***************************************************************************)
(* What a caller of PeerClient (core/peer/peer_client.h) may expect of a   *)
(* peer: a call acts on the peer's disk at one moment or never, and        *)
(* succeeds only if it did.  A call that failed may still act, but not     *)
(* after a call that was begun later.  PeerProtocol implements it.         *)
(***************************************************************************)
EXTENDS Integers, Sequences

CONSTANTS
  Objects,     \* ids of chunks and manifests
  Manifests,   \* those of manifests, which no ledger lists
  Requests,    \* pairs of an operation, "put", "get" or "has", and an id
  MaxCalls     \* bound: calls

VARIABLES
  disk,        \* the file of an object: absent, whole, or torn
  listed,      \* the chunks the peer believes it has
  calls        \* the calls in the order they were begun

vars == <<disk, listed, calls>>

\* What a call has seen or done: nothing yet; else how it found the file or the
\* ledger, or, for a put, that it was written.
Unseen == "nothing"

Init ==
  /\ disk = [o \in Objects |-> "absent"]
  /\ listed = {}
  /\ calls = <<>>

Begin(r) ==
  /\ Len(calls) < MaxCalls
  /\ calls' = Append(calls, [req |-> r, seen |-> Unseen, result |-> "none"])
  /\ UNCHANGED <<disk, listed>>

\* A put may leave a torn file.  That of a chunk makes the peer drop any chunks it
\* lists, this one too, and it may fail to remove their files.
Put(o) ==
  \E f \in {"whole", "torn"} :
    \/ /\ o \in Manifests
       /\ disk' = [disk EXCEPT ![o] = f]
       /\ UNCHANGED listed
    \/ /\ o \notin Manifests
       /\ \E kept \in SUBSET (listed \cup {o}) :
            \E gone \in SUBSET ((listed \cup {o}) \ kept) :
              /\ listed' = kept
              /\ disk' = [x \in Objects |-> IF x \in gone THEN "absent"
                                            ELSE IF x = o THEN f ELSE disk[x]]

\* To be asked for a chunk is to look in the ledger, all else is to look for the
\* file.
Look(r) ==
  IF r.op = "get" \/ r.id \in Manifests THEN disk[r.id]
  ELSE IF r.id \in listed THEN "listed" ELSE "absent"

\* The one moment a call acts.
Act(k) ==
  LET r == calls[k].req IN
  /\ \A j \in k .. Len(calls) : calls[j].seen = Unseen
  /\ \/ /\ r.op # "put"
        /\ calls' = [calls EXCEPT ![k].seen = Look(r)]
        /\ UNCHANGED <<disk, listed>>
     \/ /\ r.op = "put"
        /\ calls' = [calls EXCEPT ![k].seen = "written"]
        /\ Put(r.id)

\* The peer has been started again: its ledger lists some of what was ever put.
Reload ==
  LET put == {k \in DOMAIN calls : calls[k].seen = "written"} IN
  /\ listed' \in SUBSET ({calls[k].req.id : k \in put} \ Manifests)
  /\ UNCHANGED <<disk, calls>>

\* What a call may return that has seen s: success only by what it saw.
Results(op, s) ==
  {"failed"} \cup CASE op = "put" -> IF s = "written" THEN {"ok"} ELSE {}
                    [] op = "get" -> IF s \in {"whole", "torn"} THEN {s} ELSE {}
                    [] op = "has" -> IF s \in {"whole", "torn", "listed"} THEN {"yes", "no"}
                                     ELSE {"no"}

Return(k) ==
  /\ calls[k].result = "none"
  /\ \E res \in Results(calls[k].req.op, calls[k].seen) :
       calls' = [calls EXCEPT ![k].result = res]
  /\ UNCHANGED <<disk, listed>>

Next ==
  \/ \E r \in Requests : Begin(r)
  \/ \E k \in DOMAIN calls : Act(k) \/ Return(k)
  \/ Reload

Spec == Init /\ [][Next]_vars

=============================================================================
