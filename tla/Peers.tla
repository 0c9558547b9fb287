-------------------------------- MODULE Peers --------------------------------
(***************************************************************************)
(* The multi-host fan-in (ADR-0048, internal/peers): one loop polls every   *)
(* peer, each in a goroutine of its own, stores what came back and hands    *)
(* the merged state to the event stream; a client that connects, or asks    *)
(* GET /api/peers, reads the registry at any moment in between.             *)
(*                                                                         *)
(* What a peer has to tell is a number that grows with every change over    *)
(* there; its snapshot and its audit trail each carry the number of the     *)
(* moment they were read.                                                   *)
(***************************************************************************)
EXTENDS Naturals

CONSTANTS
    Nothing,        \* no data, no line
    peer,           \* the configured peers
    MaxChanges      \* bound: MaxChanges[p] changes of peer p

\* What a peer told, as its entry keeps it: the state it was in, and its deploys.
PeerAnswer == [state : Nat, deploys : Nat \cup {Nothing}]

ASSUME PeersAssumption == Nothing \notin PeerAnswer

VARIABLES
    \* the peers
    answering,      \* answering[p]: "yes", "old" (no /v1 audit route), "snapshot" (its audit
                    \* fails) or "no"
    news,           \* news[p]: what it has to tell
    \* the registry
    data,           \* data[p]: its last good answer, or Nothing
    reachable, polled,
    \* the loop and its goroutines
    pass,           \* "idle", "polling" or "publishing"
    fetched,        \* fetched[p]: "start", "snapshot" or "stored"
    snapshot,       \* snapshot[p]: the number of the snapshot it has read
    published,      \* the merged state published last, or Nothing
    \* ghosts
    asked           \* asked[p]: news[p] when the last finished poll of p began

peerVars == <<answering, news>>
registryVars == <<data, reachable, polled>>
loopVars == <<pass, fetched, snapshot, published>>
peersVars == <<peerVars, registryVars, loopVars, asked>>

-----------------------------------------------------------------------------
(* State and Hosts: reachability next to the last-known data. *)

PeerView(p) ==
    [reachable |-> reachable[p], data |-> data[p], stale |-> data[p] # Nothing /\ ~reachable[p]]

State == [p \in peer |-> PeerView(p)]

-----------------------------------------------------------------------------
(* One pass *)

StartPass ==
    /\ pass = "idle" /\ pass' = "polling"
    /\ fetched' = [p \in peer |-> "start"]
    /\ UNCHANGED <<peerVars, registryVars, snapshot, published, asked>>

\* Faulty variant: a failed poll leaves the entry as it was.
FailedSilently(p) ==
    /\ polled' = [polled EXCEPT ![p] = TRUE]
    /\ UNCHANGED <<reachable, data>>

\* The entry of a peer that did not answer: its last-known data stays.
Failed(p) ==
    /\ reachable' = [reachable EXCEPT ![p] = FALSE] /\ polled' = [polled EXCEPT ![p] = TRUE]
    /\ UNCHANGED data

\* The entry of a peer that did.
Stored(p, d) ==
    /\ reachable' = [reachable EXCEPT ![p] = TRUE] /\ polled' = [polled EXCEPT ![p] = TRUE]
    /\ data' = [data EXCEPT ![p] = d]

\* One GET: no answer in time, or any status but 200 and 404, is an error.
getJSON(p, route) ==
    CASE answering[p] = "yes" \/ (answering[p] # "no" /\ route = "snapshot") -> "ok"
      [] answering[p] = "old" /\ route = "auditV1" -> "not found"
      [] answering[p] = "old" /\ route = "auditLegacy" -> "ok"
      [] OTHER -> "error"

\* The snapshot is the reachability signal: without it the whole fetch fails.
FetchSnapshot(p) ==
    /\ pass = "polling" /\ fetched[p] = "start"
    /\ IF getJSON(p, "snapshot") = "error"
       THEN /\ Failed(p)
            /\ fetched' = [fetched EXCEPT ![p] = "stored"] /\ UNCHANGED snapshot
       ELSE /\ fetched' = [fetched EXCEPT ![p] = "snapshot"]
            /\ snapshot' = [snapshot EXCEPT ![p] = news[p]]
            /\ UNCHANGED <<registryVars>>
    /\ asked' = [asked EXCEPT ![p] = news[p]]
    /\ UNCHANGED <<peerVars, pass, published>>

\* The audit trail, from the legacy route where the peer answers 404; any other
\* failure is not retried there.
fetchAudit(p) ==
    LET v1 == getJSON(p, "auditV1")
        answer == IF v1 = "not found" THEN getJSON(p, "auditLegacy") ELSE v1
    IN  IF answer = "ok" THEN news[p] ELSE Nothing

\* Faulty variant: a peer without its audit trail counts as down.
AuditRequired(p) ==
    /\ pass = "polling" /\ fetched[p] = "snapshot"
    /\ IF fetchAudit(p) # Nothing
       THEN Stored(p, [state |-> snapshot[p], deploys |-> fetchAudit(p)])
       ELSE Failed(p)
    /\ fetched' = [fetched EXCEPT ![p] = "stored"]
    /\ UNCHANGED <<peerVars, pass, snapshot, published, asked>>

\* The audit trail comes after, and is best effort: without it the peer has no
\* deploy rows but is reachable.
FetchAudit(p) ==
    /\ pass = "polling" /\ fetched[p] = "snapshot"
    /\ Stored(p, [state |-> snapshot[p], deploys |-> fetchAudit(p)])
    /\ fetched' = [fetched EXCEPT ![p] = "stored"]
    /\ UNCHANGED <<peerVars, pass, snapshot, published, asked>>

\* Every goroutine is done: the merged state goes out and the loop waits for a tick.
PublishPass ==
    /\ pass = "polling" /\ \A p \in peer : fetched[p] = "stored"
    /\ pass' = "idle" /\ published' = State
    /\ UNCHANGED <<peerVars, registryVars, fetched, snapshot, asked>>

\* A peer changes, or answers differently from now on.
PeerChanges(p) ==
    /\ news[p] < MaxChanges[p] /\ news' = [news EXCEPT ![p] = @ + 1]
    /\ answering' \in {[answering EXCEPT ![p] = a] : a \in {"yes", "old", "snapshot", "no"}}
    /\ UNCHANGED <<registryVars, loopVars, asked>>

PeersInit ==
    /\ answering = [p \in peer |-> "yes"] /\ news = [p \in peer |-> 0]
    /\ data = [p \in peer |-> Nothing]
    /\ reachable = [p \in peer |-> FALSE] /\ polled = [p \in peer |-> FALSE]
    /\ pass = "idle" /\ fetched = [p \in peer |-> "stored"]
    /\ snapshot = [p \in peer |-> 0] /\ published = Nothing
    /\ asked = [p \in peer |-> 0]

Fetch(p) == FetchSnapshot(p) \/ FetchAudit(p)

PeersNext ==
    \/ StartPass \/ PublishPass
    \/ \E p \in peer : Fetch(p) \/ PeerChanges(p)

-----------------------------------------------------------------------------

\* A peer that is shown reachable is shown as it was when its last poll began or
\* later, never from an earlier pass; one that is not keeps what it last told.
ReachableIsCurrent ==
    pass = "idle" =>
        \A p \in peer :
            /\ reachable[p] => data[p] # Nothing /\ data[p].state >= asked[p]
            /\ data[p] # Nothing => data[p].state <= asked[p]

\* Once the peers keep still, what is published is what they are.
HostsSettled ==
    /\ published # Nothing
    /\ \A p \in peer :
        /\ published[p].reachable = (answering[p] # "no")
        /\ answering[p] # "no" => published[p].data.state = news[p]
        /\ answering[p] \in {"yes", "old"} => published[p].data.deploys = news[p]

=============================================================================
