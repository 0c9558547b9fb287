------------------------------- MODULE Cutover -------------------------------
(***************************************************************************)
(* What a zero-downtime rollout promises (docs/configuration.md, ADR-0040), *)
(* without its commands: the containers that served a service when the      *)
(* deploy began are kept until a container of the new version has been seen *)
(* healthy; a new container never seen healthy may be given up.  A rollback *)
(* that restores the old version in place makes no such promise.            *)
(***************************************************************************)
EXTENDS FiniteSets

CONSTANT Service    \* the services that roll

VARIABLES
    stage,      \* "idle", "cutover" or "restore"
    served,     \* services that ran when the deploy began
    kept,       \* services with a container from before the deploy
    fresh,      \* services with a container the deploy created
    ready,      \* services whose new container was seen healthy
    exited      \* services that lost a container on its own since the deploy began

vars == <<stage, served, kept, fresh, ready, exited>>

Init ==
    /\ stage = "idle"
    /\ kept \subseteq Service /\ served = kept /\ fresh = {} /\ ready = {} /\ exited = {}

Begin ==
    /\ stage = "idle"
    /\ stage' = "cutover"
    /\ served' = kept \cup fresh
    /\ kept' = kept \cup fresh
    /\ fresh' = {} /\ ready' = {} /\ exited' = {}

\* A step of the cutover may be its last.
Step ==
    /\ stage = "cutover"
    /\ stage' \in {"cutover", "restore", "idle"}
    /\ UNCHANGED <<served, exited>>

Start(s) == Step /\ fresh' = fresh \cup {s} /\ UNCHANGED <<kept, ready>>
SeenHealthy(s) == Step /\ s \in fresh /\ ready' = ready \cup {s} /\ UNCHANGED <<kept, fresh>>
Drain(s) == Step /\ s \in ready /\ kept' = kept \ {s} /\ UNCHANGED <<fresh, ready>>
GiveUp(s) == Step /\ s \notin ready /\ fresh' = fresh \ {s} /\ UNCHANGED <<kept, ready>>
End == Step /\ UNCHANGED <<kept, fresh, ready>>

Restore ==
    /\ stage = "restore"
    /\ stage' = "idle"
    /\ kept' \subseteq Service /\ fresh' \subseteq Service
    /\ UNCHANGED <<served, ready, exited>>

\* A container stops without being told to.
Exit(s) ==
    /\ kept' \in {kept, kept \ {s}}
    /\ fresh' \in {fresh, fresh \ {s}}
    /\ exited' = exited \cup {s}
    /\ UNCHANGED <<stage, served, ready>>

Next ==
    \/ Begin \/ End \/ Restore
    \/ \E s \in Service : Start(s) \/ SeenHealthy(s) \/ Drain(s) \/ GiveUp(s) \/ Exit(s)

Spec == Init /\ [][Next]_vars

\* While services are cut over, one that was serving when the deploy began still
\* has a container from then, unless a new one was seen healthy or a container
\* of it stopped on its own.
KeptUntilReady == stage = "cutover" => served \subseteq kept \cup ready \cup exited
=============================================================================
