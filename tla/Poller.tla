------------------------------- MODULE Poller -------------------------------
(***************************************************************************)
(* The runtime health poller (internal/health): it probes the containers of *)
(* every effective stack with `docker compose ps`, classifies them, and     *)
(* hands the snapshot to its sinks on its own goroutine.  The next poll     *)
(* waits until every sink has returned.                                     *)
(*                                                                         *)
(* One service has at most one container here.  Containers change on their *)
(* own at any time; the sinks of this module's users (SelfHeal, HealthWatch)*)
(* see them only through snapshots.  A consumer is always wired, so every   *)
(* tick polls (AlwaysPoll).                                                 *)
(***************************************************************************)
EXTENDS Naturals, FiniteSets

CONSTANTS
    None,       \* nothing: no snapshot, no state, no event
    Stack,      \* the stacks skipper may manage
    Service,    \* compose services of a stack
    OnDemand,   \* services whose container is in on_demand_containers
    Lines       \* Lines[v]: the `ps` lines a container of service v can show

ASSUME PollerAssumption ==
    /\ OnDemand \subseteq Service
    /\ Lines \in [Service -> SUBSET [state : STRING, health : STRING, exit : Nat]]

VARIABLES
    containers, \* containers[s]: the ps line of each service that has a container
    refs,       \* the stacks the next poll probes (the effective stacks)
    ticker,     \* the ticker channel holds a tick
    trigger,    \* the trigger channel holds a request
    snap        \* the snapshot the sinks are working on, or None

pollerVars == <<containers, refs, ticker, trigger, snap>>

Status == {"healthy", "unhealthy", "starting", "stopped"}
Busy == snap # None

-----------------------------------------------------------------------------
(* Classification.                                                         *)

\* The compose health wins when there is one, else the container state counts.
\* An exited on-demand container is stopped, whatever its exit code.
serviceStatus(v, l) ==
    CASE l.health \in {"healthy", "unhealthy", "starting"} -> l.health
      [] l.health \notin Status /\ l.state = "running" -> "healthy"
      [] l.health \notin Status /\ l.state \in {"restarting", "dead"} -> "unhealthy"
      [] l.health \notin Status /\ l.state \in {"created", "starting"} -> "starting"
      [] l.health \notin Status /\ l.state \in {"exited", "removing"}
            /\ l.exit # 0 /\ v \notin OnDemand -> "unhealthy"
      [] OTHER -> "stopped"

\* Any unhealthy service dominates, then starting, then healthy.
rollup(statuses) ==
    CASE "unhealthy" \in statuses -> "unhealthy"
      [] "unhealthy" \notin statuses /\ "starting" \in statuses -> "starting"
      [] statuses \cap {"unhealthy", "starting"} = {} /\ "healthy" \in statuses -> "healthy"
      [] OTHER -> "stopped"

\* What a probe of containers c reads: [status, services].
health(c) ==
    LET services == [v \in DOMAIN c |-> serviceStatus(v, c[v])]
    IN  [status |-> rollup({services[v] : v \in DOMAIN c}), services |-> services]

unreadable == [status |-> "unknown", services |-> [v \in {} |-> "stopped"]]

-----------------------------------------------------------------------------
(* The poll loop.  A full channel drops a further tick or request.         *)

\* pollOnce: every probe either reads the containers or fails.
Snapshots(readable) ==
    [s \in refs |-> IF s \in readable THEN health(containers[s]) ELSE unreadable]

TakeTick == ticker /\ ticker' = FALSE /\ UNCHANGED trigger
TakeTrigger == trigger /\ trigger' = FALSE /\ UNCHANGED ticker

pollOnce(readable) ==
    /\ ~Busy
    /\ TakeTick \/ TakeTrigger
    /\ snap' = Snapshots(readable)
    /\ UNCHANGED <<containers, refs>>

\* A run has ended or a client connected: Poll coalesces with a waiting request.
RequestPoll == trigger' = TRUE

-----------------------------------------------------------------------------
(* The environment.                                                        *)

ContainerSets == UNION {[V -> UNION {Lines[v] : v \in Service}] : V \in SUBSET Service}
Containers == {c \in ContainerSets : \A v \in DOMAIN c : c[v] \in Lines[v]}

\* A container starts, stops, turns unhealthy, is removed...
ContainersChange(s) ==
    /\ \E c \in Containers \ {containers[s]} : containers' = [containers EXCEPT ![s] = c]
    /\ UNCHANGED <<refs, ticker, trigger, snap>>

\* Discovery adds a stack or parks it: StackRefs reads the effective stacks.
StackSetChanges(s) ==
    /\ refs' = IF s \in refs THEN refs \ {s} ELSE refs \cup {s}
    /\ UNCHANGED <<containers, ticker, trigger, snap>>

PollerInit ==
    /\ containers \in [Stack -> Containers]
    /\ refs = Stack
    /\ ticker = FALSE
    /\ trigger = FALSE
    /\ snap = None

=============================================================================
