------------------------------- MODULE Rollout -------------------------------
(***************************************************************************)
(* The rollout of one stack (rollout.go), command by command, with the      *)
(* rollback it ends in when a command fails, the containers compose makes   *)
(* of it, and several deploys in a row: what one leaves behind, the next    *)
(* one finds.                                                              *)
(*                                                                         *)
(* A container is listed while it runs.  Docker and compose are modelled by *)
(* what the code expects of them.  Every command fails once the context is  *)
(* cancelled; a command that failed may have done a part of its work.       *)
(***************************************************************************)
EXTENDS Naturals, Sequences, FiniteSets, FiniteSetsExt

CONSTANTS
    Rolled,         \* rollout.services: a sequence
    Rest,           \* the other services of the compose file
    RollbackEnabled,\* effective rollback policy
    Faults,         \* subset of FaultKind
    MaxVersion,     \* bound: versions pushed
    MaxDeploys,     \* bound: deploys, retries included
    MaxFaults       \* bound: faults that happen

FaultKind == {"up", "ps", "stop", "probe", "exit", "shutdown"}
RolledService == {Rolled[i] : i \in DOMAIN Rolled}
Service == RolledService \cup Rest

ASSUME RolloutAssumption ==
    /\ Rolled \in Seq(RolledService) /\ IsFiniteSet(Rest)
    /\ RolledService \cap Rest = {} /\ RolledService # {}
    /\ \A i, j \in DOMAIN Rolled : Rolled[i] = Rolled[j] => i = j
    /\ RollbackEnabled \in BOOLEAN
    /\ Faults \subseteq FaultKind
    /\ {MaxVersion, MaxDeploys, MaxFaults} \subseteq Nat

VARIABLES
    containers,     \* the running containers
    base,           \* the version last deployed successfully; 0: none
    version,        \* the version being deployed
    phase,          \* where the deploy is
    next,           \* index of the service being rolled
    oldIDs,         \* its containers when its cutover began
    newIDs,         \* the canaries the last poll listed
    cancelled,      \* the deploy's context is cancelled
    outcome,        \* what the last deploy reported
    deploys, faults,\* counted for the bounds
    \* ghosts
    before,         \* ids running when the deploy began
    ready,          \* services whose canary a poll saw healthy in this deploy
    exited,         \* services that lost a container on its own in this deploy
    flawless        \* no fault in this deploy so far

deployVars == <<version, phase, next, oldIDs, newIDs, outcome, deploys>>
ghosts == <<before, ready, exited, flawless>>
vars == <<containers, base, deployVars, cancelled, faults, ghosts>>

Id == [service : Service, n : Nat]
Container == [id : Id, version : Nat, healthy : BOOLEAN]
Of(s) == {c \in containers : c.id.service = s}
IdsOf(cs) == {c.id : c \in cs}
Cur == Rolled[next]

-----------------------------------------------------------------------------
(* Compose.                                                                *)

\* An id no container has and nothing remembers.
NewId(s) ==
    LET used == {id.n : id \in {i \in IdsOf(containers) \cup oldIDs \cup newIDs \cup before :
                                i.service = s}}
    IN  [service |-> s, n |-> Min((1 .. Cardinality(used) + 1) \ used)]
NewContainer(s, v) == [id |-> NewId(s), version |-> v, healthy |-> FALSE]

\* up: one container of version v per service; one that is there already stays.
Upped(s, v) ==
    LET same == {c \in Of(s) : c.version = v}
    IN  IF same = {} THEN NewContainer(s, v)
        ELSE CHOOSE c \in same : \A d \in same : c.id.n <= d.id.n
Up(S, v) == {c \in containers : c.id.service \notin S} \cup {Upped(s, v) : s \in S}

-----------------------------------------------------------------------------
Fault(f) ==
    /\ f \in Faults /\ faults < MaxFaults
    /\ faults' = faults + 1
    /\ flawless' = FALSE

Succeeds == ~cancelled /\ UNCHANGED <<faults, flawless>>
Fails(f) == Fault(f) \/ (cancelled /\ UNCHANGED <<faults, flawless>>)

Goto(p) == phase' = p
Report(o) == Goto("idle") /\ outcome' = o

\* A deploy begins: a new version, or one that failed once more.
Deploy ==
    /\ phase = "idle" /\ ~cancelled /\ deploys < MaxDeploys
    /\ deploys' = deploys + 1
    /\ version' \in {version, version + 1} \cap (base + 1 .. MaxVersion)
    /\ before' = IdsOf(containers)
    /\ ready' = {} /\ exited' = {} /\ flawless' = TRUE
    /\ next' = 1 /\ oldIDs' = {} /\ newIDs' = {}
    /\ outcome' = "none"
    /\ Goto(IF Rest = {} THEN "list" ELSE "rest")
    /\ UNCHANGED <<containers, base, cancelled, faults>>

\* rollBackFailedDeploy: restore the base version, unless there is none or the
\* policy forbids it.
RollBack == IF RollbackEnabled /\ base # 0 THEN Goto("restore") /\ UNCHANGED outcome
            ELSE Report("failed")

\* up of the services that do not roll.
UpRest ==
    /\ phase = "rest"
    /\ \/ Succeeds /\ containers' = Up(Rest, version) /\ Goto("list") /\ UNCHANGED outcome
       \/ /\ Fails("up")
          /\ \E part \in SUBSET Rest : containers' = Up(part, version)
          /\ RollBack
    /\ UNCHANGED <<base, version, next, oldIDs, newIDs, deploys, cancelled, before, ready, exited>>

\* rollService reads what runs of the service.
ListOld ==
    /\ phase = "list"
    /\ \/ /\ Succeeds
          /\ oldIDs' = IdsOf(Of(Cur))
          /\ newIDs' = {}
          /\ Goto(IF Of(Cur) = {} THEN "first" ELSE "canary")
          /\ UNCHANGED outcome
       \/ Fails("ps") /\ RollBack /\ UNCHANGED <<oldIDs, newIDs>>
    /\ UNCHANGED <<containers, base, version, next, deploys, cancelled, before, ready, exited>>

\* The next service, or the rest of the deploy: probe and post_deploy hooks.
Advance ==
    IF next < Len(Rolled) THEN next' = next + 1 /\ Goto("list") ELSE Goto("verify") /\ UNCHANGED next

\* Nothing serves: a plain up.
FirstUp ==
    /\ phase = "first"
    /\ \/ Succeeds /\ containers' = Up({Cur}, version) /\ Advance /\ UNCHANGED outcome
       \/ /\ Fails("up") /\ containers' \in {containers, Up({Cur}, version)}
          /\ RollBack /\ UNCHANGED next
    /\ UNCHANGED <<base, version, oldIDs, newIDs, deploys, cancelled, before, ready, exited>>

\* Faulty variant: healthy containers are spared.
RemovedUnhealthy(ids) == {c \in containers : c.id \notin ids \/ c.healthy}

\* removeContainers, best effort: a container that could not be stopped stays, and
\* where there is none to stop no command runs that could fail.
Removed(ids) == {c \in containers : c.id \notin ids}
RemoveContainers(ids) ==
    \/ Succeeds /\ containers' = Removed(ids)
    \/ ids = {} /\ UNCHANGED <<containers, faults, flawless>>
    \/ Fails("stop") /\ \E gone \in SUBSET ids :
            gone # ids /\ containers' = IF cancelled THEN containers ELSE Removed(gone)

\* Faulty variant: the up recreates the container instead of adding one.
RecreateInPlace ==
    /\ phase = "canary"
    /\ \/ Succeeds /\ containers' = Up({Cur}, version) /\ Goto("poll")
       \/ /\ Fails("up") /\ Goto("cleanup")
          /\ containers' \in {containers, Up({Cur}, version)}
    /\ UNCHANGED <<base, version, next, oldIDs, newIDs, outcome, deploys, cancelled,
                   before, ready, exited>>

\* up --no-recreate --scale n+1: one container more, of the new version.
StartCanary ==
    /\ phase = "canary"
    /\ \/ Succeeds /\ containers' = containers \cup {NewContainer(Cur, version)} /\ Goto("poll")
       \/ /\ Fails("up") /\ Goto("cleanup")
          /\ containers' \in {containers, containers \cup {NewContainer(Cur, version)}}
    /\ UNCHANGED <<base, version, next, oldIDs, newIDs, outcome, deploys, cancelled,
                   before, ready, exited>>

\* cleanupCanary: remove what is not old, if it can be listed.
CleanupCanary ==
    /\ phase = "cleanup"
    /\ \/ RemoveContainers(IdsOf(Of(Cur)) \ oldIDs)
       \/ Fails("ps") /\ UNCHANGED containers
    /\ RollBack
    /\ UNCHANGED <<base, version, next, oldIDs, newIDs, deploys, cancelled, before, ready, exited>>

\* One poll of waitCanaryHealthy.  A failed read keeps what the last one listed.
Poll ==
    /\ phase \in {"poll", "wait"}
    /\ \/ /\ Succeeds
          /\ newIDs' = IdsOf(Of(Cur)) \ oldIDs
          /\ IF \E c \in Of(Cur) : c.id \notin oldIDs /\ c.healthy
             THEN ready' = ready \cup {Cur} /\ Goto("drain")
             ELSE UNCHANGED ready /\ Goto("wait")
       \/ Fails("ps") /\ Goto("wait") /\ UNCHANGED <<newIDs, ready>>
    /\ UNCHANGED <<containers, base, version, next, oldIDs, outcome, deploys, cancelled,
                   before, exited>>

\* The wait runs out or is cancelled: the canaries listed last are removed and the
\* old version is said to serve.  A canary that no poll listed stays.
GiveUpCanary ==
    /\ phase = "wait"
    /\ RemoveContainers(newIDs)
    /\ Report("rolled_back")
    /\ UNCHANGED <<base, version, next, oldIDs, newIDs, deploys, cancelled, before, ready, exited>>

\* Faulty variant: only one of the old containers is removed.
DrainOne ==
    /\ phase = "drain"
    /\ RemoveContainers({CHOOSE id \in oldIDs : TRUE})
    /\ Advance
    /\ UNCHANGED <<base, version, oldIDs, newIDs, outcome, deploys, cancelled,
                   before, ready, exited>>

\* After drain_seconds the old containers are removed.
DrainOld ==
    /\ phase = "drain"
    /\ RemoveContainers(oldIDs)
    /\ Advance
    /\ UNCHANGED <<base, version, oldIDs, newIDs, outcome, deploys, cancelled,
                   before, ready, exited>>

\* The HTTP probe and the post_deploy hooks, then the record of the success.  A
\* stack that has neither runs no command here, so its deploy succeeds in a cancelled
\* context too; whether it has one is left open.
Verify ==
    /\ phase = "verify"
    /\ \/ UNCHANGED <<faults, flawless>> /\ base' = version /\ Report("success")
       \/ Fails("probe") /\ RollBack /\ UNCHANGED base
    /\ UNCHANGED <<containers, version, next, oldIDs, newIDs, deploys, cancelled,
                   before, ready, exited>>

\* rollbackStack: up of the whole base version, in place.
Restore ==
    /\ phase = "restore"
    /\ \/ Succeeds /\ containers' = Up(Service, base) /\ Report("rolled_back")
       \/ /\ Fails("up") /\ Report("failed")
          /\ \E part \in SUBSET Service : containers' = Up(part, base)
    /\ UNCHANGED <<base, version, next, oldIDs, newIDs, deploys, cancelled, before, ready, exited>>

-----------------------------------------------------------------------------
(* The world.                                                              *)

HealthChanges ==
    \E c \in containers, h \in BOOLEAN :
        /\ containers' = (containers \ {c}) \cup {[c EXCEPT !.healthy = h]}
        /\ UNCHANGED <<base, deployVars, cancelled, faults, ghosts>>

ContainerExits ==
    \E c \in containers :
        /\ Fault("exit")
        /\ containers' = containers \ {c}
        /\ exited' = exited \cup {c.id.service}
        /\ UNCHANGED <<base, deployVars, cancelled, before, ready>>

\* skipper is told to stop, and is started again when the deploy has ended.
Shutdown ==
    /\ ~cancelled /\ phase # "idle"
    /\ Fault("shutdown")
    /\ cancelled' = TRUE
    /\ UNCHANGED <<containers, base, deployVars, before, ready, exited>>

Restart ==
    /\ cancelled /\ phase = "idle"
    /\ cancelled' = FALSE
    /\ UNCHANGED <<containers, base, deployVars, faults, ghosts>>

Init ==
    /\ \E running \in {{}, Service} :
        /\ containers = {[id |-> [service |-> s, n |-> 1], version |-> 1, healthy |-> TRUE] : s \in running}
        /\ base = IF running = {} THEN 0 ELSE 1
    /\ version = 1
    /\ phase = "idle" /\ next = 1 /\ oldIDs = {} /\ newIDs = {}
    /\ cancelled = FALSE /\ outcome = "none"
    /\ deploys = 0 /\ faults = 0
    /\ before = IdsOf(containers) /\ ready = {} /\ exited = {} /\ flawless = TRUE

Next ==
    \/ Deploy \/ UpRest \/ ListOld \/ FirstUp \/ StartCanary \/ CleanupCanary
    \/ Poll \/ GiveUpCanary \/ DrainOld \/ Verify \/ Restore
    \/ HealthChanges \/ ContainerExits \/ Shutdown \/ Restart

Spec == Init /\ [][Next]_vars

-----------------------------------------------------------------------------
(* Properties.                                                             *)

Phase == {"idle", "rest", "list", "first", "canary", "poll", "wait", "cleanup", "drain",
          "verify", "restore"}

\* The promise of a rollout, as an abstract specification (Cutover).  A poll's
\* verdict, the old containers and the new ones are all it sees.
Kept == {s \in RolledService : \E c \in Of(s) : c.id \in before}
Fresh == {s \in RolledService : \E c \in Of(s) : c.id \notin before}
Stage == IF phase \in {"idle", "restore"} THEN phase ELSE "cutover"
CutoverOf == INSTANCE Cutover WITH
    Service <- RolledService, stage <- Stage, kept <- Kept, fresh <- Fresh,
    served <- {id.service : id \in before} \cap RolledService,
    exited <- exited \cap RolledService

\* The rollout implements the cutover, whatever fails and however often it is
\* deployed: no container from before the deploy is removed before a poll has
\* seen a new one healthy, and no canary seen healthy is removed again.
ImplementsCutover == CutoverOf!Spec

\* What a flawed deploy left behind, extra containers and versions alike, is gone
\* after a deploy that succeeds without a fault: one new container per service.
LeftoversGone ==
    (phase = "idle" /\ outcome = "success" /\ flawless) =>
        \A s \in Service : Cardinality(Of(s)) = 1 /\ \A c \in Of(s) : c.version = version

\* A canary that never turned healthy leaves nothing behind: the service, and
\* those not reached yet, run just the containers from before the deploy.
NoCanaryLeft ==
    (phase = "idle" /\ outcome = "rolled_back" /\ flawless) =>
        \A i \in next .. Len(Rolled) :
            IdsOf(Of(Rolled[i])) = {id \in before : id.service = Rolled[i]}

\* rollback.go: a deploy reported as rolled back runs the previous version.
RolledBackRunsBase ==
    (phase = "idle" /\ outcome = "rolled_back" /\ flawless) =>
        \A c \in containers : c.version = base
=============================================================================
