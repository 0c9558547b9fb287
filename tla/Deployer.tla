------------------------------ MODULE Deployer ------------------------------
(***************************************************************************)
(* The deploy run of skipper-cd (internal/deploy): the callers that        *)
(* serialise on the deploy mutex, the git sync, the per-stack pipeline     *)
(* (change detection, autosync gate, held changes, apply, health gates,    *)
(* rollback), the dependency gate, the state saved at the end of a run,    *)
(* self-heal's corrective up, crashes and graceful shutdowns.              *)
(*                                                                         *)
(* Data is abstracted to what the decisions compare.  A commit is its      *)
(* index in the branch's history; a tree maps a stack to its compose file  *)
(* (a Version, "broken" for one that does not parse, "absent" for none).   *)
(* All other tracked inputs of a stack (env files, vars file, watched      *)
(* files) are one value that lives outside the history and changes on its  *)
(* own.  A stored instant (retry_at) is the minutes it still lies ahead.   *)
(* The depends_on edges are those of a host config without cycles.  The    *)
(* NixOS phase, which a host may run before its stacks, appears only as a  *)
(* way for a run to abort.                                                 *)
(***************************************************************************)
EXTENDS Integers, Sequences, FiniteSets

CONSTANTS
    Stack,                 \* stack names
    DependsOn,             \* depends_on edges: [Stack -> SUBSET Stack]
    Order,                 \* orderStacks: deploy order of a set of stacks
    Version,               \* compose files that parse
    Env,                   \* contents of the other tracked inputs
    NoFile,                \* the content "that file does not exist"
    None,                  \* nothing recorded / nothing running
    RollbackEnabled,       \* stacks whose effective rollback policy is on
    RolloutStack,          \* stacks with a rollout section
    PausedByConfig,        \* stacks with autosync off in the host config
    Faults,                \* which faults the environment may inject
    syncAttempts,          \* tries of one git sync (3)
    preStartHoldAfter,     \* failures before start that hold a change (3)
    preStartBackoffBase,   \* first wait (5 minutes)
    backoffTolerance,      \* how early a due attempt may run (1 minute)
    MaxCommit,             \* bound: pushes
    MaxWaiting             \* bound: callers waiting for the mutex

FaultKind == {"sync", "abort", "load", "hash", "head", "save", "crash", "shutdown"}

Content == Version \cup {"absent", "broken"}
Inputs == [compose : Version, env : Env]
Hold == [status : {"none", "backoff", "held"}, fp : Inputs \cup {None},
         attempts : Nat, wait : Nat]
NoHold == [status |-> "none", fp |-> None, attempts |-> 0, wait |-> 0]

\* The wait after the n-th failure before start: the base, doubled each time.
preStartBackoff(n) == preStartBackoffBase * 2^(n - 1)

ASSUME StackAssumption ==
    /\ DependsOn \in [Stack -> SUBSET Stack]
    /\ RollbackEnabled \subseteq Stack
    /\ RolloutStack \subseteq Stack
    /\ PausedByConfig \subseteq Stack

\* Of what orderStacks promises, the part every run relies on: it places only
\* the stacks it is given, each once.
ASSUME OrderAssumption ==
    \A S \in SUBSET Stack :
        /\ Order[S] \in Seq(Stack)
        /\ \A j, k \in 1 .. Len(Order[S]) :
              Order[S][j] \in S /\ (j # k => Order[S][j] # Order[S][k])

ASSUME ContentAssumption ==
    /\ Version \cap {"absent", "broken", None} = {}
    /\ None \notin Inputs

ASSUME BoundAssumption ==
    /\ Faults \subseteq FaultKind
    /\ syncAttempts \in Nat \ {0}
    /\ preStartHoldAfter \in Nat \ {0}
    /\ preStartBackoffBase \in Nat
    /\ backoffTolerance \in Nat
    /\ MaxCommit \in Nat \ {0}
    /\ MaxWaiting \in Nat \ {0}

ASSUME BackoffAssumption ==
    \A n \in 1 .. preStartHoldAfter : preStartBackoff(n) \in Nat

VARIABLES
    \* the world outside the process
    log,        \* the branch: sequence of trees, log[c][s] a Content
    env,        \* the other tracked inputs of each stack, as on disk now
    running,    \* the compose file each stack's containers were last upped with
    \* the repo clone and state.yaml
    head,       \* HEAD of the clone (0 before the first sync)
    diskRec, diskBase, diskHeld, diskLast,
    \* memory shared between goroutines
    waiting,    \* SyncAndDeployAll callers blocked on the mutex
    paused,     \* stacks whose effective autosync is off
    queue,      \* the pending registry
    retry,      \* retryRequests
    heldNow,    \* stacks in the published view of the holds
    discovered, \* the deploy set as last resolved ({} before the first time)
    stopping,   \* a shutdown signal was received
    \* the run holding the mutex
    phase, ctx, attempt, todo, cur, elapsed,
    rec, base, held, last,      \* the run's copy of the persisted state
    settled, gate,
    \* history: what happened to the change a stack last attempted, as far as the
    \* saved state can know it (see AttemptsBounded for what ends it)
    trail

worldVars == <<log, env, running>>
diskVars == <<diskRec, diskBase, diskHeld, diskLast>>
sharedVars == <<waiting, paused, queue, retry, heldNow, discovered, stopping>>
stateVars == <<rec, base, held, last, settled>>
runVars == <<phase, ctx, attempt, todo, cur, elapsed, gate>>
vars == <<worldVars, head, diskVars, sharedVars, stateVars, runVars, trail>>

-----------------------------------------------------------------------------
(* Helpers *)

Nothing == [s \in Stack |-> None]
NoHolds == [s \in Stack |-> NoHold]
NoBases == [s \in Stack |-> 0]
Trail == [fp : Inputs \cup {None}, fails : Nat, gaveUp : BOOLEAN]
NoTrail == [fp |-> None, fails |-> 0, gaveUp |-> FALSE]

Tip == log[Len(log)]
Current(s) == [compose |-> log[head][s], env |-> env[s]]

\* changedFiles: a tracked file counts when its hash differs from the recorded
\* one; a recorded file that no longer exists does not.
changedFiles(current, old) ==
    old # None =>
        \/ current.compose # old.compose
        \/ current.env # NoFile /\ current.env # old.env

\* Faulty variant: the global base for every stack, as before ADR-0061.
GlobalBaseOnly(b, l, s) == l

\* The commit a stack's rollback and diffs start from.
baseCommitFor(b, l, s) == IF b[s] # 0 THEN b[s] ELSE l

\* A run started by the reconcile loop carries the signal context: a shutdown
\* cancels every command it runs.
Cancelled == stopping /\ ctx = "signal"
HashOK == ~Cancelled
HashError == Cancelled \/ "hash" \in Faults

\* Faulty variant: the two instants compared the wrong way round.
DueTooEarly(h) == h.status = "backoff" /\ h.wait > backoffTolerance

due(h) == h.status = "backoff" /\ h.wait <= backoffTolerance

afterStart(fp) == [status |-> "held", fp |-> fp, attempts |-> 0, wait |-> 0]

\* recordPreStartFailure: attempts saturate at preStartHoldAfter, the only
\* value they are compared with.
recordPreStartFailure(h, fp) ==
    LET counted == IF h.status # "none" /\ h.fp = fp THEN h.attempts + 1 ELSE 1
        attempts == IF counted < preStartHoldAfter THEN counted ELSE preStartHoldAfter
        left == preStartBackoff(attempts) - elapsed
    IN  IF attempts < preStartHoldAfter
        THEN [status |-> "backoff", fp |-> fp, attempts |-> attempts,
              wait |-> IF left > 0 THEN left ELSE 0]
        ELSE [status |-> "held", fp |-> fp, attempts |-> attempts, wait |-> 0]

\* Faulty variant: a queued dependency does not hold its dependents back.
DecideBlockedOnly(s) ==
    IF \E d \in DependsOn[s] : gate[d] = "blocked" THEN "blocked" ELSE "ready"

\* depGate.decide: a blocked dependency wins over a queued one.
decide(s) ==
    IF \E d \in DependsOn[s] : gate[d] = "blocked" THEN "blocked"
    ELSE IF \E d \in DependsOn[s] : gate[d] = "queued" THEN "queued"
    ELSE "ready"

\* LoadRepoStacks on the tree at HEAD: what exists, what is excluded by an
\* entry-level error, what deploys.
Discovered == {s \in Stack : log[head][s] # "absent"}
invalidDependency(s) == \E d \in DependsOn[s] : d = s \/ d \notin Discovered
StackErrors == {s \in Discovered : log[head][s] = "broken" \/ invalidDependency(s)}
DeploySet == Discovered \ StackErrors

Cur == Head(todo)

\* The stack under way has reached outcome o: the gate records it and the
\* loop moves on.
NextStack(o) ==
    /\ gate' = [gate EXCEPT ![Cur] = o]
    /\ todo' = Tail(todo)
    /\ phase' = "stacks"
    /\ cur' = None
    /\ elapsed' = 0
    /\ UNCHANGED <<ctx, attempt>>

\* The lock is free again; the run's copy of the state is gone.
EndRun ==
    /\ phase' = "idle" /\ ctx' = "none" /\ attempt' = 0
    /\ todo' = <<>> /\ cur' = None /\ elapsed' = 0
    /\ rec' = Nothing /\ base' = NoBases /\ held' = NoHolds /\ last' = 0
    /\ settled' = {}
    /\ gate' = [s \in Stack |-> "ready"]

-----------------------------------------------------------------------------
(* The environment: the branch, the files on the host, time, the operator *)

\* Someone pushes a commit that changes one stack's compose file, adds, breaks
\* or removes it.
Push(s, c) ==
    /\ Len(log) < MaxCommit
    /\ c # Tip[s]
    /\ log' = Append(log, [Tip EXCEPT ![s] = c])
    /\ UNCHANGED <<env, running, head, diskVars, sharedVars, stateVars, runVars, trail>>

\* An env file or watched file on the host changes or disappears.
EnvChange(s, e) ==
    /\ e # env[s]
    /\ env' = [env EXCEPT ![s] = e]
    /\ UNCHANGED <<log, running, head, diskVars, sharedVars, stateVars, runVars, trail>>

Sooner(h) == IF h.wait > 0 THEN [h EXCEPT !.wait = @ - 1] ELSE h

\* A minute passes.
Tick ==
    /\ held' = [s \in Stack |-> Sooner(held[s])]
    /\ diskHeld' = [s \in Stack |-> Sooner(diskHeld[s])]
    /\ elapsed' = IF phase = "apply" /\ elapsed < preStartBackoff(preStartHoldAfter)
                  THEN elapsed + 1 ELSE elapsed
    /\ UNCHANGED <<worldVars, head, diskRec, diskBase, diskLast, sharedVars,
                   rec, base, last, settled, phase, ctx, attempt, todo, cur, gate, trail>>

\* A webhook delivery: one more SyncAndDeployAll goroutine.  Deliveries may be
\* lost, duplicated or late, so this is independent of Push.
Webhook ==
    /\ ~stopping /\ waiting < MaxWaiting
    /\ waiting' = waiting + 1
    /\ UNCHANGED <<worldVars, head, diskVars, paused, queue, retry, heldNow, discovered, stopping,
                   stateVars, runVars, trail>>

\* POST /api/autosync for one stack; enabling sync triggers a run.
SetAutosync(s) ==
    /\ ~stopping
    /\ \/ /\ s \notin paused
          /\ paused' = paused \cup {s}
          /\ UNCHANGED waiting
       \/ /\ s \in paused /\ waiting < MaxWaiting
          /\ paused' = paused \ {s}
          /\ waiting' = waiting + 1
    /\ UNCHANGED <<worldVars, head, diskVars, queue, retry, heldNow, discovered, stopping,
                   stateVars, runVars, trail>>

\* POST /api/stacks/{stack}/retry: accepted when the published view holds the
\* stack; records the request and triggers a run.
RequestRetry(s) ==
    /\ ~stopping /\ waiting < MaxWaiting
    /\ s \in heldNow
    /\ retry' = retry \cup {s}
    /\ waiting' = waiting + 1
    /\ UNCHANGED <<worldVars, head, diskVars, paused, queue, heldNow, discovered, stopping,
                   stateVars, runVars, trail>>

-----------------------------------------------------------------------------
(* Entering a run *)

\* A waiting SyncAndDeployAll gets the mutex.
SyncAndDeployAll ==
    /\ phase = "idle" /\ waiting > 0
    /\ waiting' = waiting - 1
    /\ phase' = "sync" /\ ctx' = "background" /\ attempt' = 1
    /\ UNCHANGED <<worldVars, head, diskVars, paused, queue, retry, heldNow, discovered, stopping,
                   stateVars, todo, cur, elapsed, gate, trail>>

\* A reconcile tick that finds the mutex free.  One that finds it taken is
\* dropped, which changes nothing.
TrySyncAndDeployAll ==
    /\ phase = "idle" /\ ~stopping
    /\ phase' = "sync" /\ ctx' = "signal" /\ attempt' = 1
    /\ UNCHANGED <<worldVars, head, diskVars, sharedVars,
                   stateVars, todo, cur, elapsed, gate, trail>>

\* git fetch and reset --hard to the remote branch.
SyncOK ==
    /\ phase = "sync" /\ ~Cancelled
    /\ head' = Len(log)
    /\ phase' = "load" /\ attempt' = 0
    /\ UNCHANGED <<worldVars, diskVars, sharedVars, stateVars,
                   ctx, todo, cur, elapsed, gate, trail>>

\* A sync attempt fails and another one follows.
SyncRetry ==
    /\ phase = "sync" /\ "sync" \in Faults /\ ~Cancelled
    /\ attempt < syncAttempts
    /\ attempt' = attempt + 1
    /\ UNCHANGED <<worldVars, head, diskVars, sharedVars, stateVars,
                   phase, ctx, todo, cur, elapsed, gate, trail>>

\* The last attempt failed, or the context is done: the run is given up.
SyncGiveUp ==
    /\ phase = "sync"
    /\ Cancelled \/ ("sync" \in Faults /\ attempt = syncAttempts)
    /\ EndRun
    /\ UNCHANGED <<worldVars, head, diskVars, sharedVars, trail>>

\* The vars_file cannot be read, the NixOS phase aborts the run, or stack
\* discovery fails as a whole: the run ends without saving anything.
AbortRun ==
    /\ phase = "load" /\ "abort" \in Faults
    /\ EndRun
    /\ UNCHANGED <<worldVars, head, diskVars, sharedVars, trail>>

\* The stacks announceRemovedStacks forgets: trackedStackNames knows a stack by
\* its recorded hashes or its queue entry.  An empty tree counts as a broken
\* clone, not as a removal of everything.
RemovedStacks(recorded) ==
    IF Discovered = {} THEN {}
    ELSE ({s \in Stack : recorded[s] # None} \cup queue) \ Discovered

\* Load state.yaml (an unreadable one counts as empty) and forget the removed
\* stacks.
LoadState(lost) ==
    LET r == IF lost THEN Nothing ELSE diskRec
        b == IF lost THEN NoBases ELSE diskBase
        h == IF lost THEN NoHolds ELSE diskHeld
        removed == RemovedStacks(r)
    IN  /\ rec' = [s \in Stack |-> IF s \in removed THEN None ELSE r[s]]
        /\ base' = [s \in Stack |-> IF s \in removed THEN 0 ELSE b[s]]
        /\ held' = [s \in Stack |-> IF s \in removed THEN NoHold ELSE h[s]]
        /\ last' = IF lost THEN 0 ELSE diskLast
        /\ queue' = queue \ removed
        /\ trail' = [s \in Stack |-> IF lost \/ s \in removed THEN NoTrail ELSE trail[s]]

\* DeployAllStacks up to the stack loop.
DeployAllStacks ==
    /\ phase = "load"
    /\ \E lost \in BOOLEAN : (lost => "load" \in Faults) /\ LoadState(lost)
    /\ settled' = {}
    /\ gate' = [s \in Stack |-> IF s \in StackErrors THEN "blocked" ELSE "ready"]
    /\ discovered' = DeploySet
    /\ todo' = Order[DeploySet]
    /\ phase' = "stacks"
    /\ UNCHANGED <<worldVars, head, diskVars, waiting, paused, retry, heldNow, stopping,
                   ctx, attempt, cur, elapsed>>

-----------------------------------------------------------------------------
(* The stack loop: deployStackGated *)

\* Faulty variant: the deferred change is not entered in the pending registry.
DeferUnmarked ==
    /\ phase = "stacks" /\ todo # <<>>
    /\ decide(Cur) # "ready"
    /\ HashOK /\ changedFiles(Current(Cur), rec[Cur])
    /\ NextStack(decide(Cur))
    /\ UNCHANGED <<worldVars, head, diskVars, sharedVars, stateVars, trail>>

\* pendingChanges sees a change and the gate is not ready: deferForDependency.
DeferForDependency ==
    /\ phase = "stacks" /\ todo # <<>>
    /\ decide(Cur) # "ready"
    /\ HashOK /\ changedFiles(Current(Cur), rec[Cur])
    /\ queue' = queue \cup {Cur}
    /\ NextStack(decide(Cur))
    /\ UNCHANGED <<worldVars, head, diskVars, waiting, paused, retry, heldNow, discovered,
                   stopping, stateVars, trail>>

\* The gate is ready, or the look-ahead finds no change or fails to hash: on to
\* deployStackIfChanged, which hashes the inputs again.
PassGate ==
    /\ phase = "stacks" /\ todo # <<>>
    /\ \/ decide(Cur) = "ready"
       \/ HashError
       \/ ~changedFiles(Current(Cur), rec[Cur])
    /\ phase' = "check"
    /\ UNCHANGED <<worldVars, head, diskVars, sharedVars, stateVars,
                   ctx, attempt, todo, cur, elapsed, gate, trail>>

-----------------------------------------------------------------------------
(* One stack: deployStackIfChanged *)

\* prepareStackRun fails: reported, nothing recorded.
CheckHashError ==
    /\ phase = "check" /\ HashError
    /\ NextStack("blocked")
    /\ UNCHANGED <<worldVars, head, diskVars, sharedVars, stateVars, trail>>

\* A leftover hold (a revert) is released once the held version's orphaned
\* services are gone; a failed removal keeps it and fails the stack.
settleReleasedHold ==
    \/ /\ held' = [held EXCEPT ![Cur] = NoHold]
       /\ trail' = [trail EXCEPT ![Cur] = NoTrail]
       /\ NextStack("ready")
    \/ /\ held[Cur].status # "none"
       /\ NextStack("blocked")
       /\ UNCHANGED <<held, trail>>

\* The inputs are the recorded ones: nothing to deploy.
CheckUnchanged ==
    /\ phase = "check" /\ HashOK
    /\ ~changedFiles(Current(Cur), rec[Cur])
    /\ queue' = queue \ {Cur}
    /\ settled' = settled \cup {Cur}
    /\ retry' = retry \ {Cur}
    /\ settleReleasedHold
    /\ UNCHANGED <<worldVars, head, diskVars, waiting, paused, heldNow, discovered, stopping,
                   rec, base, last>>

\* Autosync is off for the stack: the change waits, its hashes unrecorded.
CheckPaused ==
    /\ phase = "check" /\ HashOK
    /\ changedFiles(Current(Cur), rec[Cur])
    /\ Cur \in paused
    /\ queue' = queue \cup {Cur}
    /\ NextStack("queued")
    /\ UNCHANGED <<worldVars, head, diskVars, waiting, paused, retry, heldNow, discovered,
                   stopping, stateVars, trail>>

\* A change to deploy: the inputs as hashed are what this deploy is about.
CheckNotPaused ==
    /\ phase = "check" /\ HashOK
    /\ changedFiles(Current(Cur), rec[Cur])
    /\ Cur \notin paused
    /\ queue' = queue \ {Cur}
    /\ cur' = Current(Cur)
    /\ phase' = "held"
    /\ UNCHANGED <<worldVars, head, diskVars, waiting, paused, retry, heldNow, discovered,
                   stopping, stateVars, ctx, attempt, todo, elapsed, gate, trail>>

\* isHeld answers yes: a hold for exactly these inputs, no retry requested,
\* no backoff due.
HeldBack(s) ==
    /\ held[s].status # "none" /\ held[s].fp = cur
    /\ s \notin retry
    /\ ~due(held[s])

\* Faulty variant: a hold that lets an attempt through is released for it.
ReleasedForAttempt(h) == NoHold

\* What isHeld leaves of a hold it lets through: the record of the same inputs,
\* so that a further failure before start counts on from it.
KeptForAttempt(h) == IF h.fp = cur THEN h ELSE NoHold

\* History: an attempt at other inputs, or one an operator asked for, starts a
\* new count; the change stays given up once it was.
Attempt(t, asked) ==
    [fp |-> cur,
     fails |-> IF t.fp # cur \/ asked THEN 0 ELSE t.fails,
     gaveUp |-> t.fp = cur /\ t.gaveUp]

\* isHeld: consumes the retry request, releases a hold for other inputs, and
\* keeps the record of one it lets through.
IsHeld ==
    /\ phase = "held"
    /\ retry' = retry \ {Cur}
    /\ IF HeldBack(Cur)
       THEN /\ NextStack("blocked")
            /\ UNCHANGED <<held, trail>>
       ELSE /\ phase' = "apply"
            /\ elapsed' = 0
            /\ held' = [held EXCEPT ![Cur] = KeptForAttempt(@)]
            /\ trail' = [trail EXCEPT ![Cur] = Attempt(@, Cur \in retry)]
            /\ UNCHANGED <<ctx, attempt, todo, cur, gate>>
    /\ UNCHANGED <<worldVars, head, diskVars, waiting, paused, queue, heldNow, discovered,
                   stopping, rec, base, last, settled>>

\* A failure before any container is touched: build contexts, pre_deploy
\* hooks, pull, build, rollout validation.  Counted, unless the run was cut
\* short by a shutdown.
PreStartFails ==
    /\ phase = "apply"
    /\ NextStack("blocked")
    /\ IF Cancelled
       THEN UNCHANGED <<held, trail>>
       ELSE /\ held' = [held EXCEPT ![Cur] = recordPreStartFailure(@, cur)]
            /\ trail' = [trail EXCEPT ![Cur] =
                          [fp |-> cur, fails |-> @.fails + 1,
                           gaveUp |-> @.gaveUp \/ held'[Cur].status = "held"]]
    /\ UNCHANGED <<worldVars, head, diskVars, sharedVars, rec, base, last, settled>>

PreStartOK ==
    /\ phase = "apply"
    /\ phase' = "up"
    /\ elapsed' = 0
    /\ UNCHANGED <<worldVars, head, diskVars, sharedVars, stateVars,
                   ctx, attempt, todo, cur, gate, trail>>

\* docker compose up (or the rollout's cutover) succeeds.
UpOK ==
    /\ phase = "up" /\ ~Cancelled
    /\ running' = [running EXCEPT ![Cur] = cur.compose]
    /\ phase' = "gates"
    /\ UNCHANGED <<log, env, head, diskVars, sharedVars, stateVars,
                   ctx, attempt, todo, cur, elapsed, gate, trail>>

\* The new version failed after it started: the change is held and the
\* stack's dependents are blocked.
HoldFailedVersion ==
    /\ held' = [held EXCEPT ![Cur] = afterStart(cur)]
    /\ trail' = [trail EXCEPT ![Cur] = [fp |-> cur, fails |-> @.fails, gaveUp |-> TRUE]]
    /\ NextStack("blocked")
    /\ UNCHANGED <<rec, base, last, settled>>

\* rollBackFailedDeploy: restore the previous version unless the stack opted
\* out, then hold the change.
RollBackFailedDeploy ==
    \/ /\ Cur \in RollbackEnabled
       /\ phase' = "rollback"
       /\ UNCHANGED <<stateVars, ctx, attempt, todo, cur, elapsed, gate, trail>>
    \/ /\ Cur \notin RollbackEnabled
       /\ HoldFailedVersion

\* up exits non-zero: the containers may be on either version.
UpFails ==
    /\ phase = "up"
    /\ \E v \in {running[Cur], cur.compose} : running' = [running EXCEPT ![Cur] = v]
    /\ RollBackFailedDeploy
    /\ UNCHANGED <<log, env, head, diskVars, sharedVars>>

\* rollService: the canary never turned healthy and is removed; the old version
\* of that service kept serving, so nothing is restored.  Services outside the
\* rollout section were already recreated from the new compose file.
CanaryFails ==
    /\ phase = "up" /\ Cur \in RolloutStack
    /\ running[Cur] # None
    /\ \E v \in {running[Cur], cur.compose} : running' = [running EXCEPT ![Cur] = v]
    /\ HoldFailedVersion
    /\ UNCHANGED <<log, env, head, diskVars, sharedVars>>

\* The HTTP probe and the post_deploy hooks pass: recordStackSuccess.
GatesOK ==
    /\ phase = "gates"
    /\ rec' = [rec EXCEPT ![Cur] = cur]
    /\ held' = [held EXCEPT ![Cur] = NoHold]
    /\ settled' = settled \cup {Cur}
    /\ trail' = [trail EXCEPT ![Cur] = NoTrail]
    /\ NextStack("ready")
    /\ UNCHANGED <<worldVars, head, diskVars, sharedVars, base, last>>

GatesFail ==
    /\ phase = "gates"
    /\ RollBackFailedDeploy
    /\ UNCHANGED <<worldVars, head, diskVars, sharedVars>>

\* rollbackStack: up with the compose file as of the stack's base commit.  No
\* base, no such file at the base, or a command that fails leaves the stack
\* where it is.  The change is held whatever the rollback's outcome.
RollbackStack ==
    LET b == baseCommitFor(base, last, Cur)
        restorable == b # 0 /\ ~Cancelled /\ log[b][Cur] \in Version
    IN  /\ phase = "rollback"
        /\ \/ UNCHANGED running
           \/ restorable /\ running' = [running EXCEPT ![Cur] = log[b][Cur]]
        /\ HoldFailedVersion
        /\ UNCHANGED <<log, env, head, diskVars, sharedVars>>

-----------------------------------------------------------------------------
(* The end of a run, self-heal, shutdown and crash *)

\* Faulty variant: every recorded stack's base follows HEAD.
AdvanceAllBases == [s \in Stack |-> IF rec[s] # None THEN head ELSE base[s]]

\* advanceCommitBases: pin what has no base of its own, then move the settled
\* stacks' bases to HEAD.
advanceCommitBases ==
    [s \in Stack |->
        IF s \in settled THEN head
        ELSE IF rec[s] # None /\ base[s] = 0 THEN last
        ELSE base[s]]

\* finishRun: advance the bases when HEAD can be read, the global one only when
\* nothing is queued; save; publish the holds.
FinishRun ==
    /\ phase = "stacks" /\ todo = <<>>
    /\ \E readHead \in BOOLEAN, saved \in BOOLEAN :
        /\ readHead \/ Cancelled \/ "head" \in Faults
        /\ readHead => ~Cancelled
        /\ saved \/ "save" \in Faults
        /\ LET b == IF readHead THEN advanceCommitBases ELSE base
               l == IF readHead /\ queue = {} THEN head ELSE last
           IN  IF saved
               THEN /\ diskRec' = rec /\ diskBase' = b
                    /\ diskHeld' = held /\ diskLast' = l
                    /\ UNCHANGED trail
               ELSE /\ trail' = [s \in Stack |-> NoTrail]
                    /\ UNCHANGED diskVars
    /\ heldNow' = {s \in Stack : held[s].status # "none"}
    /\ EndRun
    /\ UNCHANGED <<worldVars, head, waiting, paused, queue, retry, discovered, stopping>>

\* deployedVersionRun: the compose file a heal applies, None when it is
\* deferred or fails first.  Unlike changedFiles, a vanished input counts.
deployedVersion(s) ==
    LET b == baseCommitFor(diskBase, diskLast, s)
    IN  IF diskRec[s] = None \/ log[head][s] = "absent" \/ env[s] # diskRec[s].env
        THEN None
        ELSE IF log[head][s] = diskRec[s].compose THEN log[head][s]
        ELSE IF b # 0 /\ log[b][s] \in Version THEN log[b][s]
        ELSE None

\* HealStack: self-heal's corrective up.  It holds the mutex; a busy mutex
\* makes it give way without a change.
HealStack(s) ==
    /\ phase = "idle" /\ ~stopping
    /\ s \in discovered
    /\ deployedVersion(s) # None
    /\ running' = [running EXCEPT ![s] = deployedVersion(s)]
    /\ UNCHANGED <<log, env, head, diskVars, sharedVars, stateVars, runVars, trail>>

\* A new process: what was in memory is gone, the startup run is on its way.
Restart ==
    /\ waiting' = 1
    /\ paused' = PausedByConfig
    /\ queue' = {} /\ retry' = {} /\ discovered' = {}
    /\ heldNow' = {s \in Stack : diskHeld[s].status # "none"}
    /\ stopping' = FALSE
    /\ EndRun
    /\ UNCHANGED <<worldVars, head, diskVars>>

\* SIGTERM.
Shutdown ==
    /\ "shutdown" \in Faults /\ ~stopping
    /\ stopping' = TRUE
    /\ UNCHANGED <<worldVars, head, diskVars, waiting, paused, queue, retry, heldNow, discovered,
                   stateVars, runVars, trail>>

\* WaitIdle returns; the service manager starts the next process.
Exit ==
    /\ stopping /\ phase = "idle"
    /\ Restart
    /\ UNCHANGED trail

\* The process dies on the spot.  What a run in progress had recorded, it had
\* recorded in memory only.
Crash ==
    /\ "crash" \in Faults
    /\ Restart
    /\ trail' = IF phase = "idle" THEN trail ELSE [s \in Stack |-> NoTrail]

-----------------------------------------------------------------------------
(* The specification *)

Init ==
    /\ \E tree \in [Stack -> Content] : log = <<tree>>
    /\ env \in [Stack -> Env]
    /\ running = Nothing
    /\ head = 0
    /\ diskRec = Nothing /\ diskBase = NoBases /\ diskHeld = NoHolds /\ diskLast = 0
    /\ waiting = 1 /\ paused = PausedByConfig /\ queue = {} /\ retry = {}
    /\ heldNow = {} /\ discovered = {} /\ stopping = FALSE
    /\ phase = "idle" /\ ctx = "none" /\ attempt = 0
    /\ todo = <<>> /\ cur = None /\ elapsed = 0
    /\ rec = Nothing /\ base = NoBases /\ held = NoHolds /\ last = 0
    /\ settled = {} /\ gate = [s \in Stack |-> "ready"]
    /\ trail = [s \in Stack |-> NoTrail]

Environment ==
    \/ \E s \in Stack, c \in Content : Push(s, c)
    \/ \E s \in Stack, e \in Env : EnvChange(s, e)
    \/ Tick
    \/ Webhook
    \/ \E s \in Stack : SetAutosync(s)
    \/ \E s \in Stack : RequestRetry(s)

EnterRun == SyncAndDeployAll \/ TrySyncAndDeployAll

RunStep ==
    \/ SyncOK \/ SyncRetry \/ SyncGiveUp \/ AbortRun \/ DeployAllStacks
    \/ DeferForDependency \/ PassGate
    \/ CheckHashError \/ CheckUnchanged \/ CheckPaused \/ CheckNotPaused
    \/ IsHeld
    \/ PreStartFails \/ PreStartOK
    \/ UpOK \/ UpFails \/ CanaryFails
    \/ GatesOK \/ GatesFail
    \/ RollbackStack
    \/ FinishRun

Process == (\E s \in Stack : HealStack(s)) \/ Shutdown \/ Exit \/ Crash

Next == Environment \/ EnterRun \/ RunStep \/ Process

Spec == Init /\ [][Next]_vars

\* Every command of a run has a timeout, so a run that was started moves on;
\* the reconcile loop ticks; time passes.
FairSpec ==
    /\ Spec
    /\ WF_vars(RunStep)
    /\ WF_vars(EnterRun)
    /\ WF_vars(Tick)

-----------------------------------------------------------------------------
(* Properties *)

Phase == {"idle", "sync", "load", "stacks", "check", "held", "apply", "up", "gates", "rollback"}
Busy == {"check", "held", "apply", "up", "gates", "rollback"}
Deploying == {"apply", "up", "gates", "rollback"}

WorldTypeOK ==
    /\ log \in Seq([Stack -> Content]) /\ log # <<>>
    /\ env \in [Stack -> Env]
    /\ running \in [Stack -> Version \cup {None}]
    /\ head \in 0 .. Len(log)

DiskTypeOK ==
    /\ diskRec \in [Stack -> Inputs \cup {None}]
    /\ diskBase \in [Stack -> 0 .. head]
    /\ diskHeld \in [Stack -> Hold]
    /\ diskLast \in 0 .. head

SharedTypeOK ==
    /\ waiting \in 0 .. MaxWaiting
    /\ paused \subseteq Stack /\ queue \subseteq Stack /\ retry \subseteq Stack
    /\ heldNow \subseteq Stack /\ discovered \subseteq Stack
    /\ stopping \in BOOLEAN

StateTypeOK ==
    /\ rec \in [Stack -> Inputs \cup {None}]
    /\ base \in [Stack -> 0 .. head]
    /\ held \in [Stack -> Hold]
    /\ last \in 0 .. head
    /\ settled \subseteq Stack

RunTypeOK ==
    /\ phase \in Phase
    /\ ctx \in {"none", "background", "signal"}
    /\ attempt \in 0 .. syncAttempts
    /\ todo \in Seq(Stack) /\ (phase \in Busy => todo # <<>>)
    /\ cur \in Inputs \cup {None}
    /\ cur # None <=> phase \in Busy \ {"check"}
    /\ elapsed \in Nat
    /\ gate \in [Stack -> {"ready", "queued", "blocked"}]

TrailTypeOK ==
    trail \in [Stack -> Trail]

\* Every variable has its type.  In particular a stack that a run turns to has
\* a compose file that parses, the commits a state file names exist, the sync
\* makes no more than its syncAttempts, and a stack's hashed inputs are at hand
\* exactly from the autosync gate to the end of its deploy.
TypeOK ==
    /\ WorldTypeOK
    /\ DiskTypeOK
    /\ SharedTypeOK
    /\ StateTypeOK
    /\ RunTypeOK
    /\ TrailTypeOK

\* In the stack loop the clone has a commit, and what is left to do are stacks
\* of its tree that deploy, each once and none of them settled yet.
Loop == {"stacks"} \cup Busy
LoopOK ==
    /\ phase \in Loop \cup {"load"} => head # 0
    /\ phase \in Loop =>
          \A k \in 1 .. Len(todo) :
              /\ todo[k] \in DeploySet
              /\ todo[k] \notin settled
              /\ \A j \in 1 .. Len(todo) : j # k => todo[j] # todo[k]

\* What a run carries towards the next saved state: the recorded version of a
\* settled stack is the one at HEAD, of any other the one at its base; the
\* inputs under way are those of HEAD.
RunBaseOK ==
    phase \in Loop =>
        /\ \A s \in Stack : rec[s] # None =>
              IF s \in settled THEN rec[s].compose = log[head][s]
              ELSE base[s] # 0 /\ log[base[s]][s] = rec[s].compose
        /\ cur # None => cur.compose = log[head][Cur]

\* The commit saved as a recorded stack's base holds exactly the compose file
\* that was last deployed.  Rollback and heal restore from that commit
\* (baseCommitFor, runAtCommit), and the stack's neighbours move HEAD on while
\* it is paused, held, blocked or failing.
BaseIsDeployed ==
    \A s \in Stack :
        diskRec[s] # None =>
            diskBase[s] # 0 /\ log[diskBase[s]][s] = diskRec[s].compose

\* BaseIsDeployed, made inductive.
BaseInv == TypeOK /\ LoopOK /\ ~stopping /\ RunBaseOK /\ BaseIsDeployed

\* What a step may bring up: the version a deploy is at, or the one recorded as
\* last deployed.  A rollback of a stack that has no recorded version is left
\* out: it falls back to the global base (README, divergences).
DeployedOrRecorded(s) ==
    \/ phase = "up" /\ s = Cur /\ running'[s] = cur.compose
    \/ phase = "rollback" /\ s = Cur /\ (rec[s] # None => running'[s] = rec[s].compose)
    \/ phase = "idle" /\ diskRec[s] # None /\ running'[s] = diskRec[s].compose

\* The containers of a stack change only to the version a deploy has just
\* brought up, or back to the version last recorded as deployed: a rollback or
\* a heal never brings up any other one, in particular not one that is queued,
\* held or newer in the clone.
OnlyDeployedOrRecorded ==
    [][\A s \in Stack : running'[s] # running[s] => DeployedOrRecorded(s)]_vars

\* A change that fails before its containers start fails at most preStartHoldAfter
\* times in one count (recordPreStartFailure): pauses, blocked dependencies, failing
\* syncs, runs cut short by a shutdown and restarts between two attempts neither
\* start the count again nor add to it.  A count ends with a success, an attempt at
\* other inputs, an operator's retry, a run that finds the recorded inputs (a revert:
\* the same change pushed again has a count of its own), the removal of the stack,
\* and with whatever loses the saved count: an unreadable state.yaml, a failed save,
\* a crash within a run.
AttemptsBounded ==
    \A s \in Stack : trail[s].fails <= preStartHoldAfter

\* A stack is deployed only when this run has already brought every stack it
\* depends on to its desired state (orderStacks and depGate): a failed, held,
\* blocked, paused or broken dependency keeps it back.
DependentWaits ==
    phase \in Deploying => DependsOn[Cur] \subseteq settled

\* At the end of a run no change is lost track of: every stack that deploys is
\* recorded at the version of HEAD, waits in the pending queue, or is on hold
\* for that very version.
EveryChangeAccounted ==
    phase = "stacks" /\ todo = <<>> =>
        \A s \in DeploySet :
            \/ rec[s] # None /\ rec[s].compose = log[head][s]
            \/ s \in queue
            \/ held[s].status # "none" /\ held[s].fp.compose = log[head][s]

\* A stack needs no further attempt: it cannot deploy, or the version at the
\* branch's tip is recorded, queued behind a pause or a dependency, or held
\* until someone acts.  A backoff is none of these.
Resolved(s) ==
    /\ phase = "idle" /\ head = Len(log)
    /\ \/ s \notin DeploySet
       \/ diskRec[s] # None /\ diskRec[s].compose = log[head][s]
       \/ s \in queue
       \/ diskHeld[s].status = "held" /\ diskHeld[s].fp.compose = log[head][s]

\* Every push is eventually dealt with for every stack, with or without its
\* webhook: the reconcile loop picks it up, and a backoff ends in a deploy or
\* in a hold.
Convergence == \A s \in Stack : []<>Resolved(s)

=============================================================================
