# A TLA+ model of skipper-cd

skipper-cd is a GitOps agent for one docker compose host. It follows a branch
of a deploy repository and brings every stack directory in it up with
`docker compose`, optionally after a `nixos-rebuild switch`. This directory
holds TLA+ modules for its core, TLC configurations that check them on small
instances, and TLAPS proofs of the properties that matter most.

    tlc -workers 2 -config MCDeployer_pair.cfg MCDeployer     # a run
    tlapm DeployerProofs.tla                                  # a proof

`PROJECT.json` lists the runs, the source lines every definition models, the
faulty variant that breaks each property, and the hazards the properties are
for.

## 1. The system

| component | state it keeps | operations | interacts through |
|---|---|---|---|
| deploy run (`internal/deploy`) | the deploy mutex, `state.yaml` (per-stack file hashes, commit bases, holds, NixOS marker), the last resolved stack set | `SyncAndDeployAll`, `TrySyncAndDeployAll`, `DeployAllStacks`, one pipeline per stack, `finishRun` | called by webhook, reconcile loop, autosync and retry handlers, startup |
| held changes (`held.go`) | hold per stack: fingerprint, attempts, `retry_at`; retry requests; a published view | hold, back off, release, `RequestRetry` | inside a run; the UI reads the view and asks for retries |
| rollback and heal (`rollback.go`, `heal.go`) | none of its own | restore the compose file of a stack's base commit; corrective `up` | rollback inside a run; heal by the self-heal engine when no run holds the mutex |
| dependency gate (`ordering.go`) | outcome of each stack in this run | `orderStacks`, `depGate.decide`, deferral | inside a run |
| NixOS phase (`nixos_rebuild.go`, `nixos_change.go`, `internal/nixos`) | `_nixos` hashes and in-flight marker, derivation cache, a transient systemd unit | detect, pre-save, rebuild, reconcile after a restart, revert | first phase of a run; its switch may restart the process |
| rollout (`rollout.go`) | none | canary, health wait, cutover, cleanup per service | the `up` of a stack with a rollout section |
| stack set (`internal/config`) | host config | discovery, overrides, entry errors, cycles | read by every run |
| git (`internal/git`) | the clone | fetch and reset, read HEAD, read a file at a commit | every run, rollback, heal |
| triggers (`webhook`, `reconcile`) | none | deliveries, ticks | start runs |
| autosync (`internal/autosync`) | global and per-stack switches, pending registry | set, effective value, mark and clear | read and written inside runs, written by the UI |
| self-heal (`internal/selfheal`) | attempts, cooldown, healthy polls, give-up per stack | `Observe`, `evaluate`, heal, `Reset` | the health poller calls it, it calls `HealStack`, deploys reset it |
| health watch (`internal/healthwatch`) | phases, pending changes and alert records per service; `healthwatch.yaml` | `Observe`, `ObserveDeploy`, catch-up, save | the health poller and deploys call it, it calls the notifier |
| events, history, audit | history ring and file; append-only audit log; bounded channels to streams | emit, collapse repeats, trim, append, compact, load, replay | every component emits; the page and `LinkToRollback` read |
| notifier (`internal/notify`) | one bounded queue per alerter | push, deliver to every target, drain | fed by health watch, update check and deploys |
| log buffer (`internal/logbuf`) | ring of lines, pinned outcomes, subscribers | append, replay, stream | the log handler writes, the log page reads |
| update check (`internal/updatecheck`, `internal/registry`) | markers, advertised updates, their files | check, nudge after a run, alert | reads running images, asks registries, publishes and notifies |
| peers (`internal/peers`) | last data of each peer | poll pass, publish | reads other hosts over HTTP, feeds the event stream |
| web UI (`internal/ui`) | streams, page state in the browser | handlers, replay, reconnect | autosync and retry handlers write the deployer's state |
| orphans, roster | none | list | read-only |

What is hard about it:

* *Several origins of a run, one mutex.* Webhooks queue behind a run, ticks are
  dropped, heals are tried only when the mutex is free, and each origin carries
  another context: a shutdown cancels the commands of a reconcile run and not
  those of a webhook's.
* *State is written once, at the end.* Containers change during the run;
  `state.yaml` is saved when it ends. Between the two lie crashes, failed saves
  and a shutdown. The NixOS phase writes first and undoes later, because its
  own success may kill the process.
* *Stacks advance separately.* One clone and one HEAD serve all stacks, but a
  stack that is paused, held, blocked or failing stays behind. Each one's base
  commit must name the version it really runs, or a rollback restores another.
* *Attempts are remembered.* A change that fails before its containers start is
  retried three times with doubling waits; one that fails after is held at
  once. Reverts, new pushes, retries by the operator and restarts meet these
  records in any order.
* *Decisions are made outside the lock.* Self-heal decides under its lock and
  heals outside it; publishers read the state, let go of the lock and publish;
  an update check reads images that a deploy replaces before the check ends.
* *Everything a person sees is best effort.* Streams drop what a slow reader
  does not take, reconnect with or without a position, and restart with the
  process; what was dropped must come back through a replay.

## 2. The modules

| module | models | checked by | proofs |
|---|---|---|---|
| `Deployer` | the deploy run with its callers, holds, gate, rollback, heal, crash and shutdown | `MCDeployer` | `DeployerProofs` |
| `StackSet`, `StackOrder` | which stacks a run has, and the loop of `orderStacks` over them | `MCStackOrder` | `StackOrderProofs` |
| `NixosRebuild` | the NixOS phase with its unit and restarts | itself | `NixosProofs` |
| `Cutover`, `Rollout` | what a zero-downtime rollout promises, and its commands | `MCRollout` | `RolloutProofs` |
| `Poller` | the health poller, its channels and classification | in the next two | |
| `SelfHeal` | the self-heal engine beside deploys | `MCSelfHeal` | `HealthProofs` |
| `HealthWatch` | the watchdog with its file | `MCHealthWatch` | `HealthProofs` |
| `EventPipeline` | history, audit log and a browser's event stream | `MCEventPipeline` | `EventPipelineProofs` |
| `ImageTags`, `Transport`, `UpdateCheck` | tag order, the alerters' queue, the update check | `MCUpdateCheck` | `UpdateCheckProofs` |
| `Autosync`, `ControlPanel` | the layered switches, and the page that shows them | in the next | |
| `Peers`, `LogRing` | other hosts, the log page | in the next | |
| `StateFeed` | the three feeds of the page, one per behaviour | `MCStateFeed` | `StateFeedProofs` |

`SelfHeal` and `HealthWatch` extend `Poller`, `UpdateCheck` extends `ImageTags`
and `Transport`, `StackOrder` extends `StackSet`: they share its state and its
actions. `HealthWatch` prefixes its names (`WatchSpec`, `WatchInit`, ...) so that
`HealthProofs` can reason about both. `Rollout` instantiates `Cutover` with a refinement mapping.

### Deployer

A commit is its index in `log`; a tree maps a stack to a compose file: a
`Version`, `"broken"` or `"absent"`. All other tracked inputs of a stack (env
file, vars file, watched files) are one value in `env`, outside the history.
`running` is what the containers were last brought up with. The `disk*`
variables are `state.yaml`; `rec`, `base`, `held`, `last` are the copy a run
works on, `settled` and `gate` what it learns about each stack.

A run moves through `phase`:

    idle -> sync -> load -> stacks -> (check -> held -> apply -> up -> gates -> [rollback])* -> idle

Each arrow is one handler of the code, from where it takes over to where it
returns: `syncRepository` (`SyncOK`, `SyncRetry`, `SyncGiveUp`),
`DeployAllStacks` (with `announceRemovedStacks` inside), the gate
(`DeferForDependency`, `PassGate`), the early returns of `deployStackIfChanged`
(`CheckHashError` to `CheckNotPaused`, `IsHeld`), `applyStack` (`PreStartFails`
to `GatesFail`), `rollbackStack` and `finishRun`. Between any two steps the
environment may push, change host files, switch autosync, request a retry, let
time pass, signal a shutdown or kill the process, so that what the code reads
early and uses late may be stale. `Faults` says which failures the environment
injects; failing builds, ups, health gates and rollbacks are always possible.

Stored instants are kept as the minutes they still lie ahead. Attempts saturate
at `preStartHoldAfter`, the only number they are compared with.

`Order` is the result of `orderStacks`. `OrderAssumption` is the part of it every
run needs (it places only given stacks, each once).

### StackSet and StackOrder

`StackSet` is the loading of a config: host config or stack discovery, names
without a directory, disabled stacks, stacks with an error of their own, and
`cyclicStacks` as the loop it is, one stack per step. `StackOrder` goes on from
there with the passes of `orderStacks` over the stacks that are left and its
fallback for what it cannot resolve. Stacks may depend on themselves, on unknown
names and on each other in any way.

### NixosRebuild

A commit is a pair: the content of the tracked nix files and the derivation of
the host's system; either may change without the other, and `NoFile` is a file
deleted. `applied` is the source the host was last switched to. The transient
unit is external: it runs on by itself, switches the host (which may stop
skipper), ends, or fails before or after the switch. `mode` is
`change_detection`, chosen anew by each process, so that a host moves between
the two. The run's phases are `detect`, `decide`, `launch`, `wait`, `failed` and
`stacks`, the last standing for the rest of the run up to its save.

Two history variables serve the properties: `last` is the outcome last reported
for `_nixos`, and `gap` records that a rebuild was cut off before the host was
switched, that an activation failed half way, or that a save failed. In all
three the code acts on a record it cannot verify; the properties are stated for
the behaviours without a gap.

### Cutover and Rollout

`Rollout` has one action per command of `rollService` and of the rollback after
it: bring up the rest, list the old containers, start a canary or the first
container, poll its health, wait for a stop, clean up, drain the old ones, verify.
Removing an empty set succeeds under a cancelled context too, so a canary that no
poll has listed yet stays; verifying needs no command in a stack without HTTP probe
and `post_deploy` hook and can then succeed after a shutdown.
A container has an id, a service, a version, a health and whether it is still
listed. Containers turn healthy or unhealthy or exit on their own, a command may
fail after part of its work, a shutdown fails every later command. Several
deploys follow one another on what the last one left.

`Cutover` knows, per service, only whether a container from before the deploy is
kept, whether a new one is there, which services a poll has seen ready, and the
stage. Its `KeptUntilReady` is the promise of ADR-0040. The mapping (`Kept`,
`Fresh`, `Stage`) is defined at the end of `Rollout`.

### Poller, SelfHeal and HealthWatch

`Poller` has the containers as the lines `docker compose ps` shows of them, the
one-slot channels for ticks and requests, and the snapshot being worked on; its
sinks work on it before the next poll. `SelfHeal` splits `evaluate` where it gives
up its lock: decide, heal, count. In between a deploy may take the mutex, reset
the stack, or the process restart. `HealthWatch` is one `Observe` over all
services and the save after it, with the deploys that mark the state dirty and
restarts that load the file. Times are the ticks that are left of them.

Their history variables: `heals` and `calm` count redeploys and healthy polls of
an outage, `calm` passing over the polls `evaluate` ignores, `streak` the polls a status really held, `quiet` the ticks until an
alert may repeat, `picture` the last alert, `lost` that a restart lost unsaved
memory.

### EventPipeline

`emit` numbers an event, then hands it to the history, the broadcaster and the
audit log in that order. A deploy run and the poller do so concurrently. Repeats
of an outcome fold into the entry before; the history keeps `maxHistorySize`
entries and saves each change; the audit file is appended to and compacted, and a
crash in an append leaves a torn line. A browser connects, reads, is too slow,
loses the connection and comes back with the last ID it has.

Timestamps are numbers of emissions, which tell an event from a later one that
got the same ID after a restart. History variables are sets of them: `seen` by the
browser, `missed` on a full channel, `overtaken` by a higher ID. A replay starts
behind the last ID the browser got, so a missed event below it never comes back:
`missed` is never emptied. `unsaved`, `unlogged` and `disordered` say what has gone
wrong with the files.

### UpdateCheck

A check goes over the stacks, asks the registry for tags and digests (token,
realm, paging) and docker for the digests of the local image, which may fail too,
and concludes a marker each. Ticker and nudge start checks
concurrently under `runMu`; deploys change images meanwhile; alerts go through
the bounded queue of `Transport`, whose goroutine takes one after the other in
hand and sends it to target after target; the process may exit between two sends.
A target that fails is skipped. The record of what was advertised survives
restarts when it could be saved.

### StateFeed

`ControlPanel` follows a click: the handler sets the override, publishes the state
it read under the lock, starts a run and answers; a run defers and publishes; the
page takes the newer of what answers and events bring. `Peers` polls every peer
concurrently and publishes what came. `LogRing` is the ring with its pinned
outcomes on both sides of a stream. They share no state: a behaviour of
`StateFeed` follows one of them, chosen at the start, which checks the same
behaviours as their product would.

## 3. What is checked

### Runs that pass

* **`deployer_pair`**: `db` and `app`, two versions, a history of two commits,
  failing saves and crashes at any step, one failure before start
  allowed. Checks
  * `BaseIsDeployed`: the commit saved as a stack's base holds the compose file
    last deployed;
  * `OnlyDeployedOrRecorded`: containers change only to the version a deploy is
    at, or back to the recorded one, by rollback and heal alike;
  * `DependentWaits`: a stack deploys only when all it depends on is at its
    desired state;
  * `EveryChangeAccounted`: at the end of a run every stack is recorded at HEAD,
    queued, or on hold for HEAD's version.

  Two commits suffice for a neighbour to move HEAD on while a stack stays
  behind, and two versions besides `broken` and `absent` for a revert to differ
  from the first deploy. Versions are only compared for equality, so permuting
  them is sound.
* **`deployer_faults`**: one stack with a rollout section under all eight
  faults, three sync attempts, host files that appear and disappear. Checks
  `AttemptsBounded`: in one count a change fails before start at most three times,
  whatever pauses, blocked dependencies, failing syncs, shutdowns and restarts
  between runs come in between. A count ends with a success, an attempt at other
  inputs, an operator's retry, a run that finds the recorded inputs again, the
  removal of the stack, and the loss of the saved count (an unreadable
  `state.yaml`, a failed save, a crash within a run). A change that fails twice,
  is reverted and pushed again therefore gets three more attempts, as
  `docs/configuration.md:355` says ("a new push, a revert or removing the stack
  ends the wait"). One version and host files that change give a change and its
  revert without a second commit.
* **`deployer_live`**: two stacks, two commits, under `FairSpec`. Checks
  `Convergence`: again and again every stack is recorded at the tip, queued or
  held; a backoff is none of these and must end.
* **`stack_order`**: every `depends_on` over four discovered stacks, cycles
  included, and over three names of which any may be disabled, broken or without
  a directory, discovered or listed. Checks `LeftOutIffStuck` (a stack is refused
  exactly when it is on a cycle or waits for one), `DependenciesFirst` (for runs in
  which every dependency takes part: `Closed`; see the divergence below),
  `ConfigOrderKept` (stacks the order leaves free stay in config order) and
  `Terminates`. Four stacks allow chains, forks, diamonds and two cycles; the
  names allow a dependency outside the run.
* **`nixos`**: both modes, two commits, all eight faults, one stop or crash
  besides any number of restarts by the switch, under `FairSpec`. Checks
  * `StacksOnAppliedSystem`: in derivation mode stacks deploy on the system of
    their commit, or on a rebuild deferred on purpose;
  * `SuccessIsApplied`: a success, reported by the run or by the next process,
    is about the system the host runs;
  * `NoRedundantRebuild`: a restart causes no second rebuild;
  * `RebuildConverges`: every commit's system is eventually applied and
    recorded, reported failed, or queued.

  Two commits let one arrive during the rebuild of the other; one stop or crash
  at any step covers every point at which a record is on disk and its outcome is
  not.

* **`rollout`**: two services that roll and one that does not, three deploys of up
  to three versions, six kinds of faults of which any two happen. Checks
  `ImplementsCutover` (a refinement), `LeftoversGone` (a clean deploy removes what
  a flawed one left) and `NoCanaryLeft` (a canary that never turned healthy leaves
  nothing). Two services show one rolled before and one after a failure; the third
  deploy finds what two others left.
* **`selfheal`**: one stack with a service that turns healthy, unhealthy, starting
  and is removed, and an on-demand one stopped with exit code 137; a deploy run,
  a change of the managed stacks or a restart, polls that fail. Checks
  * `HealBudget`: between two deploys, recoveries or restarts at most `maxAttempts`
    redeploys, and one more that a deploy overtook. A recovery is `minPolls` healthy
    polls with no degraded one between them, as the code counts it;
  * `ExhaustedAfterHeals`: a give-up follows that many heals that really ran;
  * `HealedIsReal`: a heal is reported only of a stack redeployed in this outage
    and read healthy in `minPolls` polls since it was last degraded, with ignored
    polls between them or not;
  * `DegradedIsGivenUp`: a stack that stays down is healed or given up in the end.

  Two attempts and two polls separate the first, a middle and the last of each.
* **`healthwatch`**: one service, debounce 2, cooldown 1, one failed save, restart
  or corrupt file. Checks `DebounceHolds`, `AlertsLimited` and `DownIsTold` (a
  service that settles unhealthy is alerted, however many alerts were suppressed on
  the way). The first two are also proved for any number and length.
* **`pipeline`**: five events without a browser, or three and one that connects
  twice, one fault of any kind, a history of three and an audit cap of two, so that
  every bound is reached; a channel of one event, so that one is missed. Checks
  * `OneEntryPerRun`: a failure that stands takes one entry of the history;
  * `ClientComplete`: a browser that has caught up lacks only what was overtaken or
    missed;
  * `LinkIsRollback`: a success after a rollback links that rollback's event, though
    three stores are trimmed separately and IDs start over after a restart;
  * `AuditDurable`: the audit file loads to the records in memory.

  All four are also proved, for any number of events, stacks, connections and faults.
* **`updates`**: two stacks, one of them pinned to a digest, a tag that sorts wrong as a string,
  a variant and a moving tag; three kinds of registry; many events without a fault
  or one event and two faults. Checks `NewestSuggested`, `EveryTargetGetsEach`,
  `AlertedOnce`, `MarkersFollowDeploys`, `MarkersSettle`.
* **`state_feed`**: two stacks, clicks of one request at a time among concurrent
  publishers (the theorem covers any number of requests), pushes, cuts and restarts; two
  peers; a log of two lines and two pinned outcomes with bursts of five. Checks
  * `OverrideIsException`: an override never says what its stack would do anyway;
  * `SwitchesAreRight`, `PanelSettles`: the page shows the switches as they are once
    nothing is under way, and ends up so in any case;
  * `QueueDrains`: an enabled stack does not stay queued;
  * `ReachableIsCurrent`, `HostsSettle`: a peer shown reachable is shown as it is;
  * `LogIsShown`: a page that has caught up shows the ring and the pinned outcomes.

Every property has a faulty variant of the code, defined before the definition
it changes, under which TLC finds it violated. `CHECK_DEADLOCK FALSE` stands where
bounded budgets let a behaviour end: all events emitted, all clicks made.

### A run that shows a disagreement with the documentation

* **`rollout_mixture`**: a canary that does not turn healthy fails its deploy after
  the services outside the rollout section, and the rollout services before it,
  already run the new version. No compose file is restored on this path, yet the
  error is `ErrRolledBack` and the deploy is reported as rolled back, which
  `rollback.go` documents as restored to the previous version.

### Other observations

Met while modelling, at the lines given; none is a run of its own.

* Order: a dependency outside the run lets its dependents, and those behind them,
  fall to the remainder in config order (`ordering.go:60`, against `:41` and
  `docs/configuration.md:703`).
* Holds: an operator's retry of a change held after start that fails before start
  becomes a backoff (`held.go:119`, `docs/configuration.md:348`). A first deploy
  that fails is rolled back to the failing version (`state.go:100`,
  `docs/state.md:5`). A shutdown that kills an `up` is held as a failure
  (`stackrun.go:171`, `docs/configuration.md:356`). A tracked file that was deleted
  is no change (`hash.go:79`), though heal treats it as one.
* NixOS: a stop before the unit starts keeps hashes and marker of a rebuild nobody
  runs (`nixos_rebuild.go:121`); the marker is cleared in memory first
  (`nixos_rebuild.go:148`), so a failing discovery has the success reported twice.
* Rollout: the drain does not look at the canary's health again; a shutdown during
  it leaves both versions; a service with several replicas comes out with one.
* Self-heal: `evaluate` passes over a snapshot that reads `starting` or could not be
  read (`selfheal.go:259`) and keeps both counts, so healthy polls that end an outage
  and degraded polls that start a heal need not be consecutive. The documentation
  says they are: `docs/configuration.md:118`, `:739` and `:741` ("stays healthy for
  `self_heal_min_unhealthy_polls` consecutive polls"), and the comments at
  `selfheal.go:44-47` ("a stack that flaps keeps one attempt budget"), `:83-84` and
  `:237-239` ("in a row"). With two polls, a stack read degraded, healthy, starting,
  healthy, degraded gets a fresh budget, and its heal is reported. `HealBudget` and
  `HealedIsReal` take the code's meaning; with `calm` emptied by an ignored poll, the
  documents' meaning, TLC finds both violated.
* Health watch: an unreadable poll keeps a pending count in the same way
  (`watcher.go:148`, against "consecutive", `docs/configuration.md:682`), and so does
  a deploy; `DebounceHolds` counts the same. Two containers of one service advance
  the debounce twice in a poll or reset it (`watcher.go:154`); an alert counts as delivered when it is queued; a
  crash between firing and saving repeats it; two transitions within one second can
  lose a recovery (`watcher.go:244`).
* Audit: a torn line and a failing compaction on load cost the next record.
* Update check: a failed read of the running images keeps the old ones, and with
  them a marker (`stackrun.go:191`, `docs/configuration.md:761`); a crash between
  notifying and recording repeats an alert; a full queue drops one that is recorded.
* Control panel: a browser's own retry after a restart does not forget the version
  it has seen (`app-stream.js:230` is only reached by `connect`, while
  `dev-docs/autosync-spec.md:260` re-baselines on every reconnect), so it ignores
  the new process until that has counted as far: the exception in `PanelSettled`.
  The queue is published without a version by racing publishers (`layers.go:382`).
* Log page: a reconnect after a fatal error replays everything once more
  (`app-helpers.js:440` promises no duplicates); an outcome lost on a full channel
  and followed by another is not pinned by a later replay (`app-logs.js:326`).

### Fairness

* `WF(RunStep)`: every command a run executes has a timeout, so a run that was
  started moves on. Which outcome it has is not assumed.
* `WF(EnterRun)`, `WF(StartRun)`: the reconcile loop ticks for ever, and a tick
  that finds the mutex free starts a run. No fairness on webhooks: they may all
  be lost. None on pushes, pauses, unpauses or retries.
* `WF(Tick)`: time passes.
* `WF(UnitStep)`: systemd runs the transient unit without skipper.
* `SF(Exit)` in `NixosRebuild`: the shutdown drains the run in flight and starts
  none by its own, so it gets its turn between two runs, and systemd starts the
  service again. It is strong because a run that was already queued may keep
  the process from being idle for a while.
* In `SelfHeal` and `HealthWatch`, weak fairness of the poller's goroutine and its
  ticker, of a run's end (its commands have timeouts), and strong fairness of a poll
  that reads every stack: docker answers now and then. None on containers, deploys
  or restarts.
* In `UpdateCheck` the ticker and the steps of a check go on; in `StateFeed` every
  goroutine and the browser's reader do, the poll of a peer ends by its timeout.
  None on clicks, pushes, cuts and changes.

## 4. What is proved

For any set of stacks, versions, faults and bounds:

| theorem | statement | assumes |
|---|---|---|
| `TypeCorrect` | `Spec => []TypeOK` | the named assumptions on constants |
| `BaseDeployed` | `Spec => []BaseIsDeployed` | `HeadAlwaysRead` |
| `RestoresOnlyRecorded` | `Spec => OnlyDeployedOrRecorded` | `HeadAlwaysRead` |
| `AttemptsAreBounded` | `Spec => []AttemptsBounded` | the named assumptions on constants |
| `ChangesAreAccounted` | `Spec => []EveryChangeAccounted` | `OrderComplete`, no `"hash"` and no `"shutdown"` among the faults |
| `ChangesAccountedUnlessCancelled` | `Spec => [](Cancelled \/ EveryChangeAccounted)` | `OrderComplete`, no `"hash"` among the faults |
| `DependentsWait` | `Spec => []DependentWaits` | `GateAssumption` |
| `OrderRespectsDependencies` | `Spec => []DependenciesFirst` (of `StackOrder`) | the named assumptions on constants |
| `OnlyStuckLeftOut` | `Spec => []LeftOutIffStuck` (of `StackOrder`) | the same |
| `OrderStaysAsConfigured` | `Spec => []ConfigOrderKept` (of `StackOrder`) | the same |
| `NothingIsLeftOut` | `Spec => []EachPlacedOnce` (of `StackOrder`) | the same |
| `RolloutImplementsCutover` | `Spec => ImplementsCutover` | `RolloutAssumption` |
| `OldServesUntilReady` | `Spec => []CutoverOf!KeptUntilReady` (of `Rollout`) | the same |
| `GivenUpCanaryIsGone` | `Spec => []NoCanaryLeft` | the same |
| `SuccessClearsLeftovers` | `Spec => []LeftoversGone` | the same |
| `BudgetHolds` | `Spec => []HealBudget` | `SelfHealAssumption` |
| `GivenUpAfterHeals` | `Spec => ExhaustedAfterHeals` | the same |
| `HealsAreReal` | `Spec => HealedIsReal` | the same |
| `DebounceIsHeld` | `WatchSpec => DebounceHolds` | `WatchAssumption` |
| `CooldownIsHeld` | `WatchSpec => AlertsLimited` | the same |
| `FailuresTakeOneEntry` | `Spec => []OneEntryPerRun` (of `EventPipeline`) | `PipelineAssumption` |
| `ReplayLeavesNoGap` | `Spec => []ClientComplete` | the same |
| `AuditSurvivesRestarts` | `Spec => []AuditDurable` | the same |
| `LinksAreRollbacks` | `Spec => LinkIsRollback` | the same |
| `StacksAreOnAppliedSystem` | `Spec => []StacksOnAppliedSystem` | `NixosAssumption` |
| `RebuildsAreNeeded` | `Spec => NoRedundantRebuild` | the same |
| `SuccessesAreApplied` | `Spec => SuccessIsApplied` | the same |
| `OverridesAreExceptions` | `Spec => []OverrideIsException` (of `StateFeed`) | none |
| `SwitchesShowTheController` | `Spec => []SwitchesAreRight` (of `StateFeed`) | `AutosyncAssumption`, `PanelAssumption` |
| `ReachableHostsAreCurrent` | `Spec => []ReachableIsCurrent` (of `StateFeed`) | `PeersAssumption` |
| `LogPageIsComplete` | `Spec => []LogIsShown` (of `StateFeed`) | `LogAssumption` |
| `AlertsReachEveryTarget` | `Spec => []EveryTargetGetsEach` (of `UpdateCheck`) | `UpdateAssumption`, `TransportAssumption` |
| `MarkersAreCurrent` | `Spec => []MarkersFollowDeploys` | the same |
| `SuggestionIsNewest` | `Spec => []NewestSuggested` | the same |
| `OneAlertPerUpdate` | `Spec => AlertedOnce` | the same |

* `TypeOK` is not inductive: that `cur` is a well-formed input needs the stacks
  still to do to have a compose file that parses at HEAD. `TypeInv` adds
  `LoopOK`: those stacks deploy, are distinct, and none is settled.
* `BaseIsDeployed` speaks of the saved state. `BaseInv` adds `RunBaseOK` for the
  copy a run works on: the recorded version of a settled stack is the one at
  HEAD, of any other the one at its base, which is what `advanceCommitBases`
  turns into new bases. It needs that a stack is settled at most once per run,
  which is `LoopOK`.
  `HeadAlwaysRead` excludes failing reads of HEAD and shutdowns: `finishRun`
  then saves new hashes with old bases, and the property is false (see the
  hazard at `deploy.go:646`).
* `RestoresOnlyRecorded` follows from `BaseInv` at the two places where
  containers change outside a deploy.
* `AttemptsAreBounded`: `CountInv` relates what a hold has counted to the `trail` of
  failed attempts a change really had: as long as another attempt may follow by
  itself (`"backoff"`), the hold has counted them all. It must say so of the copy
  a run works on and of `state.yaml`, and a saved hold must also be sound for a
  process that knows no trail (`SavedCount`), which is what a crash in the middle
  of a run leaves.
* `ChangesAreAccounted`: `StacksAccounted` says that in a run a stack not accounted
  for is still to come, and that the inputs under way are those of HEAD. A
  stack whose inputs cannot be hashed is reported and skipped, and a shutdown
  between two stacks ends the loop, hence the two faults excluded; `OrderComplete`
  (nothing is left out of the order) is what `NothingIsLeftOut` proves.
* `DependentsWait` uses `WaitInv`: `GateOK` says that a stack the gate still
  calls ready is settled or still ahead in the order, and excluded stacks are
  blocked; `PassedOK` that the stack under way was let through. `GateAssumption`
  has three parts: the order places dependencies first (it does not when
  some lie outside the run), inputs can be hashed, and they lie in the repository.
  Without the last, a host file that changes between the gate's look-ahead and
  the deploy lets a dependent pass a gate that was closed, and the theorem is
  false.
* `OrderRespectsDependencies` uses `OrderInv`, which adds `PassOK`: a pass
  without progress has left behind only stacks with a dependency not emitted.
  What is left would be a set whose members all wait for another member, which
  `cyclicStacks` has refused (`PeeledAll`). That a pass with progress is not the
  last needs a counting argument (`LongerHasMore`).
* `OrderStaysAsConfigured` is about groups of stacks (`Settled`): every dependency of
  a member is a member listed before it. `InTurn` says that the first pass places
  such a group in turn; a stack that dropped behind another one would lie in one
  (`DroppedForAReason`).
* `NothingIsLeftOut`: the loop has appended each stack once (`AppendOnce`), and the
  fallback appends the rest.
* `RolloutImplementsCutover`: `RolloutInv` types the containers and adds `Flow`,
  what each phase knows: services not reached yet run nothing new, the containers
  listed as old are from before the deploy and the canaries are not, and the drain
  is reached only with the service seen healthy. Each action is then a step of `Cutover` or a stutter (`...Refines`
  lemmas). That ids of new containers are new needs the least free number of a
  finite set (`FreeNat`). The promise itself is proved of `Cutover` and inherited.
* `GivenUpCanaryIsGone` and `SuccessClearsLeftovers` share `CleanInv`. In a deploy without
  a fault, services not reached yet run what they ran before it (`UntouchedOK`), the
  one being rolled too, with the canary beside it (`CurOK`), those passed run one new
  container each (`DoneOK`), whatever there was at the beginning.
* `BudgetHolds` and its two companions share `Budget`, which relates the attempts
  the engine remembers to the redeploys that were made: equal, except for one that
  ran and is not counted yet and one decided before a reset.
* `DebounceIsHeld`: `Debounced` bounds a pending count by the streak of polls that
  really saw its status. `CooldownIsHeld`: `Cooling` says that the record waits at
  least as long as its alerts ask, unless a restart has lost a record; `AlertsDecide` shows that deciding and catching up in one `Observe` count as one
  decision.
* The three theorems of `NixosProofs` share `NixosInv`. Its core is `Recording`:
  outside a rebuild the record is true of the host (`True`), while one is under way
  the record before it is, until the unit switches and the new one becomes so. It
  needs that the derivation cache and what was detected are those of their commits
  (`Cached`, `Detected`) and that a marker is about a record (`Marked`).
* `OverrideIsException` is inductive once every stack has a setting (`Overrides`).
* `SwitchesShowTheController`: `NothingLost` says that a connection that lost no event
  has the newest version, or that this version is about to be read or on its way: it
  holds through the reordering of the publishers because the one that read last has
  the newest version, wherever it is. `FreshOK` makes a version tell its content:
  what carries the current number is the current state.
* `ReachableHostsAreCurrent`: `EntryOK` relates what is kept of a peer to the instant its
  poll began, in each of the two requests of a poll.
* `LogPageIsComplete` has a half for the server and one for the page. `ServerInv`: ids in
  the ring are consecutive, a line this process has logged is in the ring or older than
  it, an outcome is pinned or older than the pinned ones (`Known`), and everything the
  page does not have waits for it, the replay before the live lines (`NothingMissed`).
  So a line that reaches the page is the oldest it lacks (`Receive`), and `PageInv`
  follows: the page's buffers end in what it has had of the ring (`RingShown`) and of
  the pinned lines (`PinnedShown`), and an outcome that has left the page's ring is older
  than all that is in it (`PinnedSeen`), hence in the merged view. `Kept` says what a
  filter leaves of a list, by the least index at which it could fail (`LeastNat`).
* `AlertsReachEveryTarget` counts per target: an item in hand is owed to the targets
  from the one whose turn it is on, a queued one to all.
* `MarkersAreCurrent`: `MarkerInv` says that markers agree with `lastRunning`, those of a
  running check included, and that while `lastRunning` is behind, a nudge is owed: in
  the post-run hook, before its comparison, or on its way to `RunOnce`.
* `OneAlertPerUpdate`: `AlertInv` says that an update that stands and was alerted is in
  the dedup record, and in its file unless a save failed; for stacks the check has
  passed without an update or an error the record is dropped.
* `SuggestionIsNewest` is about `NewerTag`, a recursive function over the list of tags.
  `Best` says what it has found after `i` tags; that `Best` holds for all of them is
  shown by the least index at which it does not, which is how
  these proofs do induction, since the library's own induction theorems need an
  operator as a parameter. `LessIsOrder` shows that `less` orders the tags of
  one shape.

* `FailuresTakeOneEntry` is inductive over the history alone, once every way the code
  changes it is an append after drawing some entries of it in order: the collapse
  drops the repeated outcome and the phases after it, the ring drops its oldest. What
  is drawn stays collapsed if with two entries of a stack it keeps, or drops with the
  earlier one, what lies between them (`DrawnCollapsed`); the appended entry repeats
  nothing, or what it repeats has gone (`Absorbs`, `Added`). A reload does this for
  every entry of the file (`Loaded`, by the least length at which it fails).
* `ReplayLeavesNoGap`: `Accounted` says that every event of the history has been seen,
  missed or overtaken, or is ahead of the browser: its ID is above the last one sent
  and it waits in the channel, before the replay, or at a goroutine that has stored it
  and not yet published it. `TopOK` bounds the IDs that have reached a sink and
  `FlightOK` says what each goroutine carries, with a different ID in each. It is
  where an event missed in a full channel had to be told from one not sent yet, and
  where the statuses of the run and of the poller must be disjoint, as in the code.
* `AuditSurvivesRestarts`: `AuditInv` says that as long as no outcome was recorded
  behind a later one of its stack, the lines of the file are in order of time, none
  is newer than its stack's last record, and no two emissions have one time
  (`StampsOK`, `TrailOK`); and that the file loads to the records unless a write
  failed (`LoadsTo`). `Folded` says what loading any such file gives, `Written` what a
  compaction leaves and that it loads to the same records, `Appends` that a line more
  loads to a record more; each is an induction, by the least length at which it fails,
  over the lines or over the times. That the set of stacks is finite is assumed, as is
  that the history keeps more than one event; the code keeps 100.
* `LinksAreRollbacks`: `LinkInv` says, as long as the history's file is saved, that the
  history has an ID as high as every record's, so that a restart reuses none
  (`Covered`), and that an event of the history with a record's ID is the record's.
  What makes it inductive is an event that a goroutine has yet to store while the other
  goroutine stores later ones: its ID is new to the history and those above it are in
  order (`Behind`), and what it may absorb or push out leaves an ID above every
  record's (`Outlived`). With a history of one event it is false, which is where the
  assumption comes from: the late event would push out the only one with the highest
  ID. It does not need the records to be in order of time.

Only model-checked is what is temporal: liveness under fairness is outside the
prover's reach. That is `Convergence`, `Terminates`, `RebuildConverges`,
`DegradedIsGivenUp`, `DownIsTold`, `MarkersSettle`, `QueueDrains`, `PanelSettles` and
`HostsSettle`. The safety half of `Terminates` is `NothingIsLeftOut`.

## 5. Not modelled

* In the modelled parts: metrics, log lines and diffs shown in the UI; image
  digests and the bootstrap rule for pulling; `project_directory`; deploy hooks,
  which are one of the ways an apply fails before start; flake parsing; the merging
  of override files into a stack's config; texts of alerts; parsing of image
  references and of docker's credentials; several replicas of a service
  (`Rollout`, `Poller`: see the hazard).
* `Deployer` takes the rollout as one step, `CanaryFails` or `UpOK`: `Rollout` has its
  commands. `ControlPanel` takes a deploy as one step: `Deployer` has it in full.
* The two hosts of a peer connection, docker, git, systemd and the registry are
  external: modelled by what the code expects of them.
* Orphans, roster, metrics, command execution, atomic files, log rendering: reads
  and wrappers that keep no state of their own.

## 6. Plan

1. An abstract stack lifecycle (recorded, queued, held, failing) that `Deployer`
   implements, in the way `Rollout` implements `Cutover`.
2. Several containers per service in `Poller`, for the watchdog's double count.
