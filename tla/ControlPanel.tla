---------------------------- MODULE ControlPanel -----------------------------
(***************************************************************************)
(* The autosync switch from the click to the repaint.  A POST sets an       *)
(* override, publishes the new state, starts a deploy run when it enables,  *)
(* and answers with a snapshot of its own.  A deploy run defers or deploys  *)
(* each changed stack and publishes at its end.  So several goroutines read *)
(* the state under its lock and publish it after the lock is gone.  The     *)
(* browser learns it from its POST's answer and from the event stream,      *)
(* which begins with a baseline and is otherwise best effort.               *)
(*                                                                         *)
(* The deploy itself is one step here (module Deployer has it in full).     *)
(* Metrics gauges and the roster event of a publish are left out.           *)
(***************************************************************************)
EXTENDS Autosync, Sequences, FiniteSets

CONSTANTS
    Handler,        \* POSTs that may be in progress at once
    runOrder,       \* the stacks in the order a run takes them
    channelSize,    \* buffer of an SSE subscriber
    MaxWaiting,     \* bound: runs waiting for the deploy mutex
    Budgets         \* bounds: toggles, pushes, disconnects, restarts, failed syncs

ASSUME PanelAssumption ==
    /\ channelSize \in Nat \ {0} /\ MaxWaiting \in Nat
    /\ "run" \notin Handler
    /\ runOrder \in Seq(Stack)
    /\ Budgets \subseteq [toggles : Nat, pushes : Nat, cuts : Nat, restarts : Nat, syncErrors : Nat]

VARIABLES
    reconciling,    \* the periodic reconcile is on; fixed for a process
    changed,        \* stacks whose files differ from the deployed ones
    waiting,        \* runs waiting for the deploy mutex
    todo,           \* stacks the current run has yet to take
    stage,          \* stage[g]: where publisher g is; "idle" when it is not at work
    request,        \* request[h]: the toggle POST h carries, or None
    held,           \* held[g]: the event publisher g has read and not sent yet
    stream,         \* the browser's event stream: "off", "subscribed", "live"
    channel,        \* events waiting for the stream's goroutine
    answers,        \* answers to POSTs on their way to the browser
    shown,          \* S.autosyncSnap: the snapshot on screen, or None
    autosyncVersion,\* S.autosyncVersion: its version, or None
    shownQueue,     \* S.queueSnap: the queue on screen, or None
    boot,           \* processes so far
    budget,         \* what may still happen
    \* ghosts
    shownBoot,      \* the process that issued what is on screen, or None
    missed,         \* the connection has lost an event to its full channel
    syncFailed      \* a run has ended in its sync

runVars == <<reconciling, changed, waiting, todo, syncFailed>>
publishVars == <<stage, request, held>>
browserVars == <<stream, channel, answers, shown, autosyncVersion, shownQueue, shownBoot, missed>>
panelVars == <<autosyncVars, runVars, publishVars, browserVars, boot, budget>>

Publisher == Handler \cup {"run"}
allIdle == \A h \in Handler : stage[h] = "idle"

\* An event of the stream carries a snapshot ("autosync") or a view of the queue.
NoEvent == [snap |-> None, view |-> None]

\* Broadcaster.Publish: a full subscriber misses the event.
Publish(event) ==
    LET full == Len(channel) >= channelSize IN
    /\ channel' = IF stream = "off" \/ full THEN channel
                  ELSE Append(channel, event)
    /\ missed' = (missed \/ (stream # "off" /\ full))

-----------------------------------------------------------------------------
(* POST /api/autosync *)

\* The click on a switch asks for the opposite of what it shows.  The switches are
\* inert until there is something to show.
Click(h) ==
    /\ budget.toggles > 0 /\ stage[h] = "idle" /\ shown # None
    /\ \/ request' = [request EXCEPT ![h] = [scope |-> "global", enabled |-> ~shown.global]]
       \/ \E s \in Stack :
            request' = [request EXCEPT ![h] = [scope |-> s, enabled |-> ~shown.stacks[s]]]
    /\ stage' = [stage EXCEPT ![h] = "set"]
    /\ budget' = [budget EXCEPT !.toggles = @ - 1]
    /\ UNCHANGED <<autosyncVars, runVars, held, browserVars, boot>>

Set(h) ==
    LET t == request[h] IN
    /\ stage[h] = "set"
    /\ IF t.scope = "global" THEN SetGlobal(t.enabled) ELSE SetStack(t.scope, t.enabled)
    /\ stage' = [stage EXCEPT ![h] = "snapshot"]
    /\ UNCHANGED <<pending, runVars, request, held, browserVars, boot, budget>>

\* Faulty variant: a busy deployer drops the run the toggle asks for.
TriggerUnlessBusy(h) ==
    /\ stage[h] = "reply"
    /\ waiting' = IF request[h].enabled /\ waiting = 0 /\ stage["run"] = "idle" THEN 1 ELSE waiting
    /\ answers' = answers \cup {[snap |-> Snapshot, boot |-> boot]}
    /\ stage' = [stage EXCEPT ![h] = "idle"] /\ request' = [request EXCEPT ![h] = None]
    /\ UNCHANGED <<autosyncVars, reconciling, changed, todo, syncFailed, held, stream, channel, shown,
                   autosyncVersion, shownQueue, shownBoot, missed, boot, budget>>

\* An enabling toggle starts a run, which waits its turn; the answer is read afresh.
Reply(h) ==
    /\ stage[h] = "reply"
    /\ IF request[h].enabled THEN waiting < MaxWaiting /\ waiting' = waiting + 1
       ELSE UNCHANGED waiting
    /\ answers' = answers \cup {[snap |-> Snapshot, boot |-> boot]}
    /\ stage' = [stage EXCEPT ![h] = "idle"] /\ request' = [request EXCEPT ![h] = None]
    /\ UNCHANGED <<autosyncVars, reconciling, changed, todo, syncFailed, held, stream, channel, shown,
                   autosyncVersion, shownQueue, shownBoot, missed, boot, budget>>

-----------------------------------------------------------------------------
(* autosyncPublisher.publish: reads one snapshot, sends it, reads the queue,  *)
(* sends it.  Two publishers may interleave at every step.                    *)

TakeSnapshot(g) ==
    /\ stage[g] = "snapshot"
    /\ held' = [held EXCEPT ![g].snap = Snapshot] /\ stage' = [stage EXCEPT ![g] = "publish"]
    /\ UNCHANGED <<autosyncVars, runVars, request, browserVars, boot, budget>>

PublishSnapshot(g) ==
    /\ stage[g] = "publish"
    /\ Publish(held[g])
    /\ held' = [held EXCEPT ![g] = NoEvent] /\ stage' = [stage EXCEPT ![g] = "view"]
    /\ UNCHANGED <<autosyncVars, runVars, request, stream, answers, shown, autosyncVersion,
                   shownQueue, shownBoot, boot, budget>>

TakeView(g) ==
    /\ stage[g] = "view"
    /\ held' = [held EXCEPT ![g].view = pending] /\ stage' = [stage EXCEPT ![g] = "publishView"]
    /\ UNCHANGED <<autosyncVars, runVars, request, browserVars, boot, budget>>

PublishView(g) ==
    /\ stage[g] = "publishView"
    /\ Publish(held[g])
    /\ held' = [held EXCEPT ![g] = NoEvent]
    /\ stage' = [stage EXCEPT ![g] = IF g = "run" THEN "idle" ELSE "reply"]
    /\ UNCHANGED <<autosyncVars, runVars, request, stream, answers, shown, autosyncVersion,
                   shownQueue, shownBoot, boot, budget>>

-----------------------------------------------------------------------------
(* Deploy runs *)

\* A failed sync ends the run before any stack, and nothing is published.
StartRun ==
    /\ stage["run"] = "idle"
    /\ waiting > 0 /\ waiting' = waiting - 1
    /\ \/ /\ stage' = [stage EXCEPT !["run"] = "stacks"] /\ todo' = runOrder
          /\ UNCHANGED <<budget, syncFailed>>
       \/ /\ budget.syncErrors > 0 /\ budget' = [budget EXCEPT !.syncErrors = @ - 1]
          /\ syncFailed' = TRUE
          /\ UNCHANGED <<stage, todo>>
    /\ UNCHANGED <<autosyncVars, reconciling, changed, request, held, browserVars, boot>>

\* A reconcile tick, dropped when the mutex is taken.  Ticks are minutes apart,
\* so the streams have been drained since the run before.
Reconcile ==
    /\ reconciling /\ stage["run"] = "idle" /\ waiting = 0
    /\ channel = <<>>
    /\ stage' = [stage EXCEPT !["run"] = "stacks"] /\ todo' = runOrder
    /\ UNCHANGED <<autosyncVars, reconciling, changed, waiting, syncFailed, request, held, browserVars, boot, budget>>

\* deployStackIfChanged for the next stack.  The deploy may fail, the stack then
\* stays changed; a paused stack is marked in a second step.
RunStack ==
    LET s == Head(todo) IN
    /\ stage["run"] = "stacks" /\ todo # <<>>
    /\ \/ /\ s \in changed /\ ~Effective(s)
          /\ stage' = [stage EXCEPT !["run"] = "defer"]
          /\ UNCHANGED <<pending, changed, todo>>
       \/ /\ s \notin changed \/ Effective(s)
          /\ Clear(s) /\ todo' = Tail(todo)
          /\ changed' \in {changed, changed \ {s}}
          /\ UNCHANGED stage
    /\ UNCHANGED <<controllerVars, reconciling, waiting, syncFailed, request, held, browserVars, boot, budget>>

\* markQueued asks the controller for the reason anew: by now it may say "".
Defer ==
    LET s == Head(todo) IN
    /\ stage["run"] = "defer"
    /\ Mark(s, Reason(s)) /\ todo' = Tail(todo)
    /\ stage' = [stage EXCEPT !["run"] = "stacks"]
    /\ UNCHANGED <<controllerVars, reconciling, changed, waiting, syncFailed, request, held, browserVars, boot, budget>>

\* Faulty variant: nothing is published after a run.
FinishSilently ==
    /\ stage["run"] = "stacks" /\ todo = <<>>
    /\ stage' = [stage EXCEPT !["run"] = "idle"]
    /\ UNCHANGED <<autosyncVars, runVars, request, held, browserVars, boot, budget>>

\* PostRunHook.
FinishRun ==
    /\ stage["run"] = "stacks" /\ todo = <<>>
    /\ stage' = [stage EXCEPT !["run"] = "snapshot"]
    /\ UNCHANGED <<autosyncVars, runVars, request, held, browserVars, boot, budget>>

\* A commit changes a stack, or changes it back; its webhook starts a run.
Push(s) ==
    /\ budget.pushes > 0 /\ budget' = [budget EXCEPT !.pushes = @ - 1]
    /\ changed' = IF s \in changed THEN changed \ {s} ELSE changed \cup {s}
    /\ waiting < MaxWaiting /\ waiting' = waiting + 1
    /\ UNCHANGED <<autosyncVars, reconciling, todo, syncFailed, publishVars, browserVars, boot>>

-----------------------------------------------------------------------------
(* The browser *)

\* Faulty variant: whatever arrives is shown.
ApplyAny(snap, issuer) ==
    /\ shown' = snap /\ autosyncVersion' = snap.version /\ shownBoot' = issuer

\* applyAutosyncSnapshot: an older version than the one on screen is dropped.
Apply(snap, issuer) ==
    IF autosyncVersion # None /\ snap.version < autosyncVersion
    THEN UNCHANGED <<shown, autosyncVersion, shownBoot>>
    ELSE shown' = snap /\ autosyncVersion' = snap.version /\ shownBoot' = issuer

\* The stream opens: through connect(), which forgets the version, or by the
\* EventSource's own retry, which no code of the page sees.
Subscribe ==
    /\ stream = "off" /\ stream' = "subscribed" /\ channel' = <<>> /\ missed' = FALSE
    /\ autosyncVersion' \in IF shown = None THEN {None} ELSE {None, autosyncVersion}
    /\ UNCHANGED <<autosyncVars, runVars, publishVars, answers, shown, shownQueue, shownBoot, boot, budget>>

\* collect, after subscribing.
Baseline ==
    /\ stream = "subscribed" /\ stream' = "live"
    /\ Apply(Snapshot, boot) /\ shownQueue' = pending
    /\ UNCHANGED <<autosyncVars, runVars, publishVars, channel, answers, missed, boot, budget>>

\* The stream's goroutine writes the oldest event and the browser applies it.
Deliver ==
    /\ stream = "live" /\ channel # <<>> /\ channel' = Tail(channel)
    /\ IF Head(channel).snap # None
       THEN Apply(Head(channel).snap, boot) /\ UNCHANGED shownQueue
       ELSE shownQueue' = Head(channel).view /\ UNCHANGED <<shown, autosyncVersion, shownBoot>>
    /\ UNCHANGED <<autosyncVars, runVars, publishVars, stream, answers, missed, boot, budget>>

\* Answers travel on connections of their own and overtake each other.
Answer ==
    /\ \E a \in answers : answers' = answers \ {a} /\ Apply(a.snap, a.boot)
    /\ UNCHANGED <<autosyncVars, runVars, publishVars, stream, channel, shownQueue, missed, boot, budget>>

\* The connection breaks.
Cut ==
    /\ stream # "off" /\ budget.cuts > 0 /\ budget' = [budget EXCEPT !.cuts = @ - 1]
    /\ stream' = "off" /\ channel' = <<>> /\ missed' = FALSE
    /\ UNCHANGED <<autosyncVars, runVars, publishVars, answers, shown, autosyncVersion, shownQueue,
                   shownBoot, boot>>

\* The process dies and starts anew, with its startup run; answers already sent
\* may still arrive.
Restart ==
    /\ budget.restarts > 0 /\ budget' = [budget EXCEPT !.restarts = @ - 1]
    /\ NewController
    /\ waiting' = 1 /\ todo' = <<>>
    /\ stage' = [g \in Publisher |-> "idle"] /\ request' = [h \in Handler |-> None]
    /\ held' = [g \in Publisher |-> NoEvent]
    /\ stream' = "off" /\ channel' = <<>> /\ missed' = FALSE
    /\ boot' = boot + 1
    /\ UNCHANGED <<reconciling, changed, syncFailed, answers, shown, autosyncVersion, shownQueue, shownBoot>>

PanelInit ==
    /\ AutosyncInit
    /\ reconciling \in BOOLEAN /\ changed = {} /\ waiting = 1 /\ todo = <<>>
    /\ stage = [g \in Publisher |-> "idle"] /\ request = [h \in Handler |-> None]
    /\ held = [g \in Publisher |-> NoEvent]
    /\ stream = "off" /\ channel = <<>> /\ answers = {}
    /\ shown = None /\ autosyncVersion = None /\ shownQueue = None
    /\ boot = 0 /\ budget \in Budgets
    /\ shownBoot = None /\ missed = FALSE /\ syncFailed = FALSE

PublishStep(g) == TakeSnapshot(g) \/ PublishSnapshot(g) \/ TakeView(g) \/ PublishView(g)
RunStep == StartRun \/ Reconcile \/ RunStack \/ Defer \/ FinishRun
StreamStep == Subscribe \/ Baseline \/ Deliver

\* A goroutine of the server: a POST's handler or a run.
Goroutine(g) == PublishStep(g) \/ IF g = "run" THEN RunStep ELSE Set(g) \/ Reply(g)

PanelNext ==
    \/ \E h \in Handler : Click(h)
    \/ \E g \in Publisher : Goroutine(g)
    \/ \E s \in Stack : Push(s)
    \/ StreamStep \/ Answer \/ Cut
    \/ Restart

-----------------------------------------------------------------------------

\* Nothing is being published, answered or delivered.
Quiet == allIdle /\ stage["run"] = "idle" /\ channel = <<>> /\ answers = {}

\* However answers and events overtook each other, once nothing is on its way the
\* switches show what the controller holds - unless the channel dropped an event
\* or what is on screen comes from an earlier process.
SwitchesAreRight ==
    stream = "live" /\ Quiet /\ ~missed /\ shownBoot = boot => shown = Snapshot

\* A deferred deploy does not stay deferred once its stack is enabled: the run
\* the toggle starts takes it up, reconcile or not.  A failed sync voids that
\* run, so without reconcile it is owed only while none has failed.
QueueDrains ==
    []<>(\A s \in Stack : pending[s] = None \/ ~Effective(s) \/ (~reconciling /\ syncFailed))

\* Where reconcile runs, the page ends up showing the queue and the switches as
\* they are - unless the version it remembers is one the new process has not
\* reached (see the README).
PanelSettled ==
    reconciling =>
        /\ shownQueue = pending
        /\ shown = Snapshot \/ (autosyncVersion # None /\ autosyncVersion > version)

=============================================================================
