---------------------------- MODULE NixosRebuild ----------------------------
(***************************************************************************)
(* The NixOS phase of a deploy run (internal/deploy/nixos_rebuild.go and   *)
(* nixos_change.go, internal/nixos): change detection by files or by       *)
(* system derivation, the hashes and the in-flight marker saved before the *)
(* rebuild, the transient systemd unit that outlives the process, and what *)
(* a run makes of its outcome.  The switch may restart skipper itself.     *)
(*                                                                         *)
(* A commit is a source: one tracked nix file (or none) and the derivation *)
(* of the host's system, which other files may change as well.             *)
(***************************************************************************)
EXTENDS Integers, Sequences

CONSTANTS
    Files,      \* contents of the tracked nix files
    NoFile,     \* the content "that file does not exist"
    Drv,        \* system derivations
    None,       \* nothing recorded; a system no commit describes
    Modes,      \* change_detection settings a process may start with
    Faults,     \* which faults the environment may inject
    MaxCommit,  \* bound: pushes
    MaxStops    \* bound: crashes and stops by the operator

ASSUME NixosAssumption ==
    /\ NoFile \in Files
    /\ None \notin Files \cup Drv
    /\ Modes \subseteq {"derivation", "files"} /\ Modes # {}
    /\ Faults \subseteq {"eval", "head", "save", "launch", "discovery", "late", "stop", "crash"}
    /\ MaxCommit \in Nat \ {0} /\ MaxStops \in Nat

VARIABLES
    log,        \* the branch: sequence of sources
    applied,    \* the source the host was switched to
    unit,       \* the transient unit
    head,       \* HEAD of the clone
    diskRec, diskMarker,    \* state.yaml: _nixos hashes, in-flight marker
    paused,     \* autosync is off for _nixos
    queued,     \* the pending registry has _nixos
    cache,      \* systemDrvCache
    mode,       \* change_detection of this process
    stopping,   \* the shutdown context is done
    phase, current, rec, marker, prev,      \* the run
    \* history
    last,       \* the last outcome reported for _nixos
    gap,        \* a rebuild was cut off before it was switched to, was half
                \* switched to, or its state could not be saved
    stops

diskVars == <<diskRec, diskMarker>>
runVars == <<phase, current, rec, marker, prev>>
vars == <<log, applied, unit, head, diskVars, paused, queued, cache, mode, stopping,
          runVars, last, gap, stops>>

Source == [files : Files, drv : Drv]
Recorded == [files : Files \cup {None}, drv : Drv \cup {None}]
Unrecorded == [files |-> None, drv |-> None]
NoCache == [commit |-> 0, drv |-> None]
NoUnit == [state |-> "none", target |-> Unrecorded, switched |-> FALSE]
Unit == [state : {"none", "running", "failed"}, target : Recorded, switched : BOOLEAN]

-----------------------------------------------------------------------------
(* Change detection *)

\* DiffHashes: a nix file that is new or changed; a deleted one is not seen.
DiffHashes(cur, old) == cur.files # NoFile /\ cur.files # old.files

\* Faulty variant: any derivation evaluated before is taken for HEAD's.
StaleDerivation(key) == IF cache.commit # 0 THEN cache.drv ELSE log[head].drv

\* systemDerivation: evaluated once per commit; without HEAD's name (key 0)
\* the cache is not used.
systemDerivation(key) ==
    IF key # 0 /\ key = cache.commit THEN cache.drv ELSE log[head].drv

\* In derivation mode only the derivation counts, a missing one as a change.
systemChanged ==
    IF mode = "derivation" THEN rec.drv # current.drv ELSE DiffHashes(current, rec)

\* An unchanged system makes the current files the recorded ones; files mode
\* records nothing.
recordUnchangedSystem == IF mode = "derivation" THEN current ELSE rec

-----------------------------------------------------------------------------
(* The environment *)

Push(src) ==
    /\ Len(log) < MaxCommit
    /\ src # log[Len(log)]
    /\ log' = Append(log, src)
    /\ UNCHANGED <<applied, unit, head, diskVars, paused, queued, cache, mode, stopping,
                   runVars, last, gap, stops>>

SetAutosync ==
    /\ paused' = ~paused
    /\ UNCHANGED <<log, applied, unit, head, diskVars, queued, cache, mode, stopping,
                   runVars, last, gap, stops>>

\* The unit switches the host to what it found in the clone, which a next
\* process may have moved on already; that may restart skipper.
UnitSwitch ==
    /\ unit.state = "running" /\ ~unit.switched
    /\ applied' \in {unit.target, log[head]}
    /\ unit' = [unit EXCEPT !.switched = TRUE]
    /\ \E restart \in BOOLEAN : stopping' = (stopping \/ restart)
    /\ UNCHANGED <<log, head, diskVars, paused, queued, cache, mode, runVars, last, gap, stops>>

UnitDone ==
    /\ unit.state = "running" /\ unit.switched
    /\ unit' = NoUnit
    /\ UNCHANGED <<log, applied, head, diskVars, paused, queued, cache, mode, stopping,
                   runVars, last, gap, stops>>

\* The build fails and leaves the host alone, or the activation fails and
\* leaves it half switched.
UnitFails ==
    /\ unit.state = "running"
    /\ \/ /\ ~unit.switched
          /\ UNCHANGED <<applied, gap>>
       \/ /\ unit.switched /\ "late" \in Faults
          /\ applied' = Unrecorded
          /\ gap' = TRUE
    /\ unit' = [unit EXCEPT !.state = "failed"]
    /\ UNCHANGED <<log, head, diskVars, paused, queued, cache, mode, stopping,
                   runVars, last, stops>>

-----------------------------------------------------------------------------
(* The NixOS phase of a run *)

EndRun ==
    /\ phase' = "idle"
    /\ current' = Unrecorded /\ rec' = Unrecorded /\ prev' = Unrecorded
    /\ marker' = FALSE

\* A run has the mutex, has synced the clone and loaded the state.
StartRun ==
    /\ phase = "idle"
    /\ head' = Len(log)
    /\ rec' = diskRec /\ marker' = diskMarker
    /\ phase' = "detect"
    /\ UNCHANGED <<log, applied, unit, diskVars, paused, queued, cache, mode, stopping,
                   current, prev, last, gap, stops>>

\* The files cannot be hashed or the derivation cannot be evaluated.
AbortNixOSPhase ==
    /\ phase = "detect" /\ "eval" \in Faults
    /\ last' = "failed"
    /\ EndRun
    /\ UNCHANGED <<log, applied, unit, head, diskVars, paused, queued, cache, mode, stopping,
                   gap, stops>>

Detect ==
    /\ phase = "detect"
    /\ \E key \in {0, head} :
        /\ key = 0 => "head" \in Faults
        /\ IF mode = "derivation"
           THEN /\ current' = [files |-> log[head].files, drv |-> systemDerivation(key)]
                /\ cache' = [commit |-> key, drv |-> systemDerivation(key)]
           ELSE /\ current' = [files |-> log[head].files, drv |-> None]
                /\ UNCHANGED cache
    /\ phase' = "decide"
    /\ UNCHANGED <<log, applied, unit, head, diskVars, paused, queued, mode, stopping,
                   rec, marker, prev, last, gap, stops>>

\* saveDeployState; a failed save is only logged.
Save(r, m) ==
    \/ /\ diskRec' = r /\ diskMarker' = m
       /\ UNCHANGED gap
    \/ /\ "save" \in Faults
       /\ gap' = TRUE
       /\ UNCHANGED diskVars

\* The marker of a rebuild that a restart of skipper interrupted: report its
\* success, then go on with what has changed since.
ReconcileMarker ==
    /\ phase = "decide" /\ marker
    /\ marker' = FALSE
    /\ Save(rec, FALSE)
    /\ last' = "success"
    /\ IF systemChanged
       THEN UNCHANGED <<phase, rec, queued>>
       ELSE /\ phase' = "stacks"
            /\ rec' = recordUnchangedSystem
            /\ queued' = FALSE
    /\ UNCHANGED <<log, applied, unit, head, paused, cache, mode, stopping,
                   current, prev, stops>>

SkipUnchanged ==
    /\ phase = "decide" /\ ~marker /\ ~systemChanged
    /\ queued' = FALSE
    /\ rec' = recordUnchangedSystem
    /\ phase' = "stacks"
    /\ UNCHANGED <<log, applied, unit, head, diskVars, paused, cache, mode, stopping,
                   current, marker, prev, last, gap, stops>>

\* Faulty variant: the deferred rebuild is not entered in the registry.
DeferUnqueued ==
    /\ phase = "decide" /\ ~marker /\ systemChanged /\ paused
    /\ phase' = "stacks"
    /\ UNCHANGED <<log, applied, unit, head, diskVars, paused, queued, cache, mode, stopping,
                   current, rec, marker, prev, last, gap, stops>>

\* Autosync is off for _nixos: the stacks deploy, the rebuild waits.
DeferPaused ==
    /\ phase = "decide" /\ ~marker /\ systemChanged /\ paused
    /\ queued' = TRUE
    /\ phase' = "stacks"
    /\ UNCHANGED <<log, applied, unit, head, diskVars, paused, cache, mode, stopping,
                   current, rec, marker, prev, last, gap, stops>>

\* Faulty variant: the hashes are recorded in memory only until the run ends.
RecordWithoutSave ==
    /\ phase = "decide" /\ ~marker /\ systemChanged /\ ~paused
    /\ queued' = FALSE
    /\ prev' = rec /\ rec' = current /\ marker' = TRUE
    /\ phase' = "launch"
    /\ UNCHANGED <<log, applied, unit, head, diskVars, paused, cache, mode, stopping,
                   current, last, gap, stops>>

\* Record the new hashes and the marker before the rebuild: the switch may
\* restart this process.
PreSave ==
    /\ phase = "decide" /\ ~marker /\ systemChanged /\ ~paused
    /\ queued' = FALSE
    /\ prev' = rec /\ rec' = current /\ marker' = TRUE
    /\ Save(current, TRUE)
    /\ phase' = "launch"
    /\ UNCHANGED <<log, applied, unit, head, paused, cache, mode, stopping,
                   current, last, stops>>

\* systemd-run starts the unit, which reads the clone.
LaunchOK ==
    /\ phase = "launch" /\ ~stopping /\ unit.state # "running"
    /\ unit' = [state |-> "running", target |-> log[head], switched |-> FALSE]
    /\ phase' = "wait"
    /\ UNCHANGED <<log, applied, head, diskVars, paused, queued, cache, mode, stopping,
                   current, rec, marker, prev, last, gap, stops>>

\* It does not: the context is done, the name is taken by a unit that still
\* runs, or the command fails.
LaunchFails ==
    /\ phase = "launch"
    /\ stopping \/ unit.state = "running" \/ "launch" \in Faults
    /\ phase' = "failed"
    /\ UNCHANGED <<log, applied, unit, head, diskVars, paused, queued, cache, mode, stopping,
                   current, rec, marker, prev, last, gap, stops>>

\* waitForUnit: the unit is gone or ended without failing.  The shutdown may
\* come after the loop has looked for it.
RebuildSucceeded ==
    /\ phase = "wait" /\ unit.state = "none"
    /\ marker' = FALSE
    /\ last' = "success"
    /\ phase' = "stacks"
    /\ UNCHANGED <<log, applied, unit, head, diskVars, paused, queued, cache, mode, stopping,
                   current, rec, prev, gap, stops>>

\* waitForUnit returns an error: the unit failed, or the wait was abandoned.
WaitFails ==
    /\ phase = "wait"
    /\ stopping \/ unit.state = "failed"
    /\ phase' = "failed"
    /\ UNCHANGED <<log, applied, unit, head, diskVars, paused, queued, cache, mode, stopping,
                   current, rec, marker, prev, last, gap, stops>>

\* The rebuild of this run has not switched the host.
NotSwitched == applied # log[head] \/ (unit.state = "running" /\ ~unit.switched)

\* A failure during shutdown is taken for the switch restarting skipper: hashes
\* and marker stay for the next process.
KeepForNextStart ==
    /\ phase = "failed" /\ stopping
    /\ gap' = (gap \/ NotSwitched)
    /\ EndRun
    /\ UNCHANGED <<log, applied, unit, head, diskVars, paused, queued, cache, mode, stopping,
                   last, stops>>

\* Faulty variant: the hashes are reverted, the marker stays.
RevertKeepsMarker ==
    /\ phase = "failed" /\ ~stopping
    /\ Save(prev, marker)
    /\ last' = "failed"
    /\ EndRun
    /\ UNCHANGED <<log, applied, unit, head, paused, queued, cache, mode, stopping, stops>>

\* A failure skipper survives: the hashes are reverted, the marker cleared.
RevertAndReport ==
    /\ phase = "failed" /\ ~stopping
    /\ Save(prev, FALSE)
    /\ last' = "failed"
    /\ EndRun
    /\ UNCHANGED <<log, applied, unit, head, paused, queued, cache, mode, stopping, stops>>

\* The stack phase ends with a save ...
FinishRun ==
    /\ phase = "stacks"
    /\ Save(rec, marker)
    /\ EndRun
    /\ UNCHANGED <<log, applied, unit, head, paused, queued, cache, mode, stopping, last, stops>>

\* ... unless the stacks cannot be discovered.
AbortStacks ==
    /\ phase = "stacks" /\ "discovery" \in Faults
    /\ EndRun
    /\ UNCHANGED <<log, applied, unit, head, diskVars, paused, queued, cache, mode, stopping,
                   last, gap, stops>>

-----------------------------------------------------------------------------
(* The process *)

NewProcess ==
    /\ EndRun
    /\ stopping' = FALSE /\ queued' = FALSE /\ cache' = NoCache
    /\ mode' \in Modes
    /\ paused' \in BOOLEAN
    /\ UNCHANGED <<log, applied, unit, head, diskVars, last>>

\* The shutdown has drained the deploy in flight.
Exit ==
    /\ stopping /\ phase = "idle"
    /\ NewProcess
    /\ UNCHANGED <<gap, stops>>

OperatorStop ==
    /\ "stop" \in Faults /\ stops < MaxStops /\ ~stopping
    /\ stopping' = TRUE /\ stops' = stops + 1
    /\ UNCHANGED <<log, applied, unit, head, diskVars, paused, queued, cache, mode,
                   runVars, last, gap>>

Crash ==
    /\ "crash" \in Faults /\ stops < MaxStops
    /\ NewProcess
    /\ stops' = stops + 1
    /\ gap' = (gap \/ (phase \in {"launch", "wait", "failed"} /\ NotSwitched))

-----------------------------------------------------------------------------
(* The specification *)

Init ==
    /\ \E src \in Source : log = <<src>>
    /\ applied = Unrecorded /\ unit = NoUnit /\ head = 0
    /\ diskRec = Unrecorded /\ diskMarker = FALSE
    /\ paused \in BOOLEAN /\ queued = FALSE /\ cache = NoCache
    /\ mode \in Modes /\ stopping = FALSE
    /\ phase = "idle" /\ current = Unrecorded /\ rec = Unrecorded /\ prev = Unrecorded
    /\ marker = FALSE
    /\ last = "none" /\ gap = FALSE /\ stops = 0

RunStep ==
    \/ AbortNixOSPhase \/ Detect
    \/ ReconcileMarker \/ SkipUnchanged \/ DeferPaused \/ PreSave
    \/ LaunchOK \/ LaunchFails \/ RebuildSucceeded \/ WaitFails
    \/ KeepForNextStart \/ RevertAndReport
    \/ FinishRun \/ AbortStacks

UnitStep == UnitSwitch \/ UnitDone \/ UnitFails

Next ==
    \/ \E src \in Source : Push(src)
    \/ SetAutosync \/ UnitStep
    \/ StartRun \/ RunStep
    \/ Exit \/ OperatorStop \/ Crash

Spec == Init /\ [][Next]_vars

\* The reconcile loop starts runs, the commands of a run end, the unit runs on
\* by itself, and systemd starts the service again once it has stopped.
FairSpec ==
    /\ Spec
    /\ WF_vars(StartRun) /\ WF_vars(RunStep) /\ WF_vars(UnitStep) /\ SF_vars(Exit)

-----------------------------------------------------------------------------
(* Properties *)

\* Stacks deploy only on a host that runs the system of the same commit, or
\* whose rebuild was deferred on purpose: through failed rebuilds, reverts,
\* restarts by the switch and crashes, and with the per-commit cache.  It is
\* ADR-0015's silent never-applied rebuild that must not happen.
StacksOnAppliedSystem ==
    phase = "stacks" /\ mode = "derivation" /\ ~gap =>
        applied.drv = log[head].drv \/ queued

\* A rebuild is not repeated for a system the host already runs: the hashes
\* saved before it survive the restart (ADR-0005).  The first rebuild with a
\* recorded derivation is left out.
NoRedundantRebuild ==
    [][LaunchOK /\ mode = "derivation" /\ ~gap /\ prev.drv # None
        => applied.drv # log[head].drv]_vars

\* The host runs what a success report is about: the recorded derivation, or in
\* files mode the recorded files.  Something must be recorded.
Runs(r) ==
    /\ r # Unrecorded
    /\ IF r.drv # None THEN applied.drv = r.drv ELSE applied.files = r.files

\* A rebuild is reported successful only when the host runs its result, also
\* when the next process reports it (ADR-0025).
SuccessIsApplied ==
    [][(ReconcileMarker \/ RebuildSucceeded) /\ ~gap => Runs(rec)]_vars

\* Every commit's system is eventually applied and recorded, its failure
\* reported, or its rebuild queued by a pause.
RebuildConverges ==
    []<>\/ /\ phase = "idle" /\ head = Len(log)
           /\ \/ applied.drv = log[head].drv /\ diskRec.drv = log[head].drv
              \/ last = "failed"
              \/ queued
        \/ gap \/ mode = "files"

=============================================================================
