----------------------------- MODULE NixosProofs -----------------------------
(***************************************************************************)
(* The NixOS phase keeps its record true to the host, for any number of     *)
(* commits, derivations and stops, in either detection mode and across      *)
(* every restart - unless the history variable gap says that a rebuild was  *)
(* cut off or a save was lost.                                             *)
(***************************************************************************)
EXTENDS NixosRebuild, SequenceTheorems, TLAPS

Phases == {"idle", "detect", "decide", "launch", "wait", "failed", "stacks"}
Rebuilding == {"launch", "wait", "failed"}

Types ==
    /\ log \in Seq(Source) /\ Len(log) # 0 /\ head \in 0 .. Len(log)
    /\ applied \in Recorded /\ unit \in Unit
    /\ diskRec \in Recorded /\ rec \in Recorded /\ prev \in Recorded /\ current \in Recorded
    /\ diskMarker \in BOOLEAN /\ marker \in BOOLEAN
    /\ mode \in {"derivation", "files"} /\ phase \in Phases
    /\ phase # "idle" \/ unit.state = "running" => head # 0

\* The derivation cache holds what it says.
Cached ==
    /\ cache.commit \in 0 .. Len(log)
    /\ cache.commit # 0 => cache.drv = log[cache.commit].drv

\* What the run has detected is the source at HEAD.
Detected ==
    phase \in {"decide"} \cup Rebuilding =>
        current = [files |-> log[head].files,
                   drv |-> IF mode = "derivation" THEN log[head].drv ELSE None]

\* A record is true: nothing, or what the host runs.
True(r) == r = Unrecorded \/ Runs(r)

Unswitched == unit.state = "running" /\ ~unit.switched

\* The records are true of the host; while a rebuild is under way the old one is,
\* until the unit switches and the new one becomes so.
Recording ==
    /\ phase \notin Rebuilding => True(diskRec)
    /\ phase \in {"detect", "decide", "stacks"} => True(rec)
    /\ phase \in Rebuilding => rec = current /\ diskRec = current
    /\ phase = "launch" => True(prev)
    /\ phase = "wait" /\ (Unswitched \/ unit.state = "failed") => True(prev)
    /\ phase = "wait" /\ unit.state # "failed" /\ ~Unswitched => applied = log[head]
    /\ phase = "failed" /\ ~stopping => True(prev)
    /\ Unswitched => /\ phase = "wait" \/ (phase = "failed" /\ stopping)
                     /\ unit.target = log[head]

\* A marker is about something recorded, and the stack phase has none.
Marked ==
    /\ diskMarker => diskRec # Unrecorded
    /\ phase \in {"detect", "decide"} /\ marker => rec # Unrecorded
    /\ phase = "stacks" => ~marker

\* A rebuild is started for a change only.
Changed == phase = "launch" /\ mode = "derivation" => prev.drv # current.drv

NixosInv ==
    /\ Types /\ Cached /\ Detected
    /\ ~gap => Recording /\ Marked /\ Changed /\ StacksOnAppliedSystem

-----------------------------------------------------------------------------

\* Nothing is nothing else.
LEMMA Apart ==
  /\ None \notin Files /\ None \notin Drv
  /\ Unrecorded \in Recorded /\ NoUnit \in Unit /\ Source \subseteq Recorded
  /\ \A src \in Source : src # Unrecorded /\ src.drv # None /\ src.files # None
BY NixosAssumption DEF Unrecorded, Recorded, NoUnit, Unit, Source

\* A pushed commit is at the end of the branch.
LEMMA Pushed ==
  ASSUME NEW src \in Source, log \in Seq(Source), log' = Append(log, src)
  PROVE  /\ log' \in Seq(Source) /\ Len(log') = Len(log) + 1
         /\ \A i \in 1 .. Len(log) : log'[i] = log[i]
BY AppendProperties

\* The source at HEAD is one.
LEMMA AtHead ==
  ASSUME Types, phase # "idle" \/ unit.state = "running"
  PROVE  /\ log[head] \in Source /\ log[head] \in Recorded
         /\ log[head].drv \in Drv /\ log[head].files \in Files
<1>1. log[head] \in Source
  BY ElementOfSeq DEF Types
<1>. QED BY <1>1, Apart DEF Source

\* A host that was switched to HEAD runs what was detected there.
LEMMA SwitchedRuns ==
  ASSUME NixosInv, phase \in {"decide"} \cup Rebuilding, applied = log[head]
  PROVE  True(current)
BY AtHead, Apart DEF NixosInv, Detected, True, Runs, Rebuilding, Recorded

\* What was detected is something.
LEMMA DetectedIsSome ==
  ASSUME NixosInv, phase \in {"decide"} \cup Rebuilding
  PROVE  current # Unrecorded /\ current \in Recorded
BY AtHead, Apart DEF NixosInv, Types, Detected, Rebuilding, Unrecorded

\* A system that has not changed is the one the host runs, and may be recorded anew.
LEMMA UnchangedRuns ==
  ASSUME NixosInv, ~gap, phase = "decide", ~systemChanged
  PROVE  /\ recordUnchangedSystem \in Recorded /\ True(recordUnchangedSystem)
         /\ rec # Unrecorded => recordUnchangedSystem # Unrecorded
         /\ mode = "derivation" => applied.drv = log[head].drv
<1>1. True(rec) /\ current \in Recorded /\ rec \in Recorded /\ current # Unrecorded
  BY DetectedIsSome DEF NixosInv, Types, Recording
<1>2. CASE mode = "derivation"
  <2>1. rec.drv = current.drv /\ current.drv = log[head].drv /\ current.drv # None
    BY <1>2, AtHead, Apart DEF NixosInv, Detected, systemChanged
  <2>2. applied.drv = rec.drv
    BY <1>1, <2>1 DEF True, Runs, Unrecorded
  <2>3. True(current)
    BY <1>1, <2>1, <2>2 DEF True, Runs
  <2>. QED BY <1>1, <1>2, <2>1, <2>2, <2>3 DEF recordUnchangedSystem
<1>3. CASE mode # "derivation"
  BY <1>1, <1>3 DEF recordUnchangedSystem
<1>. QED BY <1>2, <1>3

\* At the start nothing is recorded.
LEMMA NixosInit == Init => NixosInv
<1>. SUFFICES ASSUME Init PROVE NixosInv
  OBVIOUS
<1>1. PICK src \in Source : log = <<src>>
  BY DEF Init
<1>2. log \in Seq(Source) /\ Len(log) = 1
  BY <1>1
<1>3. Types
  <2>1. head \in 0 .. Len(log) /\ phase = "idle" /\ phase \in Phases /\ unit.state = "none"
    BY <1>2 DEF Init, Phases, NoUnit
  <2>2. /\ applied \in Recorded /\ unit \in Unit /\ diskRec \in Recorded
        /\ rec \in Recorded /\ prev \in Recorded /\ current \in Recorded
    BY Apart DEF Init
  <2>3. diskMarker \in BOOLEAN /\ marker \in BOOLEAN /\ mode \in {"derivation", "files"}
    BY NixosAssumption DEF Init
  <2>. QED BY <1>2, <2>1, <2>2, <2>3 DEF Types
<1>4. Cached /\ Detected /\ Recording /\ Marked /\ Changed /\ StacksOnAppliedSystem
  BY <1>2, Apart
     DEF Init, Cached, NoCache, Detected, Rebuilding, Recording, True, Unswitched,
                     NoUnit, Marked, Changed, StacksOnAppliedSystem
<1>. QED BY <1>3, <1>4 DEF NixosInv

\* The run ends, with nothing changed.
LEMMA AbortNixOSPhaseKeeps ==
  ASSUME NixosInv, AbortNixOSPhase
  PROVE  NixosInv'
<1>1. Types'
  BY Apart DEF NixosInv, Types, AbortNixOSPhase, EndRun, Phases, diskVars
<1>2. Cached' /\ Detected'
  BY DEF NixosInv, Cached, Detected, Rebuilding, AbortNixOSPhase, EndRun
<1>3. ASSUME ~gap' PROVE Recording'
  BY <1>3
     DEF NixosInv, Recording, True, Runs, Unswitched, Rebuilding, AbortNixOSPhase, EndRun,
         diskVars
<1>4. ASSUME ~gap' PROVE Marked'
  BY <1>4 DEF NixosInv, Marked, AbortNixOSPhase, EndRun, diskVars
<1>5. ASSUME ~gap' PROVE Changed' /\ StacksOnAppliedSystem'
  BY <1>5 DEF Changed, StacksOnAppliedSystem, AbortNixOSPhase, EndRun
<1>. QED BY <1>1, <1>2, <1>3, <1>4, <1>5 DEF NixosInv

\* The run reads the files and the derivation at HEAD, or takes the latter from the cache.
LEMMA DetectKeeps ==
  ASSUME NixosInv, Detect
  PROVE  NixosInv'
<1>1. Types'
  <2>1. current' = [files |-> log[head].files,
                      drv |-> IF mode = "derivation" THEN log[head].drv ELSE None]
    BY DEF NixosInv, Cached, Detect, systemDerivation
  <2>2. current' \in Recorded
    BY <2>1, AtHead DEF NixosInv, Detect, Recorded
  <2>. QED BY <2>2 DEF NixosInv, Types, Detect, Phases, diskVars
<1>2. Cached' /\ Detected'
  BY DEF NixosInv, Types, Cached, Detected, Detect, systemDerivation
<1>3. ASSUME ~gap' PROVE Recording'
  BY <1>3 DEF NixosInv, Recording, True, Runs, Unswitched, Rebuilding, Detect, diskVars
<1>4. ASSUME ~gap' PROVE Marked'
  BY <1>4 DEF NixosInv, Marked, Detect, diskVars
<1>5. ASSUME ~gap' PROVE Changed' /\ StacksOnAppliedSystem'
  BY <1>5 DEF Changed, StacksOnAppliedSystem, Detect
<1>. QED BY <1>1, <1>2, <1>3, <1>4, <1>5 DEF NixosInv

\* The next process reports an interrupted rebuild and goes on.
LEMMA ReconcileMarkerKeeps ==
  ASSUME NixosInv, ReconcileMarker
  PROVE  NixosInv'
<1>1. Types'
  BY DEF NixosInv, Types, ReconcileMarker, Save, recordUnchangedSystem, Phases, diskVars
<1>2. Cached' /\ Detected'
  BY DEF NixosInv, Cached, Detected, ReconcileMarker
<1>3. ASSUME ~gap' PROVE Recording'
  BY <1>3, UnchangedRuns
     DEF NixosInv, Recording, True, Runs, Unswitched, Rebuilding, ReconcileMarker, Save
<1>4. ASSUME ~gap' PROVE Marked'
  BY <1>4 DEF Marked, ReconcileMarker, Save
<1>5. ASSUME ~gap' PROVE Changed' /\ StacksOnAppliedSystem'
  BY <1>5, UnchangedRuns DEF Changed, StacksOnAppliedSystem, ReconcileMarker, Save
<1>. QED BY <1>1, <1>2, <1>3, <1>4, <1>5 DEF NixosInv

\* An unchanged system refreshes the record.
LEMMA SkipUnchangedKeeps ==
  ASSUME NixosInv, SkipUnchanged
  PROVE  NixosInv'
<1>1. Types'
  BY DEF NixosInv, Types, SkipUnchanged, recordUnchangedSystem, Phases, diskVars
<1>2. Cached' /\ Detected'
  BY DEF NixosInv, Cached, Detected, SkipUnchanged
<1>3. ASSUME ~gap' PROVE Recording'
  BY <1>3, UnchangedRuns
     DEF NixosInv, Recording, True, Runs, Unswitched, Rebuilding, SkipUnchanged, diskVars
<1>4. ASSUME ~gap' PROVE Marked'
  BY <1>4 DEF NixosInv, Marked, SkipUnchanged, diskVars
<1>5. ASSUME ~gap' PROVE Changed' /\ StacksOnAppliedSystem'
  BY <1>5, UnchangedRuns DEF Changed, StacksOnAppliedSystem, SkipUnchanged
<1>. QED BY <1>1, <1>2, <1>3, <1>4, <1>5 DEF NixosInv

\* A paused rebuild is queued.
LEMMA DeferPausedKeeps ==
  ASSUME NixosInv, DeferPaused
  PROVE  NixosInv'
<1>1. Types'
  BY DEF NixosInv, Types, DeferPaused, Phases, diskVars
<1>2. Cached' /\ Detected'
  BY DEF NixosInv, Cached, Detected, DeferPaused
<1>3. ASSUME ~gap' PROVE Recording'
  BY <1>3 DEF NixosInv, Recording, True, Runs, Unswitched, Rebuilding, DeferPaused, diskVars
<1>4. ASSUME ~gap' PROVE Marked'
  BY <1>4 DEF NixosInv, Marked, DeferPaused, diskVars
<1>5. ASSUME ~gap' PROVE Changed' /\ StacksOnAppliedSystem'
  BY <1>5 DEF Changed, StacksOnAppliedSystem, DeferPaused
<1>. QED BY <1>1, <1>2, <1>3, <1>4, <1>5 DEF NixosInv

\* The new record is saved before the rebuild.
LEMMA PreSaveKeeps ==
  ASSUME NixosInv, PreSave
  PROVE  NixosInv'
<1>1. Types'
  BY DEF NixosInv, Types, PreSave, Save, Phases, diskVars
<1>2. Cached' /\ Detected'
  BY DEF NixosInv, Cached, Detected, PreSave
<1>3. ASSUME ~gap' PROVE Recording'
  BY <1>3 DEF NixosInv, Recording, True, Runs, Unswitched, Rebuilding, PreSave, Save
<1>4. ASSUME ~gap' PROVE Marked'
  BY <1>4, DetectedIsSome DEF Marked, PreSave, Save
<1>5. ASSUME ~gap' PROVE Changed' /\ StacksOnAppliedSystem'
  BY <1>5 DEF Changed, StacksOnAppliedSystem, PreSave, systemChanged
<1>. QED BY <1>1, <1>2, <1>3, <1>4, <1>5 DEF NixosInv

\* The unit starts on HEAD.
LEMMA LaunchOKKeeps ==
  ASSUME NixosInv, LaunchOK
  PROVE  NixosInv'
<1>1. Types'
  <2>1. unit' \in Unit
    BY AtHead DEF NixosInv, LaunchOK, Unit
  <2>. QED BY <2>1 DEF NixosInv, Types, LaunchOK, Phases, diskVars
<1>2. Cached' /\ Detected'
  BY DEF NixosInv, Cached, Detected, Rebuilding, LaunchOK
<1>3. ASSUME ~gap' PROVE Recording'
  BY <1>3 DEF NixosInv, Recording, True, Runs, Unswitched, Rebuilding, LaunchOK, diskVars
<1>4. ASSUME ~gap' PROVE Marked'
  BY <1>4 DEF NixosInv, Marked, LaunchOK, diskVars
<1>5. ASSUME ~gap' PROVE Changed' /\ StacksOnAppliedSystem'
  BY <1>5 DEF Changed, StacksOnAppliedSystem, LaunchOK
<1>. QED BY <1>1, <1>2, <1>3, <1>4, <1>5 DEF NixosInv

\* It does not.
LEMMA LaunchFailsKeeps ==
  ASSUME NixosInv, LaunchFails
  PROVE  NixosInv'
<1>1. Types'
  BY DEF NixosInv, Types, LaunchFails, Phases, diskVars
<1>2. Cached' /\ Detected'
  BY DEF NixosInv, Cached, Detected, Rebuilding, LaunchFails
<1>3. ASSUME ~gap' PROVE Recording'
  BY <1>3 DEF NixosInv, Recording, True, Runs, Unswitched, Rebuilding, LaunchFails, diskVars
<1>4. ASSUME ~gap' PROVE Marked'
  BY <1>4 DEF NixosInv, Marked, LaunchFails, diskVars
<1>5. ASSUME ~gap' PROVE Changed' /\ StacksOnAppliedSystem'
  BY <1>5 DEF Changed, StacksOnAppliedSystem, LaunchFails
<1>. QED BY <1>1, <1>2, <1>3, <1>4, <1>5 DEF NixosInv

\* The unit is gone: the host was switched.
LEMMA RebuildSucceededKeeps ==
  ASSUME NixosInv, RebuildSucceeded
  PROVE  NixosInv'
<1>1. Types'
  BY DEF NixosInv, Types, RebuildSucceeded, Phases, diskVars
<1>2. Cached' /\ Detected'
  BY DEF NixosInv, Cached, Detected, Rebuilding, RebuildSucceeded
<1>3. ASSUME ~gap' PROVE Recording'
  BY <1>3
     DEF NixosInv, Detected, Recording, True, Runs, Unswitched, Rebuilding,
         RebuildSucceeded, diskVars
<1>4. ASSUME ~gap' PROVE Marked'
  BY <1>4 DEF NixosInv, Marked, RebuildSucceeded, diskVars
<1>5. ASSUME ~gap' PROVE Changed' /\ StacksOnAppliedSystem'
  BY <1>5
     DEF NixosInv, Recording, Unswitched, Changed, StacksOnAppliedSystem, RebuildSucceeded
<1>. QED BY <1>1, <1>2, <1>3, <1>4, <1>5 DEF NixosInv

\* The unit failed, or skipper is to stop.
LEMMA WaitFailsKeeps ==
  ASSUME NixosInv, WaitFails
  PROVE  NixosInv'
<1>1. Types'
  BY DEF NixosInv, Types, WaitFails, Phases, diskVars
<1>2. Cached' /\ Detected'
  BY DEF NixosInv, Cached, Detected, Rebuilding, WaitFails
<1>3. ASSUME ~gap' PROVE Recording'
  BY <1>3 DEF NixosInv, Recording, True, Runs, Unswitched, Rebuilding, WaitFails, diskVars
<1>4. ASSUME ~gap' PROVE Marked'
  BY <1>4 DEF NixosInv, Marked, WaitFails, diskVars
<1>5. ASSUME ~gap' PROVE Changed' /\ StacksOnAppliedSystem'
  BY <1>5 DEF Changed, StacksOnAppliedSystem, WaitFails
<1>. QED BY <1>1, <1>2, <1>3, <1>4, <1>5 DEF NixosInv

\* The record stays for the next process.
LEMMA KeepForNextStartKeeps ==
  ASSUME NixosInv, KeepForNextStart
  PROVE  NixosInv'
<1>1. Types'
  BY Apart DEF NixosInv, Types, KeepForNextStart, EndRun, Phases, diskVars
<1>2. Cached' /\ Detected'
  BY DEF NixosInv, Cached, Detected, Rebuilding, KeepForNextStart, EndRun
<1>3. ASSUME ~gap' PROVE Recording'
  BY <1>3, SwitchedRuns
     DEF NixosInv, Recording, True, Runs, Unswitched, Rebuilding, KeepForNextStart, EndRun,
         NotSwitched, diskVars
<1>4. ASSUME ~gap' PROVE Marked'
  BY <1>4 DEF NixosInv, Marked, KeepForNextStart, EndRun, diskVars
<1>5. ASSUME ~gap' PROVE Changed' /\ StacksOnAppliedSystem'
  BY <1>5 DEF Changed, StacksOnAppliedSystem, KeepForNextStart, EndRun
<1>. QED BY <1>1, <1>2, <1>3, <1>4, <1>5 DEF NixosInv

\* The old record comes back.
LEMMA RevertAndReportKeeps ==
  ASSUME NixosInv, RevertAndReport
  PROVE  NixosInv'
<1>1. Types'
  BY Apart DEF NixosInv, Types, RevertAndReport, Save, EndRun, Phases, diskVars
<1>2. Cached' /\ Detected'
  BY DEF NixosInv, Cached, Detected, Rebuilding, RevertAndReport, EndRun
<1>3. ASSUME ~gap' PROVE Recording'
  BY <1>3
     DEF NixosInv, Recording, True, Runs, Unswitched, Rebuilding, RevertAndReport, Save,
         EndRun
<1>4. ASSUME ~gap' PROVE Marked'
  BY <1>4 DEF Marked, RevertAndReport, Save, EndRun
<1>5. ASSUME ~gap' PROVE Changed' /\ StacksOnAppliedSystem'
  BY <1>5 DEF Changed, StacksOnAppliedSystem, RevertAndReport, EndRun
<1>. QED BY <1>1, <1>2, <1>3, <1>4, <1>5 DEF NixosInv

\* The run ends with a save.
LEMMA FinishRunKeeps ==
  ASSUME NixosInv, FinishRun
  PROVE  NixosInv'
<1>1. Types'
  BY Apart DEF NixosInv, Types, FinishRun, Save, EndRun, Phases, diskVars
<1>2. Cached' /\ Detected'
  BY DEF NixosInv, Cached, Detected, Rebuilding, FinishRun, EndRun
<1>3. ASSUME ~gap' PROVE Recording'
  BY <1>3
     DEF NixosInv, Recording, True, Runs, Unswitched, Rebuilding, FinishRun, Save, EndRun
<1>4. ASSUME ~gap' PROVE Marked'
  BY <1>4 DEF NixosInv, Marked, FinishRun, Save, EndRun
<1>5. ASSUME ~gap' PROVE Changed' /\ StacksOnAppliedSystem'
  BY <1>5 DEF Changed, StacksOnAppliedSystem, FinishRun, EndRun
<1>. QED BY <1>1, <1>2, <1>3, <1>4, <1>5 DEF NixosInv

\* Or without.
LEMMA AbortStacksKeeps ==
  ASSUME NixosInv, AbortStacks
  PROVE  NixosInv'
<1>1. Types'
  BY Apart DEF NixosInv, Types, AbortStacks, EndRun, Phases, diskVars
<1>2. Cached' /\ Detected'
  BY DEF NixosInv, Cached, Detected, Rebuilding, AbortStacks, EndRun
<1>3. ASSUME ~gap' PROVE Recording'
  BY <1>3
     DEF NixosInv, Recording, True, Runs, Unswitched, Rebuilding, AbortStacks, EndRun,
         diskVars
<1>4. ASSUME ~gap' PROVE Marked'
  BY <1>4 DEF NixosInv, Marked, AbortStacks, EndRun, diskVars
<1>5. ASSUME ~gap' PROVE Changed' /\ StacksOnAppliedSystem'
  BY <1>5 DEF Changed, StacksOnAppliedSystem, AbortStacks, EndRun
<1>. QED BY <1>1, <1>2, <1>3, <1>4, <1>5 DEF NixosInv

\* The unit switches the host to what the record says.
LEMMA UnitSwitchKeeps ==
  ASSUME NixosInv, UnitSwitch
  PROVE  NixosInv'
<1>1. Types'
  <2>1. applied' \in Recorded
    BY AtHead DEF NixosInv, Types, UnitSwitch, Unit
  <2>2. unit' \in Unit
    BY DEF NixosInv, Types, UnitSwitch, Unit
  <2>. QED BY <2>1, <2>2 DEF NixosInv, Types, UnitSwitch, diskVars, runVars
<1>2. Cached' /\ Detected'
  BY DEF NixosInv, Cached, Detected, UnitSwitch, runVars
<1>3. ASSUME ~gap' PROVE Recording'
  <2>1. /\ phase = "wait" \/ (phase = "failed" /\ stopping /\ stopping')
        /\ applied' = log[head] /\ unit'.state = "running" /\ unit'.switched
        /\ UNCHANGED <<log, head, phase, rec, current, diskRec, prev>>
    BY <1>3 DEF NixosInv, Types, Recording, Unswitched, UnitSwitch, Unit, diskVars, runVars
  <2>. QED BY <1>3, <2>1 DEF NixosInv, Recording, Unswitched, Rebuilding, UnitSwitch
<1>4. ASSUME ~gap' PROVE Marked'
  BY <1>4 DEF NixosInv, Marked, UnitSwitch, diskVars, runVars
<1>5. ASSUME ~gap' PROVE Changed' /\ StacksOnAppliedSystem'
  BY <1>5
     DEF NixosInv, Recording, Unswitched, Changed, StacksOnAppliedSystem, UnitSwitch,
         runVars
<1>. QED BY <1>1, <1>2, <1>3, <1>4, <1>5 DEF NixosInv

\* It is gone.
LEMMA UnitDoneKeeps ==
  ASSUME NixosInv, UnitDone
  PROVE  NixosInv'
<1>1. Types'
  BY Apart DEF NixosInv, Types, UnitDone, diskVars, runVars
<1>2. Cached' /\ Detected'
  BY DEF NixosInv, Cached, Detected, UnitDone, runVars
<1>3. ASSUME ~gap' PROVE Recording'
  BY <1>3
     DEF NixosInv, Recording, True, Runs, Unswitched, UnitDone, NoUnit, diskVars, runVars
<1>4. ASSUME ~gap' PROVE Marked'
  BY <1>4 DEF NixosInv, Marked, UnitDone, diskVars, runVars
<1>5. ASSUME ~gap' PROVE Changed' /\ StacksOnAppliedSystem'
  BY <1>5 DEF NixosInv, Changed, StacksOnAppliedSystem, UnitDone, runVars
<1>. QED BY <1>1, <1>2, <1>3, <1>4, <1>5 DEF NixosInv

\* It fails before the switch, or leaves a gap.
LEMMA UnitFailsKeeps ==
  ASSUME NixosInv, UnitFails
  PROVE  NixosInv'
<1>1. Types'
  <2>1. unit' \in Unit
    BY DEF NixosInv, Types, UnitFails, Unit
  <2>. QED BY <2>1, Apart DEF NixosInv, Types, UnitFails, diskVars, runVars
<1>2. Cached' /\ Detected'
  BY DEF NixosInv, Cached, Detected, UnitFails, runVars
<1>3. ASSUME ~gap' PROVE Recording'
  BY <1>3 DEF NixosInv, Recording, True, Runs, Unswitched, UnitFails, diskVars, runVars
<1>4. ASSUME ~gap' PROVE Marked'
  BY <1>4 DEF NixosInv, Marked, UnitFails, diskVars, runVars
<1>5. ASSUME ~gap' PROVE Changed' /\ StacksOnAppliedSystem'
  BY <1>5 DEF NixosInv, Changed, StacksOnAppliedSystem, UnitFails, runVars
<1>. QED BY <1>1, <1>2, <1>3, <1>4, <1>5 DEF NixosInv

\* A run starts from what is on disk.
LEMMA StartRunKeeps ==
  ASSUME NixosInv, StartRun
  PROVE  NixosInv'
<1>1. Types'
  BY DEF NixosInv, Types, StartRun, Phases, diskVars
<1>2. Cached' /\ Detected'
  BY DEF NixosInv, Cached, Detected, Rebuilding, StartRun
<1>3. ASSUME ~gap' PROVE Recording'
  BY <1>3 DEF NixosInv, Recording, True, Runs, Unswitched, Rebuilding, StartRun, diskVars
<1>4. ASSUME ~gap' PROVE Marked'
  BY <1>4 DEF NixosInv, Marked, StartRun, diskVars
<1>5. ASSUME ~gap' PROVE Changed' /\ StacksOnAppliedSystem'
  BY <1>5 DEF Changed, StacksOnAppliedSystem, StartRun
<1>. QED BY <1>1, <1>2, <1>3, <1>4, <1>5 DEF NixosInv

\* Pausing changes no record.
LEMMA SetAutosyncKeeps ==
  ASSUME NixosInv, SetAutosync
  PROVE  NixosInv'
<1>1. Types'
  BY DEF NixosInv, Types, SetAutosync, diskVars, runVars
<1>2. Cached' /\ Detected'
  BY DEF NixosInv, Cached, Detected, SetAutosync, runVars
<1>3. ASSUME ~gap' PROVE Recording'
  BY <1>3 DEF NixosInv, Recording, True, Runs, Unswitched, SetAutosync, diskVars, runVars
<1>4. ASSUME ~gap' PROVE Marked'
  BY <1>4 DEF NixosInv, Marked, SetAutosync, diskVars, runVars
<1>5. ASSUME ~gap' PROVE Changed' /\ StacksOnAppliedSystem'
  BY <1>5 DEF NixosInv, Changed, StacksOnAppliedSystem, SetAutosync, runVars
<1>. QED BY <1>1, <1>2, <1>3, <1>4, <1>5 DEF NixosInv

\* Nor does a stop, at first.
LEMMA OperatorStopKeeps ==
  ASSUME NixosInv, OperatorStop
  PROVE  NixosInv'
<1>1. Types'
  BY DEF NixosInv, Types, OperatorStop, diskVars, runVars
<1>2. Cached' /\ Detected'
  BY DEF NixosInv, Cached, Detected, OperatorStop, runVars
<1>3. ASSUME ~gap' PROVE Recording'
  BY <1>3 DEF NixosInv, Recording, True, Runs, Unswitched, OperatorStop, diskVars, runVars
<1>4. ASSUME ~gap' PROVE Marked'
  BY <1>4 DEF NixosInv, Marked, OperatorStop, diskVars, runVars
<1>5. ASSUME ~gap' PROVE Changed' /\ StacksOnAppliedSystem'
  BY <1>5 DEF NixosInv, Changed, StacksOnAppliedSystem, OperatorStop, runVars
<1>. QED BY <1>1, <1>2, <1>3, <1>4, <1>5 DEF NixosInv

\* The next process starts from what is on disk,
LEMMA ExitKeeps ==
  ASSUME NixosInv, Exit
  PROVE  NixosInv'
<1>1. Types'
  BY Apart, NixosAssumption DEF NixosInv, Types, Exit, NewProcess, EndRun, diskVars
<1>2. Cached' /\ Detected'
  BY DEF Cached, Detected, Rebuilding, Exit, NewProcess, EndRun, NoCache
<1>3. ASSUME ~gap' PROVE Recording'
  BY <1>3
     DEF NixosInv, Recording, True, Runs, Unswitched, Rebuilding, Exit, NewProcess, EndRun,
         diskVars
<1>4. ASSUME ~gap' PROVE Marked'
  BY <1>4 DEF NixosInv, Marked, Exit, NewProcess, EndRun, diskVars
<1>5. ASSUME ~gap' PROVE Changed' /\ StacksOnAppliedSystem'
  BY <1>5 DEF Changed, StacksOnAppliedSystem, Exit, NewProcess, EndRun
<1>. QED BY <1>1, <1>2, <1>3, <1>4, <1>5 DEF NixosInv

\* also when the last one crashed.
LEMMA CrashKeeps ==
  ASSUME NixosInv, Crash
  PROVE  NixosInv'
<1>1. Types'
  BY Apart, NixosAssumption DEF NixosInv, Types, Crash, NewProcess, EndRun, Phases, diskVars
<1>2. Cached' /\ Detected'
  BY DEF Cached, Detected, Rebuilding, Crash, NewProcess, EndRun, NoCache
<1>3. ASSUME ~gap' PROVE Recording'
  BY <1>3, SwitchedRuns
     DEF NixosInv, Recording, True, Runs, Unswitched, Rebuilding, Crash, NewProcess, EndRun,
         NotSwitched, diskVars
<1>4. ASSUME ~gap' PROVE Marked'
  BY <1>4 DEF NixosInv, Marked, Crash, NewProcess, EndRun, diskVars
<1>5. ASSUME ~gap' PROVE Changed' /\ StacksOnAppliedSystem'
  BY <1>5 DEF Changed, StacksOnAppliedSystem, Crash, NewProcess, EndRun
<1>. QED BY <1>1, <1>2, <1>3, <1>4, <1>5 DEF NixosInv

\* A push changes nothing that has been read.
LEMMA PushKeeps ==
  ASSUME NixosInv, NEW src \in Source, Push(src)
  PROVE  NixosInv'
<1>1. /\ log' \in Seq(Source) /\ Len(log') = Len(log) + 1
      /\ \A i \in 1 .. Len(log) : log'[i] = log[i]
  BY Pushed DEF NixosInv, Types, Push
<1>2. /\ Len(log) \in Nat /\ head \in 0 .. Len(log) /\ cache.commit \in 0 .. Len(log)
      /\ head' = head /\ cache' = cache
  BY LenProperties DEF NixosInv, Types, Cached, Push
<1>3. head' \in 0 .. Len(log') /\ cache'.commit \in 0 .. Len(log') /\ Len(log') # 0
  BY <1>1, <1>2
<1>4. /\ head # 0 => log'[head] = log[head]
      /\ cache.commit # 0 => log'[cache.commit] = log[cache.commit]
  BY <1>1, <1>2
<1>5. phase # "idle" \/ unit.state = "running" => head # 0
  BY DEF NixosInv, Types
<1>6. Types'
  BY <1>1, <1>2, <1>3 DEF NixosInv, Types, Push, diskVars, runVars
<1>7. Cached' /\ Detected'
  BY <1>2, <1>3, <1>4, <1>5 DEF NixosInv, Cached, Detected, Rebuilding, Push, runVars
<1>8. gap' = gap /\ (~gap => Recording')
  BY <1>2, <1>4, <1>5
     DEF NixosInv, Recording, True, Runs, Unswitched, Rebuilding, Push, diskVars, runVars
<1>9. ~gap => Marked' /\ Changed' /\ StacksOnAppliedSystem'
  BY <1>2, <1>4, <1>5
     DEF NixosInv, Marked, Changed, StacksOnAppliedSystem, Push, diskVars, runVars
<1>. QED BY <1>6, <1>7, <1>8, <1>9 DEF NixosInv

\* Every step keeps the invariant.
LEMMA NixosStep == NixosInv /\ [Next]_vars => NixosInv'
<1>. SUFFICES ASSUME NixosInv, [Next]_vars PROVE NixosInv'
  OBVIOUS
<1>1. CASE \E src \in Source : Push(src)
  BY <1>1, PushKeeps
<1>2. CASE RunStep
  BY <1>2, AbortNixOSPhaseKeeps, DetectKeeps, ReconcileMarkerKeeps, SkipUnchangedKeeps,
     DeferPausedKeeps, PreSaveKeeps, LaunchOKKeeps, LaunchFailsKeeps, RebuildSucceededKeeps,
     WaitFailsKeeps, KeepForNextStartKeeps, RevertAndReportKeeps, FinishRunKeeps, AbortStacksKeeps
     DEF RunStep
<1>3. CASE UnitStep
  BY <1>3, UnitSwitchKeeps, UnitDoneKeeps, UnitFailsKeeps DEF UnitStep
<1>4. CASE SetAutosync \/ StartRun \/ Exit \/ OperatorStop \/ Crash
  BY <1>4, SetAutosyncKeeps, StartRunKeeps, ExitKeeps, OperatorStopKeeps, CrashKeeps
<1>5. CASE UNCHANGED vars
  BY <1>5
     DEF vars, diskVars, runVars, NixosInv, Types, Cached, Detected, Recording, True, Runs,
     Unswitched, Rebuilding, Marked, Changed, StacksOnAppliedSystem
<1>. QED BY <1>1, <1>2, <1>3, <1>4, <1>5 DEF Next

\* In derivation mode stacks deploy only on the system of the same commit, or with its
\* rebuild queued by a pause, unless a rebuild was cut off (runNixOSPhase).
THEOREM StacksAreOnAppliedSystem == Spec => []StacksOnAppliedSystem
<1>1. NixosInv => StacksOnAppliedSystem
  BY DEF NixosInv, StacksOnAppliedSystem
<1>. QED BY <1>1, NixosInit, NixosStep, PTL DEF Spec

\* A rebuild is not started for a derivation the host already runs (runNixOSPhase).
THEOREM RebuildsAreNeeded == Spec => NoRedundantRebuild
<1>1. ASSUME NixosInv, LaunchOK, mode = "derivation", ~gap, prev.drv # None
      PROVE  applied.drv # log[head].drv
  <2>1. True(prev) /\ prev.drv # current.drv /\ current.drv = log[head].drv
    BY <1>1 DEF NixosInv, LaunchOK, Recording, Changed, Detected, Rebuilding
  <2>. QED BY <1>1, <2>1 DEF True, Runs, Unrecorded
<1>2. NixosInv => [LaunchOK /\ mode = "derivation" /\ ~gap /\ prev.drv # None
                     => applied.drv # log[head].drv]_vars
  BY <1>1
<1>. QED BY <1>2, NixosInit, NixosStep, PTL DEF Spec, NoRedundantRebuild

\* A success is reported, by this process or the next, only of what the host runs
\* (runNixOSPhase and its reconciliation of the marker).
THEOREM SuccessesAreApplied == Spec => SuccessIsApplied
<1>1. ASSUME NixosInv, ReconcileMarker, ~gap PROVE Runs(rec)
  BY <1>1 DEF NixosInv, ReconcileMarker, Recording, Marked, True
<1>2. ASSUME NixosInv, RebuildSucceeded, ~gap PROVE Runs(rec)
  <2>1. phase = "wait" /\ phase \in Rebuilding /\ unit.state # "failed" /\ ~Unswitched
    BY <1>2 DEF RebuildSucceeded, Rebuilding, Unswitched
  <2>2. applied = log[head] /\ rec = current
    BY <1>2, <2>1 DEF NixosInv, Recording
  <2>3. True(current) /\ current # Unrecorded
    BY <1>2, <2>1, <2>2, SwitchedRuns, DetectedIsSome
  <2>. QED BY <2>2, <2>3 DEF True
<1>3. NixosInv => [(ReconcileMarker \/ RebuildSucceeded) /\ ~gap => Runs(rec)]_vars
  BY <1>1, <1>2
<1>. QED BY <1>3, NixosInit, NixosStep, PTL DEF Spec, SuccessIsApplied
=============================================================================
