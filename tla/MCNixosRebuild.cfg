CONSTANTS
    NoFile = NoFile
    None = None
    Files = {f1, NoFile}
    Drv = {d1, d2}
    Modes = {"derivation", "files"}
    Faults = {"eval", "head", "save", "launch", "discovery", "late", "stop", "crash"}
    MaxCommit = 2
    MaxStops = 1
SPECIFICATION FairSpec
INVARIANT StacksOnAppliedSystem
PROPERTIES NoRedundantRebuild SuccessIsApplied RebuildConverges
