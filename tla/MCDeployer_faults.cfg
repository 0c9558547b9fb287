CONSTANTS
    db = db
    app = app
    Stack = {app}
    DependsOn <- PairDependsOn
    Order <- PairOrder
    Version = {v1}
    Env = {e1, NoFile}
    NoFile = NoFile
    None = None
    RollbackEnabled = {app}
    RolloutStack = {app}
    PausedByConfig = {app}
    Faults = {"sync", "abort", "load", "hash", "head", "save", "crash", "shutdown"}
    syncAttempts = 3
    preStartHoldAfter = 3
    preStartBackoffBase = 1
    backoffTolerance = 0
    MaxCommit = 1
    MaxWaiting = 1
SPECIFICATION Spec
INVARIANT AttemptsBounded
