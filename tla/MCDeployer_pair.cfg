CONSTANTS
    db = db
    app = app
    Stack = {db, app}
    DependsOn <- PairDependsOn
    Order <- PairOrder
    Version = {v1, v2}
    Env = {NoFile}
    NoFile = NoFile
    None = None
    RollbackEnabled = {db, app}
    RolloutStack = {}
    PausedByConfig = {}
    Faults = {"save", "crash"}
    syncAttempts = 1
    preStartHoldAfter = 1
    preStartBackoffBase = 2
    backoffTolerance = 1
    MaxCommit = 2
    MaxWaiting = 1
SYMMETRY VersionSymmetry
SPECIFICATION Spec
INVARIANTS BaseIsDeployed DependentWaits EveryChangeAccounted
PROPERTY OnlyDeployedOrRecorded
