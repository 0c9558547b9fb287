CONSTANTS
    db = db
    app = app
    Stack = {db, app}
    DependsOn <- PairDependsOn
    Order <- PairOrder
    Version = {v1}
    Env = {NoFile}
    NoFile = NoFile
    None = None
    RollbackEnabled = {db}
    RolloutStack = {}
    PausedByConfig = {}
    Faults = {}
    syncAttempts = 1
    preStartHoldAfter = 2
    preStartBackoffBase = 1
    backoffTolerance = 0
    MaxCommit = 2
    MaxWaiting = 1
SPECIFICATION FairSpec
PROPERTY Convergence
