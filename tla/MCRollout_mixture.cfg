CONSTANTS
    web = web
    api = api
    db = db
    Rolled <- WebThenApi
    Rest = {db}
    RollbackEnabled = TRUE
    Faults = {"up", "ps", "stop", "probe", "exit", "shutdown"}
    MaxVersion = 3
    MaxDeploys = 3
    MaxFaults = 2
SPECIFICATION Spec
INVARIANT RolledBackRunsBase
