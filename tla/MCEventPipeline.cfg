CONSTANTS
    None = None
    app = app
    Stack = {app}
    RunStatus = {"deploying", "rolled_back", "success", "held"}
    PollStatus = {"heal_exhausted"}
    maxHistorySize = 3
    perStackCap = 2
    compactionSlack = 0
    channelSize = 1
    Faults = {"history", "append", "compact", "crash"}
    Budgets <- AllBudgets
SPECIFICATION Spec
INVARIANTS OneEntryPerRun AuditDurable ClientComplete
PROPERTY LinkIsRollback
CHECK_DEADLOCK FALSE
