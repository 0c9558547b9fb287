CONSTANTS
    app = app
    p1 = p1
    p2 = p2
    db = db
    Stack = {app, db}
    GlobalSettings <- Global
    StackSettings <- Settings
    Handler = {h1}
    runOrder <- Order
    channelSize = 2
    MaxWaiting = 2
    Budgets <- AllBudgets
    None = None
    peer = {p1, p2}
    MaxChanges <- Changes
    Nothing = Nothing
    logCapacity = 2
    pinnedCap = 2
    subscriberBuffer = 2
    LogBudgets <- LogBounds
SPECIFICATION Spec
INVARIANTS OverrideIsException SwitchesAreRight ReachableIsCurrent LogIsShown
PROPERTIES QueueDrains PanelSettles HostsSettle
CHECK_DEADLOCK FALSE
