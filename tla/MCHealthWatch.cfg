CONSTANTS
    web = web
    app = app
    Stack = {app}
    Service = {web}
    OnDemand = {}
    Lines <- WebLines
    None = None
    debounce = 2
    alertCooldown = 1
    Faults = {"save", "crash", "corrupt"}
    MaxFaults = 1
SPECIFICATION FairWatchSpec
PROPERTIES DebounceHolds AlertsLimited DownIsTold
