CONSTANTS
    web = web
    job = job
    app = app
    Stack = {app}
    Service = {web, job}
    OnDemand = {job}
    Lines <- WebJobLines
    None = None
    minPolls = 2
    maxAttempts = 2
    cooldown = 1
    MaxRuns = 1
    MaxUpsets = 1
SPECIFICATION FairSpec
INVARIANT HealBudget
PROPERTIES ExhaustedAfterHeals HealedIsReal DegradedIsGivenUp
