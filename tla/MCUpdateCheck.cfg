CONSTANTS
    app = app
    db = db
    Stack = {app, db}
    sortedKeys <- Sorted
    FirstTag <- v9
    Tag <- Others
    Pinned = {db}
    Built = {}
    registryAnswers <- Answers
    maxTagsPages = 3
    Budgets <- AllBudgets
    targets = 2
    notifyBufferSize = 1
    None = None
    Error = Error
SPECIFICATION FairSpec
INVARIANTS EveryTargetGetsEach MarkersFollowDeploys NewestSuggested
PROPERTIES AlertedOnce MarkersSettle
