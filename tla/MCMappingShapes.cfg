CONSTANTS
    BitArea <- NoAreas
    WordArea <- WordAreas
    Size <- OneCell
    WordMax = 2
    Scheduler = scheduler
    Web = web
    InitTable <- HubTable
    Tables <- AllShapes
    Passes = 2
SPECIFICATION FairSpec
INVARIANTS TypeOK LoneWriteSurvives
    OutOfSyncNeverTaken QuietConverged LoneWritePropagates
PROPERTIES EventuallyConverged
