CONSTANTS
    BitArea <- Bits
    WordArea <- Words
    Size <- Sizes
    WordMax = 1
    Scheduler = scheduler
    Web = web
    InitTable <- TwoSpokes
    Tables <- NoTables
    Bindings <- Coils
    LogicInit <- Zero
    Logic <- MockLogic
    Writable <- Operators
    WebWritable <- Operators
    AutoAtStart <- AutoOrManual
    Target <- coil
SPECIFICATION FairSpec
INVARIANTS CommandHolds CommandReachesLogic
PROPERTIES CyclesGoOn
