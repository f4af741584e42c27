CONSTANTS
    BitArea <- Bits
    WordArea <- Words
    Size <- Sizes
    WordMax = 1
    Scheduler = scheduler
    Web = web
    InitTable <- CoilTable
    Tables <- OneTable
    Bindings <- Sensors
    LogicInit <- Zero
    Logic <- MockLogic
    Writable <- All
    WebWritable <- All
    AutoAtStart <- AutoOrManual
    Target <- coil
SPECIFICATION Spec
INVARIANTS CycleHeals
