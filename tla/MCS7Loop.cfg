CONSTANTS
    NReg = 1
    NBit = 2
    PerByte = 2
    Byte <- TwoValues
    Target = 1
    Sent <- TwoWords
SPECIFICATION Spec
INVARIANTS TypeOK QuietStoreArrives LoopAgrees
PROPERTIES NoEcho
