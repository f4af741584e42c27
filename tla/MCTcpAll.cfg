CONSTANTS
    c1 = c1
    c2 = c2
    c3 = c3
    f1 = f1
    f2 = f2
    Conn <- Conns
    Fd <- Fds
    Free = free
    Other = other
    EraseAll = FALSE
SPECIFICATION FairSpec
INVARIANTS TypeOK ServedAreTracked CountIsHandlers ReceivesFromOwn
PROPERTIES OwnHandlerCloses HandlersEnd
