SPECIFICATION Spec
CONSTANTS
    Threads = {0}
    Depth = 3
    Width = 2
    NSlots = 2
    NBuffer = 2
    NDwords = 1
    NData = 2
    Mix <- Widths
VIEW View
INVARIANT StoresSettleInOrder
CONSTRAINT Settled
