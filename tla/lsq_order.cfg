SPECIFICATION Spec
CONSTANTS
    Threads = {0}
    Depth = 2
    Width = 2
    NSlots = 2
    NBuffer = 2
    NDwords = 2
    NData = 2
    Mix <- Full
VIEW View
INVARIANTS TypeOK SlotsMatchWindow LoadsSeeProgramOrder StoresSettleInOrder
CONSTRAINT Settled
