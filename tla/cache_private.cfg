SPECIFICATION PrivateSpec
CONSTANTS
    NAgents = 2
    NLines = 3
    L1Sets = 2
    L2Sets = 2
    Words = {w1}
    Data = {d1, d2}
VIEW Live
INVARIANTS HomeCopyLatest NothingLost WriteThrough
