SPECIFICATION Spec
CONSTANTS
    NAgents = 2
    NLines = 2
    L1Sets = 1
    L2Sets = 1
    Words = {w1, w2}
    Data = {d1, d2}
VIEW Live
INVARIANT UpgradeMergesLatest
