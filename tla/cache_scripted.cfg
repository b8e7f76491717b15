SPECIFICATION ScriptedSpec
CONSTANTS
    NAgents = 3
    NLines = 3
    L1Sets = 2
    L2Sets = 2
    Words = {w1}
    Data = {d1, d2}
VIEW Live
INVARIANTS SingleWriter Inclusive CopiesLatest NothingLost
