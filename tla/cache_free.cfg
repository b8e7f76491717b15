SPECIFICATION FairSpec
CONSTANTS
    NAgents = 2
    NLines = 2
    L1Sets = 1
    L2Sets = 1
    Words = {w1}
    Data = {d1}
VIEW Live
INVARIANTS TypeOK ServesWaitingRequest MissSetInvalid
PROPERTY RequestsAnswered
