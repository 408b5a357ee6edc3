CONSTANTS
    D = D
    T = T
    Client = {D, T}
    Direct = {D}
    Work <- TheWork
    Rank <- TheRank
    Flusher = {f1, f2}
    Closer = Closer
    Reaper = Reaper
    None = None
    MaxFaults = 1
    MaxStops = 1
SPECIFICATION FairSpec
INVARIANTS TypeOK OneFlush OnlyCommittedWork
PROPERTIES RefinesWriteLog AcceptedIsApplied
CHECK_DEADLOCK FALSE
