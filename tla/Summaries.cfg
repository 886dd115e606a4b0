SPECIFICATION FairSpec
CONSTANTS
    None = None
    s1 = s1  s2 = s2  s3 = s3  s4 = s4  u1 = u1  u2 = u2  j1 = j1  j2 = j2
    Sessions = {s1, s2, s3, s4}
    Users = {u1, u2}
    Projects = {j1, j2}
    Groups <- Mixed
    Pods = {p1, p2}
    Oversized <- Huge
    Unanswerable <- Stuck
    Archive <- MixedSummaries
    ArchiveTime = 3
    MaxPerCycle = 1
    IdleTime = 0
    LastChat = 5
    MaxClock = 6
    MaxFaults = 1
    MaxCrashes = 1
    MaxSaves = 1
INVARIANTS TypeOK SummaryIsOwn MissedIsLate
PROPERTIES OwnerIsFinal TurnsAreSummarised
CHECK_DEADLOCK FALSE
