SPECIFICATION FairSpec
CONSTANTS
    None = None
    s1 = s1  s2 = s2  s3 = s3  s4 = s4  u1 = u1  u2 = u2  j1 = j1  j2 = j2
    Sessions = {s1, s2, s3, s4}
    Users = {u1}
    Projects = {j1}
    Groups <- Backlog
    Pods = {p1}
    Oversized = {}
    Unanswerable = {}
    Archive <- OldSummaries
    ArchiveTime = 4
    MaxPerCycle = 1
    IdleTime = 0
    LastChat = 5
    MaxClock = 6
    MaxFaults = 0
    MaxCrashes = 0
    MaxSaves = 0
PROPERTIES ResumedIsResummarised
CHECK_DEADLOCK FALSE
