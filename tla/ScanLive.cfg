SPECIFICATION FairSpec
CONSTANTS
    None = None
    Docs = {d1}
    Pods = {p1}
    CorruptDocs = {d1}
    IndexMaxAttempts = 2
    BatchSize = 1
    MaxScanInFlight = 1
    MaxIndexInFlight = 1
    MaxFaults = 1
    MaxCrashes = 1
    MaxReplays = 1
PROPERTIES UploadResolved CleanSettled
CHECK_DEADLOCK FALSE
