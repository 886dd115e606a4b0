SPECIFICATION FairSpec
CONSTANTS
    None = None
    Records = {r1,r2}
    Pods = {p1,p2}
    WithTools = {r1}
    ParseTrouble = {r2}
    RecordTrouble = {}
    ToolsTrouble = {r1}
    Trouble <- TroubleOf
    MaxDeliveries = 1
    BatchSize = 2
    MaxFaults = 1
    MaxCrashes = 0
    MaxReplays = 0
PROPERTIES AnsweredIsAccounted
CHECK_DEADLOCK FALSE
