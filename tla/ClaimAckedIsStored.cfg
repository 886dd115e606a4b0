SPECIFICATION Spec
CONSTANTS
    None = None
    Records = {r1}
    Pods = {p1,p2}
    WithTools = {r1}
    ParseTrouble = {}
    RecordTrouble = {}
    ToolsTrouble = {}
    Trouble <- TroubleOf
    MaxDeliveries = 1
    BatchSize = 1
    MaxFaults = 1
    MaxCrashes = 1
    MaxReplays = 0
INVARIANTS AckedIsStored
CHECK_DEADLOCK FALSE
