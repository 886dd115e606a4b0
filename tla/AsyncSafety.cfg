SPECIFICATION Spec
CONSTANTS
    None = None
    Records = {r1,r2}
    Pods = {p1,p2}
    WithTools = {r1}
    ParseTrouble = {}
    RecordTrouble = {r2}
    ToolsTrouble = {}
    Trouble <- TroubleOf
    MaxDeliveries = 1
    BatchSize = 2
    MaxFaults = 1
    MaxCrashes = 1
    MaxReplays = 1
SYMMETRY Symmetry
INVARIANTS TypeOK NoSilentLoss DeadLetterEarned ToolsHaveRow CopiesAreDeliveries
PROPERTIES CustodySpec
CHECK_DEADLOCK FALSE
