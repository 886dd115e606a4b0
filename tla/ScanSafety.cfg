SPECIFICATION Spec
CONSTANTS
    None = None
    Docs = {d1}
    Pods = {p1, p2}
    CorruptDocs = {}
    IndexMaxAttempts = 1
    BatchSize = 1
    MaxScanInFlight = 1
    MaxIndexInFlight = 1
    MaxFaults = 1
    MaxCrashes = 1
    MaxReplays = 0
SYMMETRY Symmetry
INVARIANTS TypeOK EnvelopeHasRow NoStrandedUpload IndexedHasPass IndexOnlyPromoted
PROPERTIES GateSpec
CHECK_DEADLOCK FALSE
