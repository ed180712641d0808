\* One channel, tested a second time.
SPECIFICATION Spec
CONSTANTS
    Channel = {c0}
    MaxErrors = 1
    Torn = Torn
    JtagEdges = 3
    UpsetSets = {{"error"}}
INVARIANTS CaptureSettled
