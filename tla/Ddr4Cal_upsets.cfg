\* One channel: errors with ECC events, or errors in a channel that may be lost.
SPECIFICATION Spec
CONSTANTS
    Channel = {c0}
    MaxErrors = 2
    Torn = Torn
    JtagEdges = 3
    UpsetSets = {{"error", "ecc"}, {"error", "lost"}}
PROPERTIES PassMeansClean FailMeansDisturbed ReportExact EveryPort
