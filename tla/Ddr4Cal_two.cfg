\* Two channels, which may fail; nobody but the script raises the level.
SPECIFICATION Spec
CONSTANTS
    Channel = {c0, c1}
    MaxErrors = 1
    Torn = Torn
    JtagEdges = 3
    UpsetSets = {{"error"}}
PROPERTIES PassMeansClean
SYMMETRY Interchangeable
CONSTRAINT ScriptAlone
