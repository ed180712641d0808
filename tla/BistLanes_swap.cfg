\* The real number of words; two copies of the index, so eight byte lanes.
SPECIFICATION Spec
CONSTANTS
    NWords = 8192
    Copies = 2
INVARIANTS SwappedLaneSeen
CHECK_DEADLOCK FALSE
