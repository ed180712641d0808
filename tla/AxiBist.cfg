\* Four words, every fault, a sound board and one with a shared cell, a
\* scrambled DRAM; the clock runs and the controller answers.
SPECIFICATION FairSpec
CONSTANTS
    NWords = 4
    Stride = 1
    SparseStride = 8
    DenseBase = 1
    AddrSpace = 16
    Copies <- MCCopies
    pattern <- MCPattern
    Junk = Junk
    None = None
    CountModulus = 9
    Cell <- TestedCells
    Decodes <- Wirings
    Contents <- JunkOnly
    Faults = {"badresp", "badread", "lostwrite"}
INVARIANTS TypeOK PassSound NoFalseFailure ErrorReport HandshakesWatched
PROPERTIES ImplementsPort TestTerminates
