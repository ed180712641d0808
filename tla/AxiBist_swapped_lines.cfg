\* Two address lines swapped.
SPECIFICATION Spec
CONSTANTS
    NWords = 4
    Stride = 1
    SparseStride = 8
    DenseBase = 1
    AddrSpace = 16
    Copies <- MCCopies
    pattern <- MCPattern
    Junk = Junk
    None = None
    CountModulus = 9
    Cell <- Channel
    Decodes <- SwappedBoards
    Contents <- JunkOnly
    Faults = {}
INVARIANTS SwappedLinesFail
