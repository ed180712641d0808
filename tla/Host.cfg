SPECIFICATION HostSpec
CONSTANTS
    Id <- MCId
    Sr = "sr"
    Ones = "FF"
    Zeros = "00"
    Garbled = "garbled"
    Cages <- MCCages
    Page <- MCPage
    FIFO_DEPTH = 2
    Boards <- MCBoards
    MaxRuns = 2
    Thread = {"t1", "t2"}
    Address = {0, 1, 2, 3, 4}
    Byte = {"a", "b"}
    Test <- MCTest
    Weak = {0, 2, 3}
    MaxTests = 3
    Sizes <- MCSizes
    Depth = 2
    Capacity = 4
    MaxStreams = 2
    Holder = {h1}
    MaxScripts = 4
INVARIANTS TypeOK TransferExact FlashReportTrue CageReportTrue FlashReleased
INVARIANTS RoundTrip PassNeedsInterrupt PassMeansLossless FailMeansFault
PROPERTIES SequenceKept RunEnds ImplementsMemory BringupTrue
CHECK_DEADLOCK FALSE
