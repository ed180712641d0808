\* Four bits, gates of three edges, a probed clock up to twice as fast as
\* the reference.
SPECIFICATION FairSpec
CONSTANTS
    COUNT_W = 4
    Modulus <- MCModulus
    Code <- MCCode
    encode <- MCEncode
    decode <- MCDecode
    Mixtures <- MCMixtures
    GATE_CYCLES = 3
    RESET_EDGES = 2
    Ratio = 2
    ALIVE = 1
INVARIANTS SampleReal CountHonest
PROPERTIES StoppedClockSeen
