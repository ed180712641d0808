\* Resets before the transfers, refusals and ECC events; ui_clk runs.
SPECIFICATION FairSpec
CONSTANTS
    PcieEdges = 3
INVARIANTS TypeOK ArmedUnderDma EvidenceKept ReadyMeansArmed RefusalPreventsReady
PROPERTIES PassMeansNoEvent RefusalMeansEvent ResetsSequencer Settles
