SPECIFICATION ToolSpec
CONSTANTS
    dev <- MCdev
    VCCO_MV <- MCVCCO_MV
    None = None
    SIGNAL_MAP <- MCSIGNAL_MAP
    EMIT_ORDER <- MCEMIT_ORDER
    MIG <- MCMIG
    Count = 3
    Scenes <- MCScenes
    Design <- MCDesign
    Dated = {"golden"}
    File = {"golden", "stream", "build", "finish", "led"}
    Own <- MCOwn
    Names <- MCNames
    Script = {"build", "finish"}
    MaxTime = 6
CHECK_DEADLOCK FALSE
INVARIANT TimingOfThisBuild
