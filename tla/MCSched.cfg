SPECIFICATION FairSpec
CONSTANTS
    NProcs = 3
    MaxProc = 4
    Slice = 2
    BufLen = 8
    MsgLen <- ThreeLengths
    Failures <- MostFailures
    KernelRpl = {0, 3}
INVARIANTS TypeOK UserOwnsCpu RegistersIntact PrintsOwnMessage BoundedWait
INVARIANTS HaltsOnlyByOversight
PROPERTIES SlotsKept EveryMessagePrinted EveryProcessRuns
CHECK_DEADLOCK FALSE
