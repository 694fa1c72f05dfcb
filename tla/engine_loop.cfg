SPECIFICATION FairSpec
CONSTANTS
    z = z
    o = o
    b1 = b1
    b2 = b2
    NoBuf = NoBuf
    AddrLimit = 10
    MaxLen = 4
    Zero = z
    Byte <- MCByte
    Buf <- MCBuf
    PcLimit = 10
    ILen = 2
    Decode <- StoreCode
    CodeHooks = 2
    IntHooks = 2
    MaxBatch = 3
    CacheSize = 2
    Targets <- AnyTargets
    Pokes <- CodePokes
    Requests <- CodeRequests
    MaxRegions = 2
    HostMay <- PatchGrow
    CodeHookMay <- Watch
    IntHookMay <- Grow
INVARIANTS BatchIsStraightLine
PROPERTIES ImplementsStepLoop ErrorTellsHowFar CallsReturn
