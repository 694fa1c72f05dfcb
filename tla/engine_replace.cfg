SPECIFICATION Spec
CONSTANTS
    z = z
    o = o
    b1 = b1
    b2 = b2
    NoBuf = NoBuf
    AddrLimit = 14
    MaxLen = 4
    Zero = z
    Byte <- MCByte
    Buf <- MCBuf
    PcLimit = 10
    ILen = 2
    Decode <- TrapCode
    CodeHooks = 0
    IntHooks = 1
    MaxBatch = 2
    CacheSize = 2
    Targets <- HighTargets
    Pokes <- CodePokes
    Requests <- HighRequests
    MaxRegions = 2
    HostMay <- Move
    CodeHookMay <- Nothing
    IntHookMay <- Replace
SYMMETRY Symmetry
INVARIANTS TypeOK ExecutesWhatWasRead
PROPERTIES OnlyUnmapDangles
