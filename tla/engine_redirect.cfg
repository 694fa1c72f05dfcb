SPECIFICATION Spec
CONSTANTS
    z = z
    o = o
    b1 = b1
    b2 = b2
    NoBuf = NoBuf
    AddrLimit = 10
    MaxLen = 4
    Zero = z
    Byte <- MCByte
    Buf <- MCBuf
    PcLimit = 10
    ILen = 2
    Decode <- TrapCode
    CodeHooks = 1
    IntHooks = 0
    MaxBatch = 1
    CacheSize = 2
    Targets <- EvenTargets
    Pokes <- CodePokes
    Requests <- CodeRequests
    MaxRegions = 2
    HostMay <- PatchGrow
    CodeHookMay <- Watch
    IntHookMay <- Nothing
SYMMETRY Symmetry
PROPERTIES PcAdvancesFromPc
