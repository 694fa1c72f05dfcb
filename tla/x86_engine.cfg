SPECIFICATION FairSpec
CONSTANTS
    z = z
    o = o
    t = t
    b1 = b1
    b2 = b2
    NoBuf = NoBuf
    AddrLimit = 8
    MaxLen = 3
    Zero = z
    Byte <- MCByte
    Buf <- MCBuf
    PcLimit = 5
    ILen = 2
    Decode <- MCDecode
    Length <- MCLength
    CodeHooks = 1
    IntHooks = 1
    MaxBatch = 2
    Targets <- MCTargets
    Pokes <- MCPokes
    Requests <- MCRequests
    MaxRegions = 2
    HostMay <- Patch
    CodeHookMay <- Watch
    IntHookMay <- Answer
INVARIANTS TypeOK
PROPERTIES FetchesTheBus ReturnTellsHowFar CallsReturn
CHECK_DEADLOCK FALSE
