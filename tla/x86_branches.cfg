SPECIFICATION Spec
CONSTANTS
    z = z
    o = o
    t = t
    b1 = b1
    b2 = b2
    NoBuf = NoBuf
    AddrLimit = 8
    MaxLen = 3
    Zero = z
    Byte <- MCByte
    Buf <- MCBuf
    PcLimit = 5
    ILen = 2
    Decode <- MCDecode
    Length <- MCLength
    CodeHooks = 0
    IntHooks = 0
    MaxBatch = 2
    Targets <- MCTargets
    Pokes <- MCPokes
    Requests <- PlainRequests
    MaxRegions = 2
    HostMay <- Patch
    CodeHookMay <- Nothing
    IntHookMay <- Nothing
PROPERTIES BatchEndsAtBranch
CHECK_DEADLOCK FALSE
