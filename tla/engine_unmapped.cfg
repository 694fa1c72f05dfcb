SPECIFICATION Spec
CONSTANTS
    z = z
    o = o
    b1 = b1
    b2 = b2
    NoBuf = NoBuf
    AddrLimit = 10
    MaxLen = 4
    Zero = z
    Byte <- MCByte
    Buf <- MCBuf
    PcLimit = 10
    ILen = 2
    Decode <- StoreCode
    CodeHooks = 0
    IntHooks = 0
    MaxBatch = 1
    CacheSize = 1
    Targets <- EvenTargets
    Pokes <- CodePokes
    Requests <- WholeRequests
    MaxRegions = 2
    HostMay <- Move
    CodeHookMay <- Nothing
    IntHookMay <- Nothing
SYMMETRY Symmetry
PROPERTIES FetchIsBusRead
