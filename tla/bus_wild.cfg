SPECIFICATION Spec
CONSTANTS
    z = z
    o = o
    b1 = b1
    b2 = b2
    NoBuf = NoBuf
    AddrLimit = 8
    MaxLen = 2
    Zero = z
    Byte <- MCByte
    Buf <- MCBuf
    Requests <- WildRequests
    Widths = {1}
    MaxRegions = 3
    MaxBlock = 3
SYMMETRY Symmetry
INVARIANTS TypeOK RegionsSorted ResolveAgrees BlockTransferExact
