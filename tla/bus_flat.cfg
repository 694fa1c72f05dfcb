SPECIFICATION TidySpec
CONSTANTS
    z = z
    o = o
    b1 = b1
    b2 = b2
    NoBuf = NoBuf
    AddrLimit = 6
    MaxLen = 4
    Zero = z
    Byte <- MCByte
    Buf <- MCBuf
    Requests <- TidyRequests
    Widths = {2, 4}
    MaxRegions = 2
    MaxBlock = 2
SYMMETRY Symmetry

PROPERTIES ImplementsFlatMemory
