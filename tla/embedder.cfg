SPECIFICATION EmbedderSpec
CONSTANTS
    z = z
    o = o
    b1 = b1
    b2 = b2
    NoBuf = NoBuf
    AddrLimit = 8
    MaxLen = 4
    Zero = z
    Byte <- MCByte
    Buf <- MCBuf
    Requests <- MCRequests
    Widths = {1}
    MaxRegions = 3
    MaxBlock = 0
    Images <- MCImages
    Blocks <- MCBlocks
    Peeks <- MCPeeks
    Offsets <- MCOffsets
    LineOffsets <- MCLineOffsets
    Values <- MCValues
    LineValues <- MCLineValues
    Pins <- MCPins
    Boards <- MCBoards
    MaxMeant = 3
    WordLimit = 4
    HostValues = {1, 6}
    Ids = {0, 15, 16, 32, 33}
    Pictures <- MCPictures
    Supervisor = 3
    Rsvd1 = 2
    Sessions = {"load", "port", "line", "debug"}
INVARIANTS EmbedderTypeOK ImageLoaded LoaderKeepsTheRest PinsReadTruly SentOnce DebuggerAgrees
PROPERTIES ImplementsRegisterBytes
CHECK_DEADLOCK FALSE
