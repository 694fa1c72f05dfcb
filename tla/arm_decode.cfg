SPECIFICATION Spec
CONSTANTS
    ByteBits = 2
    Regions <- MCRegions
    Image <- MCImage
    MaxInterrupts = 0
    Programs <- MCDecodePrograms
INVARIANTS DecodesAll
CHECK_DEADLOCK FALSE
