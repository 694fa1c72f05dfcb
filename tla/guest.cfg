SPECIFICATION Spec
CONSTANTS
    ByteBits = 2
    Regions <- MCRegions
    Image <- MCImage
    MaxInterrupts = 2
    Programs <- MCPrograms
INVARIANTS TypeOK Restartable FaultIsPartial WideArithmetic ConditionsDecide BitwiseAddsUp ShiftsBitByBit StackBalances StringsCopy StringsSearch BitFieldsKeepApart ProductsAreWhole BytesKeepTheirPlace InterruptsLeaveNoTrace DecodesBack AddressesAreSums LoopsCountDown
CHECK_DEADLOCK FALSE
