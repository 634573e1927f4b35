CONSTANTS
    PageSize <- MCPageSize
    WordBits <- MCWordBits
    PageWidth <- MCPageWidth
    Offsets <- MCSafeOffsets
    Amounts <- MCAmounts
SPECIFICATION Spec
INVARIANT LoopInBounds
INVARIANT BitmapMatchesCalls
PROPERTY CallReturns
