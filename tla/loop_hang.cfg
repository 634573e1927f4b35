CONSTANTS
    PageSize <- MCPageSize
    WordBits <- MCWordBits
    PageWidth <- MCPageWidth
    Offsets <- MCWideOffsets
    Amounts <- MCAmounts
SPECIFICATION Spec
PROPERTY CallReturns
