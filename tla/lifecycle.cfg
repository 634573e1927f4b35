CONSTANTS
    Names = {a}
    Handles = {h1, h2}
    Slots = {s1, s2}
    NULL = NULL
    InitPageSizes <- MCInitPageSizes
    DEFAULT_PAGE_SIZE <- MCDefaultPageSize
    WordBits <- MCWordBits
    PageWidth <- MCPageWidth
    MaxOffset <- MCLifecycleMaxOffset
    MaxAmount <- MCMaxAmount
    StrdupMayFail = FALSE

SPECIFICATION Spec
SYMMETRY MCSymmetry
VIEW MCCodeView

INVARIANT TypeOK
INVARIANT BitmapWellFormed
INVARIANT NoZeroPageSize
