CONSTANTS
    Names = {a}
    Handles = {h1, h2}
    Slots = {s1, s2}
    NULL = NULL
    InitPageSizes <- MCInitPageSizes
    DEFAULT_PAGE_SIZE <- MCDefaultPageSize
    WordBits <- MCWordBits
    PageWidth <- MCPageWidth
    MaxOffset <- MCMaxOffset
    MaxAmount <- MCMaxAmount
    StrdupMayFail = FALSE

SPECIFICATION SessionSpec
SYMMETRY MCSymmetry

INVARIANT IsOpenAccurate
