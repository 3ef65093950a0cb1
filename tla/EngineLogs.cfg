CONSTANTS
    MaxLines = 4
    PipeCap = 1
    DefaultLimit = 2
    MaxLimit = 3
    DbFails = TRUE
SPECIFICATION FairSpec
INVARIANT TypeOK
INVARIANT SuccessLosesNothing
INVARIANT EmptyPageIsTheEnd
PROPERTY RunReturns
PROPERTY NoLateRow
PROPERTY LatePageComplete
