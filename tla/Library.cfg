CONSTANTS
    RSIZE_MAX_STR = 16
    RSIZE_MAX_MEM = 16
    WCHAR_SIZE = 4
    UINT32_SIZE = 16
    STRTOK_DELIM_MAX_LEN = 2
    Scenes <- MCScenes
    UserHandler = UserHandler
    NoHandler = NoHandler
SPECIFICATION Spec
CHECK_DEADLOCK FALSE
INVARIANT TypeOK
INVARIANT TokensAreTheRuns
PROPERTY WritesStayInDest
PROPERTY FailureLeavesNoPartialResult
PROPERTY MovesLikeThroughABuffer
PROPERTY StringIsCopiedOrRefused
PROPERTY FieldIsFilledOrCleared
PROPERTY PaddedStringIsCopiedOrRefused
PROPERTY ComparesByTheFirstDifference
PROPERTY SearchFindsTheFirstPlace
PROPERTY EditsKeepTheText
