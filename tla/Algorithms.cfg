SPECIFICATION Spec
CONSTANTS
    Radix = 10
    IntWidth = 4
    LineCap = 8
    LongWidth = 12
    Items <- MCItems
    SortLists <- MCSortLists
    SmallLists <- MCSmallLists
    Texts <- MCTexts
    Delimiters <- MCDelimiters
    Formats <- MCFormats
    CsvTables <- MCCsvTables
    ByteLists <- MCByteLists
    Messages = {0, 1, 55, 56, 57, 63, 64, 65, 119, 120}
    JsonTexts <- MCJsonTexts
    JsonValues <- MCJsonValues
    Patterns <- MCPatterns
    ReTexts <- MCReTexts
    MatrixArgs <- MCMatrixArgs
    Vectors <- MCVectors
    Quats <- MCQuats
    Ratios <- MCRatios
    Longs <- MCLongs
    Pictures <- MCPictures
    Kernels <- MCKernels
    MaxVals = {1, 100, 255, 1000}
    CellMax = 3
    Columns <- MCColumns
    FileTexts <- MCFileTexts
    Series <- MCSeries
    HostMax = 2
    PathMax = 3
    Urls <- MCUrls
    Answers <- MCAnswers
INVARIANTS
    SortsAreCorrect
    ChoicesAreFair
    CollectionsAgree
    TextIsKept
    EncodingsAreExact
    JsonIsExact
    RegexMatchesLanguage
    AlgebraHolds
    NumbersAreExact
    ImagesAreKept
    ResourcesAreReturned
