\* Every text of at most seven symbols.
SPECIFICATION ParseSpec
CONSTANTS
    Alphabets <- MCAlphabets
    MaxLen = 7
INVARIANTS
    OptionHasWholeKey
    RootUuidIsToken
    ReadersAgree
    VarOptionsNameVar
    SubvolPathIsRead
    EscapedFieldIsRead
    UnescapedFieldStays
PROPERTIES
    FixRewritesPathsOnly
