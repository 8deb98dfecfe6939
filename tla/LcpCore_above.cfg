\* A manifest whose package document is not at or above its resources.
SPECIFICATION Spec
CONSTANTS
    Passphrases = {"a"}
    Profiles = {"basic-profile"}
    Supported = {"basic-profile"}
    PrivateKeys = {"provider", "stranger"}
    Roots = {"root", "elsewhere"}
    Root = "root"
    ItemIds = {"n", "o", "p"}
    Paths = {"p1", "p2"}
    MaxRuns = 2
    ForeignKeys = {9}
    Credentials <- OneProvider
    Names <- MCNames
    Texts <- MCTexts
    Size <- MCSize
    Normal <- MCNormal
    Sources <- OneAbove
INVARIANT
    NothingLeftInClear
CHECK_DEADLOCK FALSE
