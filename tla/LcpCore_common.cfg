\* Ordinary publications, one of them protected elsewhere and one of them broken:
\* what the first run protects the second can decrypt or protect again.
SPECIFICATION Spec
CONSTANTS
    Passphrases = {"a", "b"}
    Profiles = {"basic-profile", "profile-1.0"}
    Supported = {"basic-profile"}
    PrivateKeys = {"provider", "stranger"}
    Roots = {"root", "elsewhere"}
    Root = "root"
    ItemIds = {"n", "o", "p"}
    Paths = {"p1", "p2"}
    MaxRuns = 2
    ForeignKeys = {9}
    Credentials <- MCCredentials
    Names <- MCNames
    Texts <- MCTexts
    Size <- MCSize
    Normal <- MCNormal
    Sources <- CommonSources
INVARIANTS
    TypeOK
    LicenseGoesInLast
    LicensedIsProtected
    OwnBooksOpen
PROPERTIES
    ImplementsShelf
CHECK_DEADLOCK FALSE
