\* Publications with what the code treats specially (items listed twice or without an id,
\* an empty page, a cover, an encryption.xml of their own) and a plain one, three runs
\* after each other: protected, protected again, decrypted.
SPECIFICATION Spec
CONSTANTS
    Passphrases = {"a"}
    Profiles = {"basic-profile"}
    Supported = {"basic-profile"}
    PrivateKeys = {"provider", "stranger"}
    Roots = {"root", "elsewhere"}
    Root = "root"
    ItemIds = {"n", "o", "p"}
    Paths = {"p1", "p2"}
    MaxRuns = 3
    ForeignKeys = {9}
    Credentials <- OneProvider
    Names <- MCNames
    Texts <- MCTexts
    Size <- MCSize
    Normal <- MCNormal
    Sources <- OddAndPlain
INVARIANTS
    LicensedIsProtected
    OwnBooksOpen
PROPERTIES
    EncryptKeepsTheBook
    DecryptKeepsTheBook
    OwnBooksDecrypt
CHECK_DEADLOCK FALSE
