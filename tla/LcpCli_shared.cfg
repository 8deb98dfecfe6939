\* Two licenses whose files have one name, in two directories, and a third whose name
\* is that of their output.
SPECIFICATION Spec
CONSTANTS
    Runs = {"here", "there", "above"}
    Books = {"one", "two"}
    Paths = {"x.epub", "x.decrypted.epub", "x.decrypted.decrypted.epub"}
    BookOf <- MCBookOf
    TempOf <- MCTempOf
    OutputOf <- MCOutputOf
    MaxStarts = 3
    None = none
INVARIANTS
    TypeOK
    AloneGetsItsBook
CHECK_DEADLOCK FALSE
