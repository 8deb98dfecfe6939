\* Two threads, two calls each.
SPECIFICATION Spec
CONSTANTS
    Threads = {t1, t2}
    MaxCalls = 2
    FaultSets = {
        {}, {"epub_path is null"}, {"not an EPUB"}, {"not licensed"},
        {"unsupported profile", "wrong passphrase"},
        {"unsupported profile with a NUL"},
        {"wrong passphrase", "cannot write"}, {"bad content key"},
        {"cannot create"}, {"cannot write"}, {"cannot finish"}}
INVARIANTS
    TypeOK
    ErrorTellsThisCall
    CodeTellsOutput
CHECK_DEADLOCK FALSE
