\* Base names that differ or not, and every fault.
SPECIFICATION Spec
CONSTANTS
    Files = {"shelf/a.epub", "shelf/b.epub"}
    Temps = {"a_lcp.epub", "b_lcp.epub"}
    Books = {"novel", "essay", "free"}
    Passphrases = {"x", "y", "z"}
    NotProtected = "no license"
    PassphraseOf <- MCPassphraseOf
    Names <- ApartOrAlike
    Faults = {"partial", "kill", "replace"}
    None = "nil"
INVARIANTS
    TypeOK
    ShownIsChosen
    CachedOpens
    LeadsBack
    
