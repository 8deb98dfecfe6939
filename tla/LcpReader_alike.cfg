\* Two files with one base name.
SPECIFICATION Spec
CONSTANTS
    Files = {"shelf/a.epub", "shelf/b.epub"}
    Temps = {"a_lcp.epub", "b_lcp.epub"}
    Books = {"novel", "essay", "free"}
    Passphrases = {"x", "y", "z"}
    NotProtected = "no license"
    PassphraseOf <- MCPassphraseOf
    Names <- OnlyAlike
    Faults = {}
    None = "nil"
INVARIANTS
    OpensDecrypted
