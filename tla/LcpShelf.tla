------------------------------ MODULE LcpShelf ------------------------------
(***************************************************************************)
(* The runs of LcpCore implement the whole operations of Shelf.            *)
(***************************************************************************)
EXTENDS LcpCore

CONSTANT
    ForeignKeys     \* content keys of publications protected elsewhere

\* Every content key that is in play: the one that opens nothing, one for each run,
\* and those from elsewhere.
KeysInPlay == {GarbageKey} \cup 1..MaxRuns \cup ForeignKeys

\* Which content key a license grants, and to whom.
Grant(license) ==
    LET user == license.body.key_check.under
    IN  [key |-> DecryptContentKey(license, user), user |-> user]

Unlocking(archive) ==
    IF Parses(archive, ENCRYPTION_FILE, "encryption")
    THEN {k \in KeysInPlay : AllUnlock(archive, k)}
    ELSE {}

\* What a reading system sees with each key that unlocks all that is listed.
Seen(archive) == [k \in Unlocking(archive) |-> Opened(archive, k)]

Publication(archive) ==
    [raw |-> Book(archive),
     seen |-> Seen(archive),
     licenses |-> IF IsLicensed(archive) THEN {Grant(LicenseOf(archive))} ELSE {}]

\* What is on the shelf where a file is: a publication, if the file is an archive.
OnShelf(file) == IF file.state = "zip" THEN {Publication(file.entries)} ELSE {}

\* The operation a run is carrying out.
InProgress ==
    IF pc = "idle" THEN [does |-> "nothing"]
    ELSE IF job.cmd = "decrypt"
    THEN [does |-> "unprotect", out |-> job.out,
          books |-> {Opened(src, k) : k \in Unlocking(src) \cap {job.key}}]
    ELSE [does |-> "protect", out |-> job.out, key |-> job.key, user |-> job.user_key,
          book |-> Book(src), embeds |-> job.cmd = "encrypt"]

Abstract == INSTANCE Shelf WITH
    Keys <- KeysInPlay,
    Users <- UserKeys,
    shelf <- [p \in Paths |-> OnShelf(fs[p])],
    issued <- {Grant(l) : l \in issued},
    work <- InProgress

\* What a run of the program does to its files is what one whole operation does:
\* the entry by entry copying, enciphering, listing and licensing, with every
\* failure and kill on the way, is either the operation's result or no publication.
ImplementsShelf == Abstract!Spec

\* What the theorem about licenses asks of the publications to start from: a license
\* that is there already opens its publication.
SourcesOpen ==
    \A a \in Sources : IsLicensed(a) => Grant(LicenseOf(a)).key \in Unlocking(a)
=============================================================================
