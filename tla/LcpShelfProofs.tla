--------------------------- MODULE LcpShelfProofs ---------------------------
(***************************************************************************)
(* The runs of LcpCore implement the whole operations of Shelf, for any    *)
(* paths, publications in order, passphrases and number of runs.  A run    *)
(* begins when its output is created, goes on without a change that shows, *)
(* and ends in the step that leaves the output as it will be.              *)
(***************************************************************************)
EXTENDS LcpShelf, LcpBooksProofs

----------------------------------------------------------------------------
(***************************************************************************)
(* What the files of LcpCore are on the shelf.                             *)
(***************************************************************************)
LEMMA OnShelfZip == \A a : OnShelf(Zip(a)) = {Publication(a)} /\ OnShelf(Torn) = {}
BY DEF OnShelf, Zip, Torn

LEMMA UnlicensedOnShelf ==
    ASSUME NEW a \in Seq(Entries), Unlicensed(a)
    PROVE  Publication(a).licenses = {}
<1>1. ~ IsLicensed(a)
  BY ByPathEntry, FixedNames DEF IsLicensed, Parses, Unlicensed, IsLicense
<1> QED BY <1>1 DEF Publication

\* Writing one file replaces what is at its place.
LEMMA ReplacedOnShelf ==
    ASSUME TypeOK, NEW out \in Paths, NEW file, fs' = [fs EXCEPT ![out] = file]
    PROVE  Abstract!Replaced(out, OnShelf(file))
BY DEF TypeOK, Abstract!Replaced

\* What a run leaves at its output, said of the shelf.
LEMMA LeftOnShelf ==
    ASSUME TypeOK, NEW out \in Paths, NEW file, fs' = [fs EXCEPT ![out] = file]
    PROVE  /\ [p \in Paths |-> OnShelf(fs[p])]'[out] = OnShelf(file)
           /\ Abstract!Replaced(out, [p \in Paths |-> OnShelf(fs[p])]'[out])
<1>1. [p \in Paths |-> OnShelf(fs[p])]'[out] = OnShelf(file)
  BY DEF TypeOK
<1> QED BY <1>1, ReplacedOnShelf

----------------------------------------------------------------------------
(***************************************************************************)
(* The operation in progress.                                              *)
(***************************************************************************)
LEMMA Protecting ==
    ASSUME TypeOK, pc # "idle", job.cmd # "decrypt"
    PROVE  /\ InProgress.does = "protect" /\ InProgress.out = job.out
           /\ InProgress.key = job.key /\ InProgress.user = job.user_key
           /\ InProgress.book = Book(src) /\ InProgress.embeds = (job.cmd = "encrypt")
           /\ InProgress # Abstract!Idle /\ job.out \in Paths
BY DEF InProgress, Abstract!Idle, TypeOK, EncryptJobs, DecryptJobs

LEMMA Unprotecting ==
    ASSUME TypeOK, pc # "idle", job.cmd = "decrypt"
    PROVE  /\ InProgress.does = "unprotect" /\ InProgress.out = job.out
           /\ InProgress.books = {Opened(src, k) : k \in Unlocking(src) \cap {job.key}}
           /\ InProgress # Abstract!Idle /\ job.out \in Paths
BY DEF InProgress, Abstract!Idle, TypeOK, EncryptJobs, DecryptJobs

LEMMA Resting == pc = "idle" => InProgress = Abstract!Idle
BY DEF InProgress, Abstract!Idle

LEMMA EndsResting ==
    ASSUME NEW outcome, End(outcome)
    PROVE  InProgress' = Abstract!Idle
BY DEF End, InProgress, Abstract!Idle

\* Nothing shows of a step that keeps the files, the licenses and the operation.
LEMMA NothingShows ==
    ASSUME UNCHANGED << fs, issued >>, InProgress' = InProgress
    PROVE  UNCHANGED Abstract!vars
BY DEF Abstract!vars

----------------------------------------------------------------------------
(***************************************************************************)
(* How a run begins and ends.                                              *)
(***************************************************************************)
LEMMA BeginsToProtect ==
    ASSUME BooksInv, NEW in \in Paths, NEW out \in Paths, NEW p \in Passphrases,
           NEW f \in Profiles, NEW c \in Credentials,
           BeginEncrypt(in, out, p, f, c) \/ BeginEncryptBytes(in, out, p, f, c)
    PROVE  Abstract!Next
<1> DEFINE pub == Publication(fs[in].entries)
           user == UserEncryptionKey(p, f)
<1>0. TypeOK /\ pc = "idle" /\ runs \in Nat /\ runs < MaxRuns /\ MaxRuns \in Nat
  BY CoreAssumption
  DEF BooksInv, TypeInv, TypeOK, BeginEncrypt, BeginEncryptBytes, Begin
<1>1. PICK cmd \in {"encrypt", "encrypt_bytes"} :
          /\ pc' = "clone" /\ src' = fs[in].entries /\ issued' = issued
          /\ job' = [cmd |-> cmd, in |-> in, out |-> out, key |-> runs + 1,
                     user_key |-> user, creds |-> c]
          /\ fs[in].state = "zip"
          /\ IF cmd = "encrypt" THEN fs' = [fs EXCEPT ![out] = Torn] ELSE fs' = fs
  BY DEF BeginEncrypt, BeginEncryptBytes, Begin, Create, Openable
<1>2. InProgress' = [does |-> "protect", out |-> out, key |-> runs + 1, user |-> user,
                     book |-> Book(fs[in].entries), embeds |-> cmd = "encrypt"]
  BY <1>1 DEF InProgress
<1>3. runs + 1 \in KeysInPlay /\ user \in UserKeys
  BY <1>0 DEF KeysInPlay, UserEncryptionKey, UserKeys
<1>4. InProgress' \in [does: {"protect"}, out: {out}, key: KeysInPlay, user: UserKeys,
                       book: {pub.raw}, embeds: BOOLEAN]
  BY <1>2, <1>3 DEF Publication
<1>5. pub \in [q \in Paths |-> OnShelf(fs[q])][in]
  BY <1>1 DEF OnShelf
<1>6. InProgress'.embeds <=> cmd = "encrypt"
  BY <1>2
<1>7. IF InProgress'.embeds THEN Abstract!Replaced(out, {})
      ELSE UNCHANGED [q \in Paths |-> OnShelf(fs[q])]
  BY <1>0, <1>1, <1>6, ReplacedOnShelf, OnShelfZip
<1>8. Abstract!BeginProtect(in, out)
  BY <1>1, <1>4, <1>5, <1>7 DEF Abstract!BeginProtect
<1> QED BY <1>0, <1>8, Resting DEF Abstract!Next

LEMMA BeginsToUnprotect ==
    ASSUME BooksInv, NEW front \in {"lib", "ffi"}, NEW in \in Paths, NEW out \in Paths,
           NEW p \in Passphrases, NEW l \in Offered(front, in),
           BeginDecrypt(front, in, out, l, p)
    PROVE  Abstract!Next
<1> DEFINE pub == Publication(fs[in].entries)
           user == UserEncryptionKey(p, l.body.profile)
           key == DecryptContentKey(l, user)
<1>0. TypeOK /\ pc = "idle"
  BY DEF BooksInv, TypeInv, BeginDecrypt, Begin
<1>1. /\ pc' = "resources" /\ src' = fs[in].entries /\ issued' = issued
      /\ job' = [cmd |-> "decrypt", in |-> in, out |-> out, key |-> key]
      /\ fs[in].state = "zip" /\ fs' = [fs EXCEPT ![out] = Torn]
      /\ KeyCheck(l, user)
  BY DEF BeginDecrypt, Begin, Create, Openable, Accepts
<1>2. InProgress' = [does |-> "unprotect", out |-> out,
                     books |-> {Opened(fs[in].entries, k) :
                                   k \in Unlocking(fs[in].entries) \cap {key}}]
  BY <1>1 DEF InProgress
<1>3. Grant(l).key = key
  BY <1>1 DEF Grant, KeyCheck
<1>4. Grant(l) \in {Grant(m) : m \in issued} \cup pub.licenses
  BY DEF Offered, Publication
<1>5. /\ DOMAIN pub.seen = Unlocking(fs[in].entries)
      /\ \A k \in DOMAIN pub.seen : pub.seen[k] = Opened(fs[in].entries, k)
  BY DEF Publication, Seen
<1>6. pub \in [q \in Paths |-> OnShelf(fs[q])][in]
  BY <1>1 DEF OnShelf
<1> HIDE DEF pub, key
<1>7. InProgress' = [does |-> "unprotect", out |-> out,
                     books |-> {pub.seen[k] : k \in DOMAIN pub.seen \cap {Grant(l).key}}]
  BY <1>2, <1>3, <1>5
<1>8. Abstract!Replaced(out, {})
  BY <1>0, <1>1, ReplacedOnShelf, OnShelfZip
<1>9. Abstract!BeginUnprotect(in, out)
  BY <1>1, <1>4, <1>6, <1>7, <1>8 DEF Abstract!BeginUnprotect
<1> QED BY <1>0, <1>9, Resting DEF Abstract!Next

\* The key of the run unlocks what it leaves, and shows the book it read.
LEMMA ShowsTheBook ==
    ASSUME BooksInv, Encrypting, pc \in {"embed", "finish"}
    PROVE  /\ job.key \in Unlocking(w)
           /\ Seen(w)[job.key] = Book(src)
<1>1. AllUnlock(w, job.key) /\ Parses(w, ENCRYPTION_FILE, "encryption")
  BY EncryptedListing, EncryptedItem DEF AllUnlock
<1>2. job.key \in KeysInPlay
  BY DEF BooksInv, TypeInv, TypeOK, OrderInv, Encrypting, KeysInPlay
<1>3. job.key \in Unlocking(w)
  BY <1>1, <1>2 DEF Unlocking
<1> QED BY <1>3, EncryptedBook DEF Seen

LEMMA Embeds ==
    ASSUME BooksInv, SealInv, NEW outcome, Embed(outcome)
    PROVE  Abstract!Next
<1> DEFINE there == [p \in Paths |-> OnShelf(fs[p])]'[job.out]
<1>0. /\ TypeOK /\ w \in Seq(Entries) /\ Once(w) /\ pc = "embed" /\ job.cmd = "encrypt"
      /\ Encrypting /\ pc # "idle"
  BY DEF Embed, BooksInv, TypeInv, TypeOK, OrderInv, Sound, Encrypting
<1>1. PICK e \in Entries :
          /\ e.name = LICENSE_FILE /\ e.data.layers = << >>
          /\ e.data.content.kind = "license" /\ e.data.content.license = NewLicense
          /\ ~ HasEntry(w, LICENSE_FILE)
          /\ Leave(Zip(Append(w, e))) /\ End(outcome) /\ issued' = issued
  BY EmbedLicenseStep DEF BooksInv
<1> DEFINE a == Append(w, e)
<1>2. job.out \in Paths
  BY <1>0, Protecting
<1>3. there = {Publication(a)} /\ Abstract!Replaced(job.out, there)
  BY <1>0, <1>1, <1>2, LeftOnShelf, OnShelfZip DEF Leave
<1>4. ByPath(a, LICENSE_FILE) = e.data /\ HasPath(a, LICENSE_FILE)
  BY <1>0, <1>1, ByNameAppend, HasEntryAppend, FixedNames DEF ByPath, HasPath
<1>5. \A p : HasPath(w, p) => HasPath(a, p) /\ ByPath(a, p) = ByPath(w, p)
  BY <1>0, <1>1, AsideParses DEF Aside
<1>6. Parses(a, ENCRYPTION_FILE, "encryption")
  BY <1>0, <1>1, AsideParses, EncryptedListing DEF Aside
<1>7. HasEntry(w, ENCRYPTION_FILE) /\ Opened(a, job.key) = Opened(w, job.key)
  BY <1>0, <1>1, EncryptedListing, LicenseAside
<1> HIDE DEF a, there
<1>8. Publication(a).licenses = {Grant(NewLicense)}
  BY <1>1, <1>4 DEF Publication, IsLicensed, Parses, LicenseOf
<1>9. Grant(NewLicense) = [key |-> job.key, user |-> job.user_key]
  BY DEF Grant, NewLicense, Sign, WithEncryption, DecryptContentKey
<1>10. Listed(a) = Listed(w)
  <2>1. ByPath(a, ENCRYPTION_FILE) = ByPath(w, ENCRYPTION_FILE)
    BY <1>5, <1>7, FixedNames DEF HasPath
  <2> QED BY <2>1 DEF Listed
<1>11. job.key \in KeysInPlay /\ AllUnlock(w, job.key) /\ Parses(w, ENCRYPTION_FILE, "encryption")
  BY <1>0, ShowsTheBook, EncryptedListing DEF Unlocking
<1>12. AllUnlock(a, job.key)
  BY <1>5, <1>10, <1>11 DEF AllUnlock
<1>13. job.key \in Unlocking(a)
  BY <1>6, <1>11, <1>12 DEF Unlocking
<1>14. Publication(a).seen[job.key] = Book(src) /\ job.key \in DOMAIN Publication(a).seen
  BY <1>0, <1>7, <1>13, EncryptedBook DEF Publication, Seen
<1>15. Abstract!FinishProtect
  BY <1>0, <1>1, <1>3, <1>8, <1>9, <1>14, Protecting DEF Abstract!FinishProtect, there
<1> QED BY <1>0, <1>1, <1>15, Protecting, EndsResting DEF Abstract!Next

LEMMA HandsOut ==
    ASSUME BooksInv, SealInv, FinishBytes
    PROVE  Abstract!Next
<1> DEFINE there == [p \in Paths |-> OnShelf(fs[p])]'[job.out]
           grant == [key |-> job.key, user |-> job.user_key]
<1>0. /\ TypeOK /\ w \in Seq(Entries) /\ Unlicensed(w)
      /\ pc = "finish" /\ job.cmd = "encrypt_bytes" /\ Encrypting /\ pc # "idle"
      /\ fs' = [fs EXCEPT ![job.out] = Zip(w)] /\ End("ok")
      /\ issued' = IF job.creds.loads THEN issued \cup {NewLicense} ELSE issued
  BY DEF FinishBytes, BooksInv, TypeInv, TypeOK, SealInv, Encrypting
<1>1. job.out \in Paths
  BY <1>0, Protecting
<1>2. there = {Publication(w)} /\ Abstract!Replaced(job.out, there)
  BY <1>0, <1>1, LeftOnShelf, OnShelfZip
<1> HIDE DEF there
<1>3. Publication(w).licenses = {}
  BY <1>0, UnlicensedOnShelf
<1>4. job.key \in DOMAIN Publication(w).seen /\ Publication(w).seen[job.key] = Book(src)
  BY <1>0, ShowsTheBook DEF Publication, Seen
<1>5. Grant(NewLicense) = grant
  BY DEF Grant, NewLicense, Sign, WithEncryption, DecryptContentKey
<1>6. \/ UNCHANGED {Grant(l) : l \in issued}
      \/ {Grant(l) : l \in issued}' = {Grant(l) : l \in issued} \cup {grant}
  <2>1. CASE job.creds.loads
    BY <1>0, <1>5, <2>1
  <2>2. CASE ~ job.creds.loads
    BY <1>0, <2>2
  <2> QED BY <2>1, <2>2
<1>7. InProgress.embeds = FALSE
  BY <1>0, Protecting
<1>8. Abstract!FinishProtect
  BY <1>0, <1>2, <1>3, <1>4, <1>6, <1>7, Protecting DEF Abstract!FinishProtect, there
<1> QED BY <1>0, <1>8, Protecting, EndsResting DEF Abstract!Next

LEMMA GetsOut ==
    ASSUME BooksInv, SealInv, FinishDecrypt
    PROVE  Abstract!Next
<1> DEFINE there == [p \in Paths |-> OnShelf(fs[p])]'[job.out]
<1>0. /\ TypeOK /\ w \in Seq(Entries) /\ Unlicensed(w)
      /\ pc = "finish" /\ job.cmd = "decrypt" /\ pc # "idle"
      /\ fs' = [fs EXCEPT ![job.out] = Zip(w)] /\ End("ok") /\ issued' = issued
  BY DEF FinishDecrypt, Leave, BooksInv, TypeInv, TypeOK, SealInv
<1>1. job.out \in Paths
  BY <1>0, Unprotecting
<1>2. there = {Publication(w)} /\ Abstract!Replaced(job.out, there)
  BY <1>0, <1>1, LeftOnShelf, OnShelfZip
<1> HIDE DEF there
<1>3. Publication(w).licenses = {}
  BY <1>0, UnlicensedOnShelf
<1>4. ASSUME NEW k \in Unlocking(src) \cap {job.key}
      PROVE  Opened(src, k) = Publication(w).raw
  <2>1. AllUnlock(src, job.key) /\ k = job.key
    BY DEF Unlocking
  <2> QED BY <1>0, <2>1, DecryptedBook DEF Publication
<1>5. InProgress.books \subseteq {Publication(w).raw}
  BY <1>0, <1>4, Unprotecting
<1>6. Abstract!FinishUnprotect
  BY <1>0, <1>2, <1>3, <1>5, Unprotecting DEF Abstract!FinishUnprotect, there
<1> QED BY <1>0, <1>6, Unprotecting, EndsResting DEF Abstract!Next

LEMMA GivesUp ==
    ASSUME TypeOK, pc # "idle", NEW file, Leave(file), NEW outcome, End(outcome),
           issued' = issued, \A pub \in OnShelf(file) : pub.licenses = {}
    PROVE  Abstract!Next
<1> DEFINE there == [p \in Paths |-> OnShelf(fs[p])]'[job.out]
<1>1. InProgress.out = job.out /\ InProgress # Abstract!Idle /\ job.out \in Paths
  BY Protecting, Unprotecting
<1>2. InProgress' = Abstract!Idle
  BY EndsResting
<1>3. CASE job.cmd = "encrypt_bytes"
  <2>1. fs' = fs
    BY <1>3 DEF Leave
  <2>2. Abstract!Replaced(job.out, there)
    BY <2>1 DEF Abstract!Replaced
  <2>3. Abstract!GiveUp
    BY <1>1, <2>1, <2>2 DEF Abstract!GiveUp
  <2> QED BY <1>1, <1>2, <2>3 DEF Abstract!Next
<1>4. CASE job.cmd # "encrypt_bytes"
  <2>1. there = OnShelf(file) /\ Abstract!Replaced(job.out, there)
    BY <1>1, <1>4, LeftOnShelf DEF Leave
  <2>2. Abstract!GiveUp
    BY <1>1, <2>1 DEF Abstract!GiveUp
  <2> QED BY <1>1, <1>2, <2>2 DEF Abstract!Next
<1> QED BY <1>3, <1>4

LEMMA LeftUnlicensed ==
    ASSUME BooksInv, SealInv
    PROVE  /\ \A pub \in OnShelf(Torn) \cup OnShelf(Zip(w)) : pub.licenses = {}
           /\ \A n \in Names : \A pub \in OnShelf(Zip(Append(w, Entry(n, Noise)))) :
                 pub.licenses = {}
<1>1. w \in Seq(Entries) /\ Unlicensed(w)
  BY DEF BooksInv, TypeInv, TypeOK, SealInv
<1>2. ASSUME NEW n \in Names
      PROVE  Publication(Append(w, Entry(n, Noise))).licenses = {}
  <2>1. Entry(n, Noise) \in Entries /\ ~ IsLicense(Entry(n, Noise))
    BY EntryType, NoiseType DEF IsLicense, Entry, Noise
  <2>2. Append(w, Entry(n, Noise)) \in Seq(Entries)
    BY <2>1, WriteType DEF BooksInv, TypeInv
  <2> QED BY <1>1, <2>1, <2>2, UnlicensedAppend, UnlicensedOnShelf
<1>3. Publication(w).licenses = {}
  BY <1>1, UnlicensedOnShelf
<1> QED BY <1>2, <1>3, OnShelfZip

----------------------------------------------------------------------------
\* What a run of the program does to its files is what one whole operation does: the
\* entry by entry copying, enciphering, listing and licensing, with every failure and
\* kill on the way, is either the operation's result or no publication.
THEOREM ImplementsShelfAlways == ASSUME SourcesOrderly PROVE Spec => ImplementsShelf
<1>1. Init => Abstract!Init
  BY Resting DEF Init, Abstract!Init
<1>2. BooksInv /\ SealInv /\ [Next]_vars => [Abstract!Next]_(Abstract!vars)
  <2> SUFFICES ASSUME BooksInv, SealInv, [Next]_vars
               PROVE  Abstract!Next \/ UNCHANGED Abstract!vars
    OBVIOUS
  <2>0. TypeOK
    BY DEF BooksInv, TypeInv
  <2>1. ASSUME NEW in \in Paths, NEW out \in Paths, NEW p \in Passphrases,
               NEW f \in Profiles, NEW c \in Credentials,
               BeginEncrypt(in, out, p, f, c) \/ BeginEncryptBytes(in, out, p, f, c)
        PROVE  Abstract!Next
    BY <2>1, BeginsToProtect
  <2>2. ASSUME NEW front \in {"lib", "ffi"}, NEW in \in Paths, NEW out \in Paths,
               NEW p \in Passphrases, NEW l \in Offered(front, in),
               BeginDecrypt(front, in, out, l, p)
        PROVE  Abstract!Next
    BY <2>2, BeginsToUnprotect
  <2>3. CASE RefuseToBegin
    <3>1. UNCHANGED << fs, issued >> /\ InProgress' = InProgress
      BY <2>3 DEF RefuseToBegin, InProgress
    <3> QED BY <3>1, NothingShows
  <2>4. CASE \/ CloneMimetype \/ SkipEntry \/ CopyEntry \/ EndCopy \/ SkipItem
             \/ EncryptItem \/ EndEncrypt \/ WriteListing \/ ReadResources
             \/ DecryptResource \/ DecryptToNoise \/ EndDecrypt
    <3>1. UNCHANGED << fs, job, src, issued >> /\ pc # "idle" /\ pc' # "idle"
      BY <2>4
      DEF CloneMimetype, SkipEntry, CopyEntry, EndCopy, SkipItem, EncryptItem, EndEncrypt,
          WriteListing, ReadResources, DecryptResource, DecryptToNoise, EndDecrypt, Goto, Stay
    <3>2. InProgress' = InProgress
      BY <3>1 DEF InProgress, Unlocking, Opened, Book
    <3> QED BY <3>1, <3>2, NothingShows
  <2>5. CASE EmbedLicense \/ FinishFails
    BY <2>5, Embeds DEF EmbedLicense, FinishFails
  <2>6. CASE FinishBytes
    BY <2>6, HandsOut
  <2>7. CASE FinishDecrypt
    BY <2>7, GetsOut
  <2>8. CASE ReturnError
    <3>1. pc # "idle" /\ Leave(Zip(w)) /\ End("error") /\ issued' = issued
      BY <2>8 DEF ReturnError, Error
    <3> QED BY <2>0, <3>1, LeftUnlicensed, GivesUp
  <2>9. CASE IoError
    <3>1. PICK left \in {Torn, Zip(w)} \cup
                  {Zip(Append(w, Entry(n, Noise))) : n \in {q \in Pending : Startable(q)}} :
              Leave(left)
      BY <2>9 DEF IoError
    <3>2. \A pub \in OnShelf(left) : pub.licenses = {}
      BY <3>1, LeftUnlicensed DEF Pending
    <3>3. pc # "idle" /\ End("io_error") /\ issued' = issued
      BY <2>9 DEF IoError
    <3> QED BY <2>0, <3>1, <3>2, <3>3, GivesUp
  <2>10. CASE Kill
    <3>1. pc # "idle" /\ Leave(Torn) /\ End("killed") /\ issued' = issued
      BY <2>10 DEF Kill
    <3> QED BY <2>0, <3>1, LeftUnlicensed, GivesUp
  <2>11. CASE UNCHANGED vars
    <3>1. UNCHANGED << fs, issued >> /\ InProgress' = InProgress
      BY <2>11 DEF vars, InProgress, Unlocking, Opened, Book
    <3> QED BY <3>1, NothingShows
  <2> QED
    BY <2>1, <2>2, <2>3, <2>4, <2>5, <2>6, <2>7, <2>8, <2>9, <2>10, <2>11
    DEF Next, Start, Step
<1>3. Spec => []BooksInv
  BY SourcesOrderly, BooksInvariant
<1> QED BY <1>1, <1>2, <1>3, SealInvariant, PTL DEF Spec, ImplementsShelf, Abstract!Spec

----------------------------------------------------------------------------
(***************************************************************************)
(* What follows from it: the promise Shelf keeps is one LcpCore keeps.     *)
(***************************************************************************)
Promises == INSTANCE ShelfProofs WITH
    Keys <- KeysInPlay,
    Users <- UserKeys,
    shelf <- [p \in Paths |-> OnShelf(fs[p])],
    issued <- {Grant(l) : l \in issued},
    work <- InProgress

\* A license that is in a file grants, to who holds its passphrase, a content key that
\* unlocks all that the publication lists, whatever runs end, fail or are killed, if
\* the licenses that were there to start from do (lib.rs:52-105, 247-287).
THEOREM LicensesOpenAlways ==
    ASSUME SourcesOrderly, SourcesOpen PROVE Spec => []Abstract!LicensedOpens
<1>1. Init => Abstract!LicensedOpens
  <2> SUFFICES ASSUME Init PROVE Abstract!LicensedOpens
    OBVIOUS
  <2> SUFFICES ASSUME NEW p \in Paths, NEW pub \in OnShelf(fs[p]), NEW l \in pub.licenses
               PROVE  l.key \in DOMAIN pub.seen
    BY DEF Abstract!LicensedOpens
  <2>1. PICK a \in Sources : fs[p] = Zip(a)
    BY DEF Init, OnShelf, Nothing
  <2>2. pub = Publication(a)
    BY <2>1, OnShelfZip
  <2>3. IsLicensed(a) /\ l = Grant(LicenseOf(a))
    BY <2>2 DEF Publication
  <2> QED BY <2>2, <2>3, SourcesOpen DEF SourcesOpen, Publication, Seen
<1>2. Abstract!LicensedOpens /\ [Abstract!Next]_(Abstract!vars) => Abstract!LicensedOpens'
  BY Promises!StepKeeps
  DEF Abstract!LicensedOpens, Abstract!vars, Abstract!Next, Abstract!BeginProtect,
      Abstract!BeginUnprotect, Abstract!FinishProtect, Abstract!FinishUnprotect,
      Abstract!GiveUp, Abstract!Replaced, Abstract!Idle,
      Promises!LicensedOpens, Promises!vars, Promises!Next, Promises!BeginProtect,
      Promises!BeginUnprotect, Promises!FinishProtect, Promises!FinishUnprotect,
      Promises!GiveUp, Promises!Replaced, Promises!Idle
<1>3. Spec => ImplementsShelf
  BY SourcesOrderly, ImplementsShelfAlways
<1> QED BY <1>1, <1>2, <1>3, PTL DEF Spec, ImplementsShelf, Abstract!Spec
=============================================================================
