------------------------------ MODULE LcpCore ------------------------------
(***************************************************************************)
(* The operations of lcp-core on publications: encrypt_epub,               *)
(* encrypt_epub_from_bytes and decrypt_epub (crates/lcp-core/src/lib.rs),  *)
(* and the decryption the plugin calls (crates/plugin/src/ffi.rs), down to *)
(* the entries they read and write (crates/lcp-core/src/epub/mod.rs).      *)
(*                                                                         *)
(* One process works at a time.  Each of its steps writes at most one      *)
(* entry, so that it can fail or be killed between any two entries and     *)
(* inside one.                                                             *)
(***************************************************************************)
EXTENDS Epub

CONSTANTS
    Paths,      \* where files can be
    Sources,    \* the archives that may be there before the first run
    MaxRuns     \* bound on the number of runs

VARIABLES
    fs,         \* the files
    pc,         \* where the running operation is; "idle" between runs
    job,        \* its arguments and keys
    src,        \* the archive it opened
    w,          \* the entries its ZipWriter has finished
    i,          \* index of the loop it is in
    infos,      \* encrypted_files, or the parsed encryption.xml
    runs,       \* runs so far, the content key of each run being its number
    issued,     \* licenses that exist outside any archive
    result      \* how the last run ended

ASSUME CoreAssumption ==
    /\ Sources \subseteq Seq(Entries)
    /\ MaxRuns \in Nat

vars == << fs, pc, job, src, w, i, infos, runs, issued, result >>

Nothing == [state |-> "absent", entries |-> << >>]
Torn == [state |-> "torn", entries |-> << >>]
Zip(archive) == [state |-> "zip", entries |-> archive]

Files == {Nothing, Torn} \cup [state: {"zip"}, entries: Seq(Entries)]

\* Only the two encrypting operations issue licenses.
EncryptJobs ==
    [cmd: {"encrypt", "encrypt_bytes"}, in: Paths, out: Paths, key: ContentKeys,
     user_key: UserKeys, creds: AllCredentials]
DecryptJobs == [cmd: {"decrypt"}, in: Paths, out: Paths, key: ContentKeys]
NoJob == [cmd |-> "none"]

\* The phases each kind of run goes through, in order.
EncryptPhases == {"clone", "copy", "encrypt", "listing", "embed", "finish"}
DecryptPhases == {"resources", "decrypt", "copy", "finish"}
Results == {"none", "running", "ok", "refused", "error", "io_error", "killed"}

TypeOK ==
    /\ fs \in [Paths -> Files]
    /\ \/ pc = "idle" /\ job = NoJob
       \/ pc \in EncryptPhases /\ job \in EncryptJobs
       \/ pc \in DecryptPhases /\ job \in DecryptJobs
    /\ pc = "embed" => job.cmd = "encrypt"
    /\ src \in Seq(Entries)
    /\ w \in Seq(Entries)
    /\ i \in Nat \ {0}
    /\ infos \in Seq(EncryptedFileInfo)
    /\ runs \in 0..MaxRuns
    /\ issued \subseteq Licenses
    /\ result \in Results

Init ==
    /\ fs \in [Paths -> {Nothing} \cup {Zip(a) : a \in Sources}]
    /\ pc = "idle"
    /\ job = NoJob
    /\ src = << >>
    /\ w = << >>
    /\ i = 1
    /\ infos = << >>
    /\ runs = 0
    /\ issued = {}
    /\ result = "none"

----------------------------------------------------------------------------
(***************************************************************************)
(* Starting.  What is checked before the output file is created: a call    *)
(* refused here leaves every file as it was.                               *)
(***************************************************************************)
Openable(in) == fs[in].state = "zip" /\ Opens(fs[in].entries)

Begin(phase, newJob) ==
    /\ pc = "idle"
    /\ runs < MaxRuns
    /\ runs' = runs + 1
    /\ pc' = phase
    /\ job' = newJob
    /\ src' = fs[newJob.in].entries
    /\ result' = "running"
    /\ UNCHANGED << w, i, infos, issued >>

\* File::create empties the output before anything is read from the input.
Create(out) == fs' = [fs EXCEPT ![out] = Torn]

BeginEncrypt(in, out, passphrase, profile, creds) ==
    /\ profile \in Supported
    /\ Openable(in)
    /\ Begin("clone",
             [cmd |-> "encrypt", in |-> in, out |-> out, key |-> runs + 1,
              user_key |-> UserEncryptionKey(passphrase, profile), creds |-> creds])
    /\ Create(out)

\* The caller has read the bytes of `in', will keep the result at `out' and
\* issue a license for the content key it chose.
BeginEncryptBytes(in, out, passphrase, profile, creds) ==
    /\ profile \in Supported
    /\ fs[in].state = "zip"
    /\ HasPath(fs[in].entries, CONTAINER_FILE)
    /\ Begin("clone",
             [cmd |-> "encrypt_bytes", in |-> in, out |-> out, key |-> runs + 1,
              user_key |-> UserEncryptionKey(passphrase, profile), creds |-> creds])
    /\ UNCHANGED fs

\* The embedded license, or for decrypt_epub one that came by itself.
Offered(front, in) ==
    (IF IsLicensed(fs[in].entries) THEN {LicenseOf(fs[in].entries)} ELSE {})
        \cup (IF front = "lib" THEN issued ELSE {})

\* Mutant: the passphrase is not checked.
AcceptsUnchecked(front, license, user_key) ==
    /\ license.body.profile \in Supported
    /\ front = "lib" => VerifySignatureAndProvider(license)

\* Only decrypt_epub verifies the signature; lcp_decrypt_epub does not.
Accepts(front, license, user_key) ==
    /\ license.body.profile \in Supported
    /\ KeyCheck(license, user_key)
    /\ front = "lib" => VerifySignatureAndProvider(license)

BeginDecrypt(front, in, out, license, passphrase) ==
    LET user_key == UserEncryptionKey(passphrase, license.body.profile) IN
    /\ Openable(in)
    /\ license \in Offered(front, in)
    /\ Accepts(front, license, user_key)
    /\ Begin("resources",
             [cmd |-> "decrypt", in |-> in, out |-> out,
              key |-> DecryptContentKey(license, user_key)])
    /\ Create(out)

RefuseToBegin ==
    /\ pc = "idle"
    /\ runs < MaxRuns
    /\ \/ Profiles \ Supported # {}
       \/ \E in \in Paths : ~ Openable(in)
       \/ \E in \in Paths, front \in {"lib", "ffi"} :
             \/ Offered(front, in) = {}
             \/ \E l \in Offered(front, in), p \in Passphrases :
                   ~ Accepts(front, l, UserEncryptionKey(p, l.body.profile))
    /\ runs' = runs + 1
    /\ result' = "refused"
    /\ UNCHANGED << fs, pc, job, src, w, i, infos, issued >>

----------------------------------------------------------------------------
(***************************************************************************)
(* Ending.  On an error the ZipWriter is dropped, and dropping it writes   *)
(* the central directory: what had been written by then is a readable      *)
(* archive.  encrypt_epub_from_bytes loses its archive with its memory.    *)
(***************************************************************************)
Leave(file) ==
    fs' = IF job.cmd = "encrypt_bytes" THEN fs ELSE [fs EXCEPT ![job.out] = file]

End(outcome) ==
    /\ pc' = "idle"
    /\ job' = NoJob
    /\ src' = << >>
    /\ w' = << >>
    /\ i' = 1
    /\ infos' = << >>
    /\ runs' = runs
    /\ result' = outcome

\* Writing over the input truncates it under the archive that reads it.
Intact == job.cmd = "encrypt_bytes" \/ job.in # job.out

\* start_file and raw_copy_file reject a name the writer already has.
Startable(name) == ~ HasEntry(w, name)

Write(entry) == w' = Append(w, entry)

\* Mutant: the loops start at 0.
GotoFromZero(phase) ==
    /\ pc' = phase
    /\ i' = 0
    /\ UNCHANGED << fs, job, src, runs, issued, result >>

Goto(phase) ==
    /\ pc' = phase
    /\ i' = 1
    /\ UNCHANGED << fs, job, src, runs, issued, result >>

Stay == UNCHANGED << fs, pc, job, src, runs, issued, result >>

----------------------------------------------------------------------------
(***************************************************************************)
(* clone_reader: the manifest, then the mimetype, then in archive order    *)
(* every entry that is not to be enciphered or made anew.                  *)
(***************************************************************************)
MimetypeOf(archive) ==
    IF HasEntry(archive, MIMETYPE)
    THEN << [name |-> MIMETYPE, data |-> ByName(archive, MIMETYPE)] >>
    ELSE << >>

CloneMimetype ==
    /\ pc = "clone"
    /\ Intact
    /\ HasManifest(src)
    /\ w' = MimetypeOf(src)
    /\ Goto("copy")
    /\ UNCHANGED infos

\* Mutants: cloning keeps a license that is there; decrypting copies what it has
\* decrypted; decrypting skips what cloning skips.
NotCopiedButLicense ==
    IF job.cmd = "decrypt"
    THEN {ENCRYPTION_FILE, LICENSE_FILE} \cup {infos[k].uri : k \in DOMAIN infos}
    ELSE {MIMETYPE, ENCRYPTION_FILE} \cup FilesToEncrypt(src)

NotCopiedButDecrypted ==
    IF job.cmd = "decrypt"
    THEN {ENCRYPTION_FILE, LICENSE_FILE}
    ELSE {MIMETYPE, ENCRYPTION_FILE, LICENSE_FILE} \cup FilesToEncrypt(src)

NotCopiedAlike ==
    {MIMETYPE, ENCRYPTION_FILE, LICENSE_FILE} \cup
        (IF job.cmd = "decrypt" THEN {infos[k].uri : k \in DOMAIN infos}
                                ELSE FilesToEncrypt(src))

NotCopied ==
    IF job.cmd = "decrypt"
    THEN {ENCRYPTION_FILE, LICENSE_FILE} \cup {infos[k].uri : k \in DOMAIN infos}
    ELSE {MIMETYPE, ENCRYPTION_FILE, LICENSE_FILE} \cup FilesToEncrypt(src)

SkipEntry ==
    /\ pc = "copy"
    /\ i <= Len(src)
    /\ Intact
    /\ src[i].name \in NotCopied
    /\ i' = i + 1
    /\ Stay
    /\ UNCHANGED << w, infos >>

CopyEntry ==
    /\ pc = "copy"
    /\ i <= Len(src)
    /\ Intact
    /\ src[i].name \notin NotCopied
    /\ Startable(src[i].name)
    /\ Write(src[i])
    /\ i' = i + 1
    /\ Stay
    /\ UNCHANGED infos

EndCopy ==
    /\ pc = "copy"
    /\ i > Len(src)
    /\ Goto(IF job.cmd = "decrypt" THEN "finish" ELSE "encrypt")
    /\ UNCHANGED << w, infos >>

----------------------------------------------------------------------------
(***************************************************************************)
(* The encryption loop over the manifest, encryption.xml, the license.     *)
(***************************************************************************)
SkipItem ==
    /\ pc = "encrypt"
    /\ i <= Len(Manifest(src))
    /\ ~ NeedsEncryption(Opf(src), Manifest(src)[i])
    /\ i' = i + 1
    /\ Stay
    /\ UNCHANGED << w, infos >>

EncryptItem ==
    /\ pc = "encrypt"
    /\ i <= Len(Manifest(src))
    /\ LET item == Manifest(src)[i]
           data == ByPath(src, item.href)
       IN  /\ NeedsEncryption(Opf(src), item)
           /\ Intact
           /\ HasPath(src, item.href)
           /\ Startable(item.href)
           /\ Write([name |-> item.href,
                     data |-> Encipher(data, job.key, ~ IsCodec(item))])
           /\ infos' = Append(infos, [uri |-> item.href,
                                      is_compressed |-> ~ IsCodec(item),
                                      original_length |-> Length(data)])
    /\ i' = i + 1
    /\ Stay

EndEncrypt ==
    /\ pc = "encrypt"
    /\ i > Len(Manifest(src))
    /\ Goto("listing")
    /\ UNCHANGED << w, infos >>

WriteListing ==
    /\ pc = "listing"
    /\ Startable(ENCRYPTION_FILE)
    /\ Write(Entry(ENCRYPTION_FILE, WriteEncryptionXml(infos)))
    /\ Goto(IF job.cmd = "encrypt" THEN "embed" ELSE "finish")
    /\ UNCHANGED infos

\* The license built for the run, if its credentials load.
NewLicense == Sign(WithEncryption(runs, job.key, job.user_key), job.creds)

\* encrypt_epub loads the credentials only now, embeds the license and ends.
Embed(outcome) ==
    /\ pc = "embed"
    /\ job.creds.loads
    /\ Startable(LICENSE_FILE)
    /\ Leave(Zip(Append(w, Entry(LICENSE_FILE,
                                 [kind |-> "license", license |-> NewLicense]))))
    /\ End(outcome)
    /\ UNCHANGED issued

EmbedLicense == Embed("ok")

FinishBytes ==
    /\ pc = "finish"
    /\ job.cmd = "encrypt_bytes"
    /\ fs' = [fs EXCEPT ![job.out] = Zip(w)]
    /\ issued' = IF job.creds.loads THEN issued \cup {NewLicense} ELSE issued
    /\ End("ok")

----------------------------------------------------------------------------
(***************************************************************************)
(* create_decrypted_epub: the resources encryption.xml lists, then every   *)
(* other entry.                                                            *)
(***************************************************************************)
ReadResources ==
    /\ pc = "resources"
    /\ Parses(src, ENCRYPTION_FILE, "encryption")
    /\ infos' = EncryptedResources(src)
    /\ Goto("decrypt")
    /\ UNCHANGED w

DecryptResource ==
    /\ pc = "decrypt"
    /\ i <= Len(infos)
    /\ LET info == infos[i]
           data == ByPath(src, info.uri)
       IN  /\ Intact
           /\ HasPath(src, info.uri)
           /\ ComesOff(data, job.key, info.is_compressed)
           /\ Length(Decipher(data)) = info.original_length
           /\ Startable(info.uri)
           /\ Write([name |-> info.uri, data |-> Decipher(data)])
    /\ i' = i + 1
    /\ Stay
    /\ UNCHANGED infos

\* Deciphering does not authenticate: bytes that were not enciphered with this
\* key decipher to noise, which may have the length that was asked for.  Noise
\* does not inflate.
DecryptToNoise ==
    /\ pc = "decrypt"
    /\ i <= Len(infos)
    /\ Intact
    /\ HasPath(src, infos[i].uri)
    /\ ~ ComesOff(ByPath(src, infos[i].uri), job.key, FALSE)
    /\ ~ infos[i].is_compressed
    /\ Startable(infos[i].uri)
    /\ Write(Entry(infos[i].uri, Noise))
    /\ i' = i + 1
    /\ Stay
    /\ UNCHANGED infos

EndDecrypt ==
    /\ pc = "decrypt"
    /\ i > Len(infos)
    /\ Goto("copy")
    /\ UNCHANGED << w, infos >>

FinishDecrypt ==
    /\ pc = "finish"
    /\ job.cmd = "decrypt"
    /\ Leave(Zip(w))
    /\ End("ok")
    /\ UNCHANGED issued

----------------------------------------------------------------------------
(***************************************************************************)
(* Failing.  Error is every early return of a running operation that the   *)
(* data alone decides.                                                     *)
(***************************************************************************)
CannotEncipher(item) ==
    /\ NeedsEncryption(Opf(src), item)
    /\ \/ ~ Intact
       \/ ~ HasPath(src, item.href)
       \/ ~ Startable(item.href)

CannotDecipher(info) ==
    \/ ~ Intact
    \/ ~ HasPath(src, info.uri)
    \/ ~ Startable(info.uri)
    \/ LET data == ByPath(src, info.uri) IN
           \/ ~ ComesOff(data, job.key, info.is_compressed)
           \/ Length(Decipher(data)) # info.original_length

Error ==
    \/ pc = "clone" /\ ~ (Intact /\ HasManifest(src))
    \/ /\ pc = "copy" /\ i <= Len(src)
       /\ ~ Intact \/ (src[i].name \notin NotCopied /\ ~ Startable(src[i].name))
    \/ pc = "encrypt" /\ i <= Len(Manifest(src)) /\ CannotEncipher(Manifest(src)[i])
    \/ pc = "listing" /\ ~ Startable(ENCRYPTION_FILE)
    \/ pc = "embed" /\ (~ job.creds.loads \/ ~ Startable(LICENSE_FILE))
    \/ pc = "resources" /\ ~ Parses(src, ENCRYPTION_FILE, "encryption")
    \/ pc = "decrypt" /\ i <= Len(infos) /\ CannotDecipher(infos[i])

ReturnError ==
    /\ Error
    /\ Leave(Zip(w))
    /\ End("error")
    /\ UNCHANGED issued

\* The entry a write in progress belongs to.
Pending ==
    {n \in Names :
        \/ pc = "clone" /\ n = MIMETYPE /\ HasEntry(src, MIMETYPE)
        \/ pc = "copy" /\ i <= Len(src) /\ n = src[i].name /\ n \notin NotCopied
        \/ /\ pc = "encrypt" /\ i <= Len(Manifest(src))
           /\ NeedsEncryption(Opf(src), Manifest(src)[i])
           /\ n = Manifest(src)[i].href
        \/ pc = "listing" /\ n = ENCRYPTION_FILE
        \/ pc = "embed" /\ n = LICENSE_FILE
        \/ pc = "decrypt" /\ i <= Len(infos) /\ n = infos[i].uri}

\* An I/O error: the archive the drop writes ends in an entry cut short, or
\* writing that fails too.
IoError ==
    /\ pc # "idle"
    /\ \E left \in {Torn, Zip(w)} \cup
                   {Zip(Append(w, Entry(n, Noise))) : n \in {p \in Pending : Startable(p)}} :
          Leave(left)
    /\ End("io_error")
    /\ UNCHANGED issued

\* Writing the directory fails after the license went in, the drop writes it again
\* and succeeds: encrypt_epub returns an error and leaves what it should.
FinishFails == Embed("io_error")

\* Killed, by a panic in the plugin's library too: nothing is dropped.
Kill ==
    /\ pc # "idle"
    /\ Leave(Torn)
    /\ End("killed")
    /\ UNCHANGED issued

----------------------------------------------------------------------------
Start ==
    \/ \E in, out \in Paths, p \in Passphrases, f \in Profiles, c \in Credentials :
          \/ BeginEncrypt(in, out, p, f, c)
          \/ BeginEncryptBytes(in, out, p, f, c)
    \/ \E front \in {"lib", "ffi"}, in, out \in Paths, p \in Passphrases :
          \E l \in Offered(front, in) : BeginDecrypt(front, in, out, l, p)
    \/ RefuseToBegin

Step ==
    \/ CloneMimetype \/ SkipEntry \/ CopyEntry \/ EndCopy
    \/ SkipItem \/ EncryptItem \/ EndEncrypt \/ WriteListing
    \/ EmbedLicense \/ FinishBytes
    \/ ReadResources \/ DecryptResource \/ DecryptToNoise \/ EndDecrypt
    \/ FinishDecrypt
    \/ ReturnError

Next == Start \/ Step \/ IoError \/ FinishFails \/ Kill

Spec == Init /\ [][Next]_vars /\ WF_vars(Step)

----------------------------------------------------------------------------
(***************************************************************************)
(* What the archives are for.  A publication is its entries other than     *)
(* encryption.xml and the license.  A reading system that has the content  *)
(* key takes a layer off each resource encryption.xml lists.               *)
(***************************************************************************)
Book(archive) ==
    [n \in EntryNames(archive) \ {ENCRYPTION_FILE, LICENSE_FILE} |->
        ByName(archive, n)]

Listed(archive) ==
    LET elements == ByPath(archive, ENCRYPTION_FILE).content.elements
    IN  {ParseEncryptedData(e) : e \in {elements[k] : k \in DOMAIN elements}}

Opened(archive, key) ==
    [n \in DOMAIN Book(archive) |->
        IF \E info \in Listed(archive) :
               Normal[info.uri] = n /\ ComesOff(ByName(archive, n), key, info.is_compressed)
        THEN Decipher(ByName(archive, n))
        ELSE ByName(archive, n)]

AllUnlock(archive, key) ==
    \A info \in Listed(archive) :
        HasPath(archive, info.uri)
            /\ ComesOff(ByPath(archive, info.uri), key, info.is_compressed)

EncipheredWith(data, key) ==
    data.layers # << >> /\ data.layers[Len(data.layers)].key = key

Ends(cmds) == pc # "idle" /\ job.cmd \in cmds /\ result' = "ok"

\* Encrypting loses nothing and adds nothing: what a run of encrypt_epub or
\* encrypt_epub_from_bytes leaves when it succeeds opens, with the content key,
\* as the publication it read (the copying, the loop over the manifest and the
\* encryption.xml made from it agree).
EncryptKeepsTheBook ==
    [][Ends({"encrypt", "encrypt_bytes"}) =>
          Opened(fs'[job.out].entries, job.key) = Book(src)]_vars

\* Decrypting gives what a reading system with the key sees: when every listed
\* resource is enciphered with the key that decrypt_epub found in the license,
\* the file it leaves is that publication, each resource once.
DecryptKeepsTheBook ==
    [][Ends({"decrypt"}) /\ AllUnlock(src, job.key) =>
          Book(fs'[job.out].entries) = Opened(src, job.key)]_vars

\* An archive that ends in a finished encryption.xml and a license that the
\* passphrase of its own content key passes.
SealedLast(archive) ==
    LET n == Len(archive) IN
    /\ n > 1
    /\ archive[n].name = LICENSE_FILE
    /\ archive[n - 1].name = ENCRYPTION_FILE
    /\ archive[n - 1].data.content.kind = "encryption"
    /\ LET l == archive[n].data.content.license
       IN  KeyCheck(l, l.body.content_key.under)

SourceOrSealed(file) ==
    file.state = "zip" /\ IsLicensed(file.entries) =>
        file.entries \in Sources \/ SealedLast(file.entries)

\* A license is the last thing written: an archive that has one is one that was
\* there before, or ends in a finished encryption.xml and a license that the
\* passphrase of its own content key passes.  So nothing that an interrupted run
\* leaves is ever taken for a protected publication.
LicenseGoesInLast == \A p \in Paths : SourceOrSealed(fs[p])

\* A protected publication: what needs encryption is enciphered with the content
\* key of the license and listed, nothing else is, the passphrase the license
\* checks is the one its content key is under, and the mimetype comes first.
Protected(archive) ==
    LET license == LicenseOf(archive).body
        key == license.content_key.key
        ListedFiles == {info.uri : info \in Listed(archive)}
    IN  /\ HasManifest(archive)
        /\ Parses(archive, ENCRYPTION_FILE, "encryption")
        /\ \A f \in FilesToEncrypt(archive) :
              HasPath(archive, f) /\ EncipheredWith(ByPath(archive, f), key)
        /\ ListedFiles = FilesToEncrypt(archive)
        /\ \A k \in DOMAIN archive :
              EncipheredWith(archive[k].data, key) => archive[k].name \in ListedFiles
        /\ KeyCheck(LicenseOf(archive), license.content_key.under)
        /\ HasEntry(archive, MIMETYPE) => archive[1].name = MIMETYPE

\* Whatever a run leaves behind, finished, failed half way or killed, a file with
\* a license in it is a complete protected publication: the license goes in last.
\* It is by its license that lcp_is_encrypted knows a publication to decrypt.
LicensedIsProtected ==
    \A p \in Paths :
        LET archive == fs[p].entries IN
        fs[p].state = "zip" /\ IsLicensed(archive) =>
            archive \in Sources \/ Protected(archive)

\* A publication this program protected never fails to decrypt with its own
\* content key for what is in it: no listed resource is missing, listed twice, of
\* another length than encryption.xml says, or in the way of a copied entry.
OwnBooksOpen ==
    ~ /\ Error
      /\ job.cmd = "decrypt" /\ Intact
      /\ job.key \in 1..MaxRuns
      /\ Parses(src, ENCRYPTION_FILE, "encryption")
      /\ \E k \in DOMAIN src : EncipheredWith(src[k].data, job.key)

\* So decrypting it gets there, whatever else the publication holds, unless the
\* run is killed or reading or writing fails.
OwnBooksDecrypt ==
    /\ pc = "resources" /\ Intact /\ job.key \in 1..MaxRuns
    /\ Parses(src, ENCRYPTION_FILE, "encryption")
    /\ \E k \in DOMAIN src : EncipheredWith(src[k].data, job.key)
    ~> result \in {"ok", "io_error", "killed"}

----------------------------------------------------------------------------
(***************************************************************************)
(* What the theorems about books ask of the publications to start from.    *)
(***************************************************************************)
\* A ZipArchive has every name once.
Once(archive) ==
    \A j, k \in DOMAIN archive : archive[j].name = archive[k].name => j = k

\* The names package documents are found under.
PackageFiles ==
    {n \in Names : \E a \in Sources : \E k \in DOMAIN a :
                      a[k].name = n /\ a[k].data.content.kind = "opf"}

\* Documents refer to what they list by the name it has in the archive, and no
\* manifest lists the container or a package document as a resource to encipher.
Orderly(entry) ==
    LET content == entry.data.content IN
    /\ content.kind = "opf" =>
          /\ entry.name \in PackageFiles
          /\ \A k \in DOMAIN content.manifest :
                LET item == content.manifest[k] IN
                NeedsEncryption(content, item) =>
                    /\ Normal[item.href] = item.href
                    /\ item.href \notin PackageFiles \cup {CONTAINER_FILE}
    /\ content.kind = "encryption" =>
          \A k \in DOMAIN content.elements :
             Normal[content.elements[k].uri] = content.elements[k].uri

\* No layer of an entry has the content key of a run after the nth: content keys
\* are random, and nobody has one before the run that draws it.
NoKeyAfter(entry, n) ==
    \A j \in DOMAIN entry.data.layers : entry.data.layers[j].key \notin (n + 1)..MaxRuns

Sound(archive, n) ==
    /\ Once(archive)
    /\ \A k \in DOMAIN archive : Orderly(archive[k]) /\ NoKeyAfter(archive[k], n)

SourcesOrderly ==
    /\ \A a \in Sources : Sound(a, 0)
    /\ {ENCRYPTION_FILE, LICENSE_FILE} \cap PackageFiles = {}

----------------------------------------------------------------------------
(***************************************************************************)
(* What comments in the source say of it, and the code does not do.        *)
(***************************************************************************)
\* xml_utils.rs:293 "Default: assume not compressed, unknown length": a resource
\* whose length is unknown is not turned down for its length.
UnknownLengthAccepted ==
    [][/\ pc = "decrypt" /\ i <= Len(infos) /\ Intact
       /\ ByPath(src, ENCRYPTION_FILE).content.elements[i].method = "none"
       /\ HasPath(src, infos[i].uri) /\ Startable(infos[i].uri)
       /\ ComesOff(ByPath(src, infos[i].uri), job.key, FALSE)
       => result' # "error"]_vars

\* mod.rs:267 "Skips files that need encryption (based on manifest analysis)": a
\* protected publication has no resource in clear that its manifest says needs
\* encryption.
NothingLeftInClear ==
    \A p \in Paths :
        LET archive == fs[p].entries IN
        fs[p].state = "zip" /\ IsLicensed(archive) =>
            \A f \in FilesToEncrypt(archive) :
                HasPath(archive, f) /\ ByPath(archive, f).layers # << >>
=============================================================================
