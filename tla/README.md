# lcp-rs in TLA+

Models, checks and proofs for lcp-rs, an implementation of Readium LCP: a Rust
library that encrypts and decrypts EPUB publications, a C interface over it, a
command line, and a KOReader plugin in Lua that decrypts on an e-reader.

## The system

| part | source | state it keeps | operations |
|---|---|---|---|
| publication operations | `crates/lcp-core/src/lib.rs`, `epub/mod.rs` | the file being written (a `ZipWriter`), the archive being read, the list of enciphered files | `encrypt_epub`, `encrypt_epub_from_bytes`, `decrypt_epub` |
| EPUB documents | `epub/xml_utils.rs` | none | container, manifest, `encryption.xml` written and parsed |
| license | `license/lcp_license.rs` | none; the document is embedded or handed out | builder, key check, content key, signature |
| keys, cipher, signatures | `crypto/*.rs` | none | key transform, AES-CBC, RSA, certificates |
| C interface | `crates/plugin/src/ffi.rs` | `LAST_ERROR`, one for the process | `lcp_is_encrypted`, `lcp_decrypt_epub`, `lcp_get_error` |
| KOReader plugin | `lcpreader.koplugin/main.lua` | passphrase cache and map from `/tmp` back to the library, both in KOReader's settings; files in `/tmp` | open, prompt, decrypt and show, close, suspend, exit |
| command line | `crates/lcp-cli/src/main.rs` | none | `encrypt`, `decrypt`, download of a publication from its license |
| status document | `license/status.rs` | none | types only |

The parts call each other synchronously: the command line and a server call
lcp-core; the plugin calls the C interface, which calls lcp-core without the
signature check. What one call leaves in the file system is what the next one
reads, and that is where the hard behaviour is:

* a run writes its output entry by entry and may fail, or be killed, anywhere. On
  an error the dropped `ZipWriter` still writes a central directory, so a half
  done output is a readable archive;
* three loops decide apart what is copied, what is enciphered and what
  `encryption.xml` lists, and decryption decides again;
* runs follow each other: a publication may be encrypted twice, decrypted under
  another license, or be one that a failed run left;
* what is read may be made elsewhere: values of odd lengths, wrong keys and the noise
  they give meet unchecked length arithmetic that debug and release builds do apart;
* the C interface has one error slot for all threads; processes of the command
  line share names in the temporary directory;
* the plugin reuses files in `/tmp` by name and changes settings in memory that
  KOReader writes when it sees fit, while suspending, leaving and kills come at
  any time.

What makes each part correct: encrypting and decrypting keep the publication;
only complete protected publications carry a license; what the program
protected it can decrypt; a license opens with its passphrase and with no other,
and the library reads only what was signed; a C caller learns what became of its
own call; a process gets its own publication; the plugin shows all of the book that was
chosen, caches only passphrases that open their file, finds the way back, and leaves
nothing decrypted behind. `PROJECT.json` lists the hazards line by line.

## The modules

| module | what it is |
|---|---|
| `License` | licenses, keys and signatures as symbols: what is enciphered carries its key, a signature carries its body and signer |
| `Epub` | archives as sequences of entries, the lookups, the manifest's rules, `encryption.xml`, layers of enciphering |
| `LcpCore` | the three operations as steps of one process over files |
| `Shelf` | what the operations promise, seen from outside: publications changed by whole operations |
| `LcpShelf` | the refinement mapping from `LcpCore` to `Shelf` |
| `Cipher` | AES-CBC down to the lengths: padding, initialization vector, `usize` arithmetic by build |
| `LicenseBuilder` | a license from the builder's calls, or from elsewhere, to the reader |
| `LcpFfi` | the C interface as several threads call it, and `LAST_ERROR` |
| `LcpCli` | processes of `lcp-cli decrypt --lcpl` that share files |
| `LcpReader` | the plugin, KOReader, `/tmp` and the user |
| `MCLcpCore`, `MCLcpCli`, `MCLcpReader` | the publications, files and credentials TLC is given |
| `LcpCoreProofs` | theorems: what the operators of `Epub` return, types, the license goes in last |
| `LcpBooksProofs` | theorems: encrypting and decrypting keep the book, own books open, licensed means protected |
| `LcpShelfProofs` | theorems: the refinement, and what `LcpCore` inherits by it |
| `ShelfProofs`, `LicenseBuilderProofs`, `LcpFfiProofs`, `LcpCliProofs`, `LcpReaderProofs` | theorems of the module they are named after |

`LcpCore` extends `Epub`, which extends `License`; `LicenseBuilder` extends `Cipher`.
The two views of keys agree where they meet: `License` says that a value comes
apart with its key only, and `LicenseBuilder` shows with lengths that it does
(`RightPassphraseReads`), that nothing else does (`WrongPassphraseStops`), and what
happens to values that `License` has no words for.

### LcpCore

`fs` maps each path to nothing, a torn file (no central directory) or an archive.
`pc` walks through the phases of the running call, which are the loops of the
code in their order:

    encrypt:         clone -> copy -> encrypt -> listing -> embed
    encrypt (bytes): clone -> copy -> encrypt -> listing -> finish
    decrypt:         resources -> decrypt -> copy -> finish

`w` is what the `ZipWriter` has finished, `i` the loop index, `infos` the
`Vec<EncryptedFileInfo>` being built or the parsed `encryption.xml`. Each step
writes at most one entry. Everything checked before `File::create` is in the
guards of the `Begin` actions, so `RefuseToBegin` changes no file; every early
return after it is a disjunct of `Error`; `IoError` is a failing read or write
at any point, with the entry in progress cut short; `FinishFails` is the one failure
that leaves the whole result, when `finish()` fails after the license went in and the drop
writes the directory after all; `Kill` is the process ending
anywhere, which in a release build is also what a panic does
(`panic = "abort"`). `encrypt_epub_from_bytes` works in memory: the model keeps its
result at a path and lets the caller issue a license for it.

Resources are symbolic. A resource is a text under layers, each layer the key
and compression it was enciphered with; a layer comes off only with both. What
wrong keys give is `Noise`, which is accepted if it happens to have the length
listed (`DecryptToNoise`), since the cipher does not authenticate. Lengths are
kept because `create_decrypted_epub` compares them.

### Shelf and LcpShelf

`Shelf` is the contract. A publication is the book as it lies there (`raw`), the book
that a reading system sees with each content key that unlocks all that is listed
(`seen`), and the license in it, if any. `BeginProtect` takes what the input holds when the
operation is called; `FinishProtect` puts down a publication that shows that book
to the key it chose, with a license that grants the key or a license handed out;
`FinishUnprotect` puts down the book that the license's key unlocked; `GiveUp` leaves
whatever it likes as long as it has no license. `LcpShelf` computes `raw`, `seen` and
`licenses` from an archive's entries, through the model's own lookups and
`encryption.xml`, so that `ImplementsShelf` relates what the three loops wrote one by
one to what was promised. A torn file and no file are the same on the shelf. In the
mapping every step but the first and last of a call is a stutter.

### Cipher and LicenseBuilder

`Cipher` keeps of a ciphertext what was enciphered, its length, its key and how many
bytes there are. Deciphering gives the bytes, an error or a panic; with another key
the last byte is any of 256, and `buf.len() - last` underflows: a debug build panics,
a release build wraps modulo `UsizeMax + 1` and `truncate` then does nothing.

In `LicenseBuilder` a caller makes `encryption()` and `sign()` in any order with keys that
fit or not, and `build()`s; or a document comes from elsewhere, with values of any
length. A reader then goes through `decrypt_epub`'s or `lcp_decrypt_epub`'s checks in
their order and deciphers one resource. Nothing ties the archive to the license (an external
one may be of another publication, `lib.rs:265`) nor the resource's bytes to the length
`encryption.xml` lists, so a reader's `resource` is one enciphered with the content key, with
`OtherKey`, or bytes nobody enciphered, down to none. `calls` is the history the properties speak
of; `iv` tells two calls of `encryption()` apart, which the random initialization vector
does in the code. `CanonicalJson` is what is signed and verified: of a license's data
it keeps what two licenses can differ in, among it the spelling of dates, which
parsing loses.

### LcpFfi

One action per point where another thread can come between: `clear_error` at the
start of a call, the early returns with their `set_error` and code (`DecryptChecks`, in the
code's order), `File::create`, the end, and `lcp_get_error`. A request carries what is
wrong with it, which may be several things, and the first in the code's order
counts. A message is one allocation, named by the call that made it; a pointer is
good while `LAST_ERROR` holds that message. The lock cannot be poisoned: nothing
panics while it is held. Three variables are history: `alone`, whether a call overlapped
another; `before`, the message that was kept when it began; `since`, what other threads have
done since it got its pointer.

### LcpCli

Each process goes through download, truncation, writing, opening, and the two loops
of decryption, between which others run. `TempOf` and `OutputOf` are the names: two
license files of one name share both, and the output of `x.lcpl` is the download of
`x.decrypted.lcpl`. The server sends the publication, another one, or a page. What is
read of a file that changed since its directory was read is noise. `alone` records
that no process with a path in common was under way meanwhile. A panic or a kill
leaves the files.

### LcpReader

`library` is what each file holds, `tmp` what is in `/tmp`, `cache` and `map` the
settings in memory and `disk` as last written. Each handler of the plugin is one
action, as KOReader runs handlers one at a time; a decryption is its outcomes
(0, 1, anything else, or never returning). `Faults` says what may go wrong:
`"partial"`, decryptions that leave part of their output, `"kill"`, KOReader
ending without its handlers, `"replace"`, files replaced by others. `temp_of` gives each
file its name in `/tmp`, chosen at the start from `Names`. `happened` and `tainted` are
history: the faults there have been, and those whose mark may still be in `/tmp` or on the
screen. `ShownIsChosen` and `CachedOpens` hold under every fault and name, and say what a
fault or a shared name can do and no more: a part is shown only after a decryption was cut
short since `/tmp` was last emptied, another book only after a replacement since then or
under a shared name, and a kill is no excuse for either.

The two models meet at the outcomes of a decryption: that a key check fails
before the output exists (`IncorrectPassphrase`), and that a failing or killed run
leaves a part (`Part`), is what `LcpCore` does in `BeginDecrypt`, `ReturnError`,
`IoError` and `Kill`, and what `CodeTellsOutput` says of the C interface in between.

## The runs

| run | what it asks | instance |
|---|---|---|
| `core_common` | types, license last, licensed means protected, what was protected opens, and each run is one whole operation of `Shelf` | 2 runs, 2 paths, 2 passphrases, 2 profiles, 3 publications (ordinary, broken, protected elsewhere), credentials that are right, mismatched or not DER |
| `core_odd` | both directions keep the book, licensed means protected, what was protected opens and, under fairness, decrypts | 3 runs (encrypted twice, decrypted) on a plain publication and on ones with an item listed twice or without id, an empty page, a cover and no mimetype, an `encryption.xml` of its own |
| `core_unknown`, `core_above` | two comments of the source, each violated | one publication each |
| `license_any` | the right passphrase reads, a wrong one stops, what is read was signed, where noise and panics come from | 4 keys, 3 calls of the builder or a document from elsewhere with values of 0 to 64 bytes, resources of 0, 15 and 16 bytes with either content key or of 0 to 64 bytes with none, both paths, both builds, every last byte |
| `license_dates`, `license_debug` | a genuine document verifies, a wrong passphrase is reported; both violated | the same |
| `ffi_threads` | whose message a caller gets and how long it lives, the code tells what is at the output path | 2 threads, 2 calls each, 11 kinds of call |
| `ffi_documented` | what the comment of `lcp_get_error` says, violated | the same |
| `cli_shared` | a process that overlaps no other gets its publication | 3 processes over 3 license files with names in common |
| `reader_any` | types, what is shown and cached, way back, nothing left at rest | every fault, base names that differ or are one |
| `reader_alike` | what the plugin's first comment says, violated | no fault, one base name |

**Bounds.** `MaxRuns` bounds the runs: two are enough to use what the first left
(encrypt then decrypt, encrypt twice, decrypt a torn file), three for encrypt,
encrypt, decrypt. Two paths give distinct and equal input and output and a
third file is never in play within one run. Two passphrases are a right and a
wrong one. The publications differ in what the code branches on: exempt and not,
codec and not, listed twice, missing, out of order, already encrypted. `ForeignKeys` is
the key of the publication protected elsewhere. Three builder calls
are enough to replace both values before the signature (encryption, encryption, sign) or
after it (encryption, sign, encryption). The lengths are those around a block, the sizes those around the checks (16
bytes, whole blocks, 64 bytes). `UsizeMax` is 65535: it must only be far above the lengths,
as the assumption says and the proofs use. Two threads with two calls each are
enough for a call to meet an earlier message of its own thread and of the
other; more faults at once add nothing, since the first counts. Three processes are one
left half way, one under way and one that comes after. The plugin
is checked on two files, two protected books with a passphrase each, one book in
clear and one passphrase that opens nothing; its state is finite without a bound.

**Fairness.** `Spec` of `LcpCore` has weak fairness of `Step`, the running call's own
steps: a call is a loop on one thread that goes on unless it is killed. Starting a
run, I/O errors and kills are not fair. `OwnBooksDecrypt` is the one property that
needs it. The plugin is driven by its user and nothing of it is fair.

**Deadlock** is checked for the plugin. Elsewhere it is off: when `MaxRuns` runs, `MaxCalls`
calls or `MaxStarts` processes have ended there is nothing more to do.

**What violations show.** A resource whose element has no `Compression` is
rejected for not being of length 0 (`mod.rs:361` against `xml_utils.rs:293`). An item
whose href climbs with `..` is copied in clear next to its enciphered copy
(`mod.rs:316` against `mod.rs:267`). A license whose provider
wrote a date with `Z` is refused by the library, because the date is written anew with
`+00:00` before the signature is checked (`encoding.rs:9` against `lcp_license.rs:322`);
the plugin's path, which checks no signature, reads it. In a debug build, which `cargo run`
of `README.md:53` makes, a wrong passphrase panics instead of being reported whenever the
noise's last byte is above the length of what was deciphered (`cipher.rs:59` against
`ffi.rs:95` and `lcp_decrypt.h:36`); the plugin's `Makefile` makes a release build. A failed call
whose message has a NUL in it gets NULL from `lcp_get_error` (`ffi.rs:22` against `ffi.rs:232`).
The plugin shows another book when two files have one base name (`main.lua:127` against
`main.lua:4-6`).

**Seen on the way.** Disagreements that the models have and no run of their own shows:

* `ErrorAsDocumented` fails a second way, without a NUL: when calls overlap, a call that
  begins before `lcp_get_error` is called clears the message, and one that is still running
  when it returns frees what the pointer points to, though no "next call" was made
  (`ffi.rs:233`). What does hold then is the rest of `ErrorTellsThisCall`.
* `OpensDecrypted` fails a second way, with base names that differ: after a decryption that was
  cut short the plugin shows the part it finds in `/tmp` (`main.lua:222`), and after a
  replacement the book that was there before. It then caches whatever passphrase was typed
  (`main.lua:245`), which is not the caching of a decryption that `README.md:16` describes.
* A decrypted publication does not start with its mimetype (`mod.rs:382`), which the encrypting
  path calls a requirement (`mod.rs:291`).
* With a good license, a resource in the archive of less than 16 bytes panics at
  `cipher.rs:68` and one of exactly 16 at `cipher.rs:59`, in every build
  (`PanicNeedsMalformed`); a stored resource that was never enciphered, or is another
  publication's, may be shown as noise (`NoiseNeedsMismatch`).
* An unsupported profile returns 2, "not LCP encrypted" (`ffi.rs:183` against `ffi.rs:96`).
* Two processes of the command line that overlap on a name may write a mixture and still end
  well; nothing promises otherwise.

## The theorems

For every value of the constants that satisfies the assumptions named in the
modules:

* `TypeCorrectCore`: `TypeOK` of `LcpCore`. Inductive with `ManifestFound`, that the
  copy and encrypt phases of an encryption have a manifest; the rest are lemmas on
  what the operators of `Epub` return.
* `LicenseGoesInLastAlways`: `LicenseGoesInLast`. The inductive invariant `SealInv` adds
  that what is written so far holds no license, that the listing is the last entry
  when the license goes in, and that a decryption reads an archive that opened. The
  last is needed because a listed `license.lcpl` could otherwise be deciphered into a
  license; an archive whose license does not parse is not opened.
* `EncryptKeepsTheBookAlways`, `DecryptKeepsTheBookAlways`, `OwnBooksOpenAlways`,
  `LicensedIsProtectedAlways`: the properties of the same names, for publications in order
  (below). The inductive invariant has these parts:
  * `OrderInv`: every archive, finished or not, is in order: each name once, no layer of a
    key that has not been drawn yet, names that are their own normal form. Without it a
    lookup by name says nothing about the entry that was just written, and a resource of
    the source might already come off with the new key.
  * `EncryptInv`: while an encryption is under way, each entry of `w` is a clone or was
    enciphered with the run's key from the source's entry of that name (`NothingElse`,
    `ItemsLocked`); what is behind the copying index is there unless the manifest has it
    enciphered (`AllCloned`); the items behind the manifest index are in `infos`
    (`AllItems`); the listing says what `infos` says (`ListingLast`). The three loops of the
    code decide apart, and this is what they agree on.
  * `DecryptInv`: the same for decryption, whose two loops are the listed resources and then
    the rest. `infos` stays the listing of the source throughout.
  * `OwnInv`: in a file or in what is being read, if an entry is enciphered with a key
    drawn by a run, the listing covers it and all that is listed comes off with that key.
    It is needed of `src` as well as of the files, as the input may have been overwritten
    since it was read.
  The first three are conjuncts of `BooksInv`. The two book properties are proved from it
  at the step that ends a run; `OwnInv` rests on the first of them, as decrypting reads
  what an encryption left whole, cut short by a failure, or encrypted again.
* `ImplementsShelfAlways`: `ImplementsShelf`. Init maps to Init; `Begin` actions map to
  `BeginProtect` and `BeginUnprotect`; `EmbedLicense`, `FinishBytes` and `FinishDecrypt`
  map to the two `Finish` actions, by the book theorems' lemmas, and so does `FinishFails`, whose
  result is complete; errors, failures and
  kills map to `GiveUp`, by `SealInv`: nothing written before the last step is licensed.
  Every other step is a stutter.
* `LicensedAlwaysOpens` and `LicensesOpenAlways`: on a shelf where each license grants a key
  that opens its publication, each always does. `Shelf`'s invariant is inductive as it
  stands; the second theorem carries it over the refinement to the files of `LcpCore`, if
  the licenses that are there to start from open theirs (`SourcesOpen`).
* `TypeCorrectLicense`, `RightPassphraseAlwaysReads`, `WrongPassphraseAlwaysStops`,
  `LibAlwaysReadsWhatWasSigned`, `NoiseAlwaysNeedsMismatch`, `PanicAlwaysNeedsMalformed`: for
  resources of any length and origin, malformed values of any size and any number of calls.
  That noise and panics have no other cause than those two properties name is the case
  analysis of what each reading step deciphers (`ResourceShape`, `ResourceResult`), with
  `ReadingKeys` for what is known of the keys at that step. They rest on lemmas on `Cipher` (padding is 1 to 16 and fills a block; with its key a
  ciphertext comes back at its length, by every build; with another it gives
  noise). The inductive invariant adds `ValuesWellFormed`, that what has a key was enciphered
  whole; `SignatureIsLastCall`, that a signature over the current key check is the last
  call's, because `encryption()` draws a new vector each time; and `ReadingKeys`, what a
  reader knows past each check.
* `TypeCorrectFfi`, `ErrorAlwaysTellsThisCall`, `CodeAlwaysTellsOutput`: for any number of
  threads and calls. `AloneHolds` says that while a call is alone the slot is empty until it
  fails and its own message's after; `MessagesPass`, that every message kept is of a call that
  has ended, so that none kept before a call began comes back while it lasts; `OutputFollows` where the output is at each point.
* `TypeCorrectCli`, `AloneAlwaysGetsItsBook`: for any names and number of processes. The
  inductive invariant has `NobodyShares`, that no process with a path in common with one that
  is alone is under way, and `Progress`, what is at the paths at each stage: it must
  say that the truncation of both files removes what earlier processes left.
* `TypeCorrect`, `LeadsBackAlways`, `NothingLeftAtRestAlways`: the plugin under all faults.
  `BackInv` adds that no document is on the screen while KOReader is not running, so that
  the settings read at a start cannot disagree with one.
* `ShownIsAlwaysChosen`: `ShownIsChosen`, for any names and faults, by `TempsHold`: what lies in
  `/tmp` is the whole of what its file holds as far as no fault has left its mark there and the
  name is its own. The excuses are in the property and each is needed: `reader_alike` for the
  names; fail a decryption and try again, or replace a file while it is in `/tmp`.
* `CachedAlwaysOpens`: `CachedOpens`, for any names, until a fault happens. By `CacheInv`: a file
  in `/tmp` means its right passphrase is cached, so that the unchecked path only ever sees
  checked passphrases. A kill that loses the cache and keeps `/tmp` breaks it, until `/tmp`
  is emptied and the passphrase is tried.

**Premises.** The theorems on books and the refinement assume `SourcesOrderly` of the
publications to start from:

* each name is once in an archive: `ZipArchive` keeps its entries in a map by name;
* no layer has the content key of a run to come: content keys are 32 random bytes;
* what a manifest has enciphered and what an `encryption.xml` lists is named as in the
  archive, without `..` steps. The code does not check it, and `core_above` is the run that
  shows what happens without it: the part that is copied in clear is found by one name and
  the part that is enciphered by another;
* no manifest lists the container or a package document among what is to be enciphered, and
  no package document is called `encryption.xml` or `license.lcpl`, which EPUB rules out and
  the code does not check either: enciphered, they could not be read again.

These are premises on the input files only, and nothing is assumed of what the program
writes: that it stays in order is `OrderInv`. `MCLcpCore` has TLC evaluate both premises on
every instance (`OrderlyAssumption`, `OpenAssumption`): all publications the passing runs
use meet them, the malformed ones among them too (`Broken`, `Doubled`, `Cover`,
`Obfuscated`, `Unstated`), and only that of `core_above` does not. Before they were proved,
`OrderInv`, `EncryptInv`, `DecryptInv` and `OwnInv` were checked by TLC as invariants of the
instances of `core_common` and `core_odd`.

Only model-checked: the liveness property `OwnBooksDecrypt`, as liveness and `ENABLED` are
out of the prover's reach; what can go wrong on its way other than a kill is `OwnBooksOpen`,
which is proved. What the loops of the code compute is in the models as steps or as
operators on whole sequences, so that no theorem needs an induction over data.

## Not modelled

XML and JSON text, zip bytes, the insides of AES, RSA and X.509 (symbolic); the order and
escaping of canonical JSON, and fields a parsed license drops; rights, links and the
status document, which no code acts on; base 64 and DER of certificates; directory
listing and history of KOReader, and its reopening of the last document at start;
opening of the plugin's library, which is assumed to be there and able to tell; what an
`encryption.xml` of the source says of obfuscated fonts, which encryption replaces.

## Plan

1. (done) `License`, `Epub`, `LcpCore`, `LcpReader`, their runs and first theorems.
2. (done) `Cipher`, `LicenseBuilder`, `LcpFfi`, `LcpCli`, with their theorems.
3. (done) `Shelf` and the refinement, model-checked.
4. (done) Proofs of `LicensedIsProtected`, `OwnBooksOpen`, the two action properties and
   the refinement.
5. (done) `LcpReader`'s two conditional theorems without premises on the instance; resources
   that are not the license's in `LicenseBuilder`; overlapping calls in `LcpFfi`.
6. Safety behind liveness: that a step is always possible while a run is under way, stated
   without `ENABLED`, so that only fairness is left to TLC.
