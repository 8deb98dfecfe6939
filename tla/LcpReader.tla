----------------------------- MODULE LcpReader -----------------------------
(***************************************************************************)
(* The KOReader plugin (lcpreader.koplugin/main.lua): it intercepts the    *)
(* opening of a file, decrypts a protected publication into /tmp, shows    *)
(* what is there, and keeps passphrases and the way back to the original   *)
(* file in KOReader's settings.                                            *)
(*                                                                         *)
(* KOReader runs one handler at a time, so each is one action.  What goes  *)
(* on inside a decryption is LcpCore; here it has its outcomes.            *)
(***************************************************************************)
EXTENDS Naturals

CONSTANTS
    Files,          \* paths of EPUB files in the library
    Temps,          \* paths in /tmp
    Names,          \* which base names the files may have, as getTempPath sees them
    Books,          \* what a file can hold
    Passphrases,
    NotProtected,   \* no passphrase: a book that has no license
    PassphraseOf,   \* the passphrase each book's license was issued under
    Faults,         \* what may go wrong, see below
    None            \* nil

\* "partial": a decryption that fails, or is killed, leaves part of its output.
\* "kill": KOReader ends without its exit handlers.
\* "replace": files of the library are replaced by others.
ASSUME ReaderAssumption ==
    /\ Names \subseteq [Files -> Temps]
    /\ PassphraseOf \in [Books -> Passphrases \cup {NotProtected}]
    /\ NotProtected \notin Passphrases
    /\ None \notin Passphrases \cup Files \cup Temps
    /\ Faults \subseteq {"partial", "kill", "replace"}

VARIABLES
    library,    \* the book each file holds
    temp_of,    \* each file's path in /tmp: its base name and "_lcp.epub"
    tmp,        \* the files in /tmp
    cache,      \* lcp_passphrase_cache, in memory
    map,        \* lcp_decrypted_map, in memory
    disk,       \* both as KOReader last wrote its settings
    power,      \* what KOReader is doing
    screen,     \* what it shows
    shown,      \* the contents the reader has opened
    happened,   \* the faults there have been
    tainted     \* those that left their mark in /tmp since the plugin last emptied it

vars == << library, temp_of, tmp, cache, map, disk, power, screen, shown, happened, tainted >>
history == << happened, tainted >>

NoFile == [of |-> None, whole |-> FALSE]
Decrypted(book) == [of |-> book, whole |-> TRUE]
Part(book) == [of |-> book, whole |-> FALSE]

TempFiles == [of: Books \cup {None}, whole: BOOLEAN]
Caches == [Files -> Passphrases \cup {None}]
Maps == [Temps -> Files \cup {None}]

Browser == [view |-> "files", file |-> None, temp |-> None]
Prompt(f) == [view |-> "prompt", file |-> f, temp |-> None]
Reader(f, t) == [view |-> "reader", file |-> f, temp |-> t]

TypeOK ==
    /\ library \in [Files -> Books]
    /\ temp_of \in [Files -> Temps]
    /\ tmp \in [Temps -> TempFiles]
    /\ cache \in Caches
    /\ map \in Maps
    /\ disk \in [cache: Caches, map: Maps]
    /\ power \in {"on", "asleep", "off", "dead"}
    /\ screen \in [view: {"files", "prompt", "reader"},
                   file: Files \cup {None}, temp: Temps \cup {None}]
    /\ shown \in TempFiles
    /\ happened \subseteq Faults /\ tainted \subseteq happened
    /\ screen.view = "prompt" => screen.file \in Files
    /\ screen.view = "reader" /\ screen.temp # None => screen.file \in Files

Empty == [t \in Temps |-> NoFile]

Init ==
    /\ library \in [Files -> Books]
    /\ temp_of \in Names
    /\ tmp = Empty
    /\ cache = [f \in Files |-> None]
    /\ map = [t \in Temps |-> None]
    /\ disk = [cache |-> cache, map |-> map]
    /\ power = "on"
    /\ screen = Browser
    /\ shown = NoFile
    /\ happened = {}
    /\ tainted = {}

IsLcpEncrypted(f) == PassphraseOf[library[f]] # NotProtected

----------------------------------------------------------------------------
(***************************************************************************)
(* Opening a file from the file browser (openFile).                        *)
(***************************************************************************)
Browsing == power = "on" /\ screen.view = "files"

\* Not protected: KOReader opens the file itself.
OpenOriginal(f) ==
    /\ Browsing
    /\ ~ IsLcpEncrypted(f)
    /\ screen' = Reader(f, None)
    /\ shown' = Decrypted(library[f])
    /\ UNCHANGED << library, temp_of, tmp, cache, map, disk, power, history >>

AskPassphrase(f) ==
    /\ Browsing
    /\ IsLcpEncrypted(f)
    /\ cache[f] = None
    /\ screen' = Prompt(f)
    /\ UNCHANGED << library, temp_of, tmp, cache, map, disk, power, shown, history >>

\* The dialog is cancelled, or confirmed with nothing in it.
CancelPrompt ==
    /\ power = "on" /\ screen.view = "prompt"
    /\ screen' = Browser
    /\ UNCHANGED << library, temp_of, tmp, cache, map, disk, power, shown, history >>

(***************************************************************************)
(* tryDecryptAndOpen(f, p), with the cached passphrase or the one typed.   *)
(***************************************************************************)
Tries(f, p) ==
    /\ power = "on"
    /\ \/ screen.view = "files" /\ IsLcpEncrypted(f) /\ cache[f] = p
       \/ screen.view = "prompt" /\ screen.file = f

\* What has happened, and what of it is to be seen in /tmp.
Happens(faults) ==
    /\ happened' = happened \cup faults
    /\ tainted' = tainted \cup (faults \ {"kill"})

\* An open document stays what it was when /tmp is emptied.
Emptied == tainted' = IF screen.view = "reader" THEN tainted ELSE {}

TempExists(f) == tmp[temp_of[f]] # NoFile

\* Mutant: a mapping that is there is left as it is.
ShowFirst(f, p, contents) ==
    /\ cache' = [cache EXCEPT ![f] = p]
    /\ map' = [map EXCEPT ![temp_of[f]] = IF @ = None THEN f ELSE @]
    /\ screen' = Reader(f, temp_of[f])
    /\ shown' = contents

Show(f, p, contents) ==
    /\ cache' = [cache EXCEPT ![f] = p]
    /\ map' = [map EXCEPT ![temp_of[f]] = f]
    /\ screen' = Reader(f, temp_of[f])
    /\ shown' = contents

\* The file is there: it is shown, and the passphrase cached, without a check.
Reuse(f, p) ==
    /\ Tries(f, p)
    /\ TempExists(f)
    /\ Show(f, p, tmp[temp_of[f]])
    /\ UNCHANGED << library, temp_of, tmp, disk, power, history >>

\* lcp_decrypt_epub returns 0.
DecryptAndShow(f, p) ==
    /\ Tries(f, p)
    /\ ~ TempExists(f)
    /\ IsLcpEncrypted(f)
    /\ p = PassphraseOf[library[f]]
    /\ tmp' = [tmp EXCEPT ![temp_of[f]] = Decrypted(library[f])]
    /\ Show(f, p, Decrypted(library[f]))
    /\ UNCHANGED << library, temp_of, disk, power, history >>

\* Mutants: the prompt that follows is for no file; the passphrase is cached all
\* the same; the output is created before the passphrase is checked.
IncorrectButNoFile(f, p) ==
    /\ Tries(f, p)
    /\ ~ TempExists(f)
    /\ p # PassphraseOf[library[f]]
    /\ cache' = [cache EXCEPT ![f] = None]
    /\ screen' = Prompt(None)
    /\ UNCHANGED << library, temp_of, tmp, map, disk, power, shown, history >>

IncorrectButCached(f, p) ==
    /\ Tries(f, p)
    /\ ~ TempExists(f)
    /\ p # PassphraseOf[library[f]]
    /\ cache' = [cache EXCEPT ![f] = p]
    /\ screen' = Prompt(f)
    /\ UNCHANGED << library, temp_of, tmp, map, disk, power, shown, history >>

IncorrectButCreated(f, p) ==
    /\ Tries(f, p)
    /\ ~ TempExists(f)
    /\ p # PassphraseOf[library[f]]
    /\ tmp' = [tmp EXCEPT ![temp_of[f]] = Part(library[f])]
    /\ cache' = [cache EXCEPT ![f] = None]
    /\ screen' = Prompt(f)
    /\ UNCHANGED << library, temp_of, map, disk, power, shown, history >>

\* It returns 1: the key check comes before the output is created.
IncorrectPassphrase(f, p) ==
    /\ Tries(f, p)
    /\ ~ TempExists(f)
    /\ p # PassphraseOf[library[f]]
    /\ cache' = [cache EXCEPT ![f] = None]
    /\ screen' = Prompt(f)
    /\ UNCHANGED << library, temp_of, tmp, map, disk, power, shown, history >>

\* It returns anything else: the message says so, and the output stays where it
\* is if there is one.
DecryptFails(f, p) ==
    /\ Tries(f, p)
    /\ ~ TempExists(f)
    /\ \/ UNCHANGED << tmp, history >>
       \/ /\ "partial" \in Faults
          /\ p = PassphraseOf[library[f]]
          /\ tmp' = [tmp EXCEPT ![temp_of[f]] = Part(library[f])]
          /\ Happens({"partial"})
    /\ screen' = Browser
    /\ UNCHANGED << library, temp_of, cache, map, disk, power, shown >>

\* It never returns.
KilledDecrypting(f, p) ==
    /\ {"partial", "kill"} \subseteq Faults
    /\ Tries(f, p)
    /\ ~ TempExists(f)
    /\ p = PassphraseOf[library[f]]
    /\ tmp' = [tmp EXCEPT ![temp_of[f]] = Part(library[f])]
    /\ power' = "dead"
    /\ screen' = Browser
    /\ shown' = NoFile
    /\ Happens({"partial", "kill"})
    /\ UNCHANGED << library, temp_of, cache, map, disk >>

----------------------------------------------------------------------------
(***************************************************************************)
(* onCloseDocument: a document that was decrypted leads back to its        *)
(* original, and its mapping goes; the file in /tmp stays.                 *)
(***************************************************************************)
Unmapped ==
    IF screen.view = "reader" /\ screen.temp # None
    THEN [map EXCEPT ![screen.temp] = None]
    ELSE map

Close ==
    /\ power = "on" /\ screen.view = "reader"
    /\ map' = Unmapped
    /\ screen' = Browser
    /\ shown' = NoFile
    /\ UNCHANGED << library, temp_of, tmp, cache, disk, power, history >>

(***************************************************************************)
(* cleanupTempFiles removes whatever in /tmp has a name of getTempPath's,  *)
(* on suspend and on exit.                                                 *)
(***************************************************************************)
\* Mutant: only what is in the map is removed.
CleanupMapped == tmp' = [t \in Temps |-> IF map[t] = None THEN tmp[t] ELSE NoFile]

CleanupTempFiles == tmp' = Empty

Suspend ==
    /\ power = "on"
    /\ power' = "asleep"
    /\ CleanupTempFiles
    /\ Emptied
    /\ UNCHANGED << library, temp_of, cache, map, disk, screen, shown, happened >>

Resume ==
    /\ power = "asleep"
    /\ power' = "on"
    /\ UNCHANGED << library, temp_of, tmp, cache, map, disk, screen, shown, history >>

\* KOReader closes an open document first, and writes its settings.
Exit ==
    /\ power = "on"
    /\ power' = "off"
    /\ CleanupTempFiles
    /\ map' = Unmapped
    /\ disk' = [cache |-> cache, map |-> Unmapped]
    /\ screen' = Browser
    /\ shown' = NoFile
    /\ tainted' = {}
    /\ UNCHANGED << library, temp_of, cache, happened >>

\* init reads the settings.
Start ==
    /\ power \in {"off", "dead"}
    /\ power' = "on"
    /\ cache' = disk.cache
    /\ map' = disk.map
    /\ UNCHANGED << library, temp_of, tmp, disk, screen, shown, history >>

----------------------------------------------------------------------------
(***************************************************************************)
(* Around the plugin.  saveSetting changes settings in memory; KOReader    *)
(* writes them when it sees fit.  When KOReader is killed, or the device   *)
(* with it, /tmp may survive or not.                                       *)
(***************************************************************************)
Flush ==
    /\ power = "on"
    /\ disk' = [cache |-> cache, map |-> map]
    /\ UNCHANGED << library, temp_of, tmp, cache, map, power, screen, shown, history >>

Kill ==
    /\ "kill" \in Faults
    /\ power \in {"on", "asleep"}
    /\ power' = "dead"
    /\ tmp' \in {tmp, Empty}
    /\ screen' = Browser
    /\ shown' = NoFile
    /\ Happens({"kill"})
    /\ UNCHANGED << library, temp_of, cache, map, disk >>

Replace(f, b) ==
    /\ "replace" \in Faults
    /\ Browsing
    /\ library[f] # b
    /\ library' = [library EXCEPT ![f] = b]
    /\ Happens({"replace"})
    /\ UNCHANGED << temp_of, tmp, cache, map, disk, power, screen, shown >>

Next ==
    \/ \E f \in Files : OpenOriginal(f) \/ AskPassphrase(f)
    \/ \E f \in Files, p \in Passphrases :
          \/ Reuse(f, p)
          \/ DecryptAndShow(f, p)
          \/ IncorrectPassphrase(f, p)
          \/ DecryptFails(f, p)
          \/ KilledDecrypting(f, p)
    \/ CancelPrompt \/ Close
    \/ Suspend \/ Resume \/ Exit \/ Start
    \/ Flush \/ Kill
    \/ \E f \in Files, b \in Books : Replace(f, b)

Spec == Init /\ [][Next]_vars

----------------------------------------------------------------------------
\* Another file has the same base name.
Shared(f) == \E g \in Files \ {f} : temp_of[g] = temp_of[f]

\* What a file opened through the plugin shows is whole, unless a decryption was cut
\* short since the plugin last emptied /tmp, and of that file, unless files were
\* replaced since or another has its base name; also when a decryption from before a
\* kill, a suspension or another opening is reused (main.lua:222).
ShownIsChosen ==
    screen.view = "reader" =>
        /\ shown.whole \/ "partial" \in tainted
        /\ \/ shown.of = library[screen.file]
           \/ "replace" \in tainted \/ Shared(screen.file)

\* main.lua:4-6 "decrypts to a temporary file, and opens the decrypted content": what
\* is shown is all of the file that was chosen.
OpensDecrypted ==
    screen.view = "reader" => shown = Decrypted(library[screen.file])

\* Every cached passphrase opens its file (README.md:16: the plugin prompts for the
\* passphrase, decrypts, and then caches it), unless there has been a fault or another
\* file has its base name: then one that was never checked may be there.
CachedOpens ==
    \A f \in Files : cache[f] # None =>
        cache[f] = PassphraseOf[library[f]] \/ happened # {} \/ Shared(f)

\* Closing a decrypted document leads back to the file it was opened from,
\* whatever mapping earlier documents, kills and restarts have left.
LeadsBack ==
    screen.view = "reader" /\ screen.temp # None => map[screen.temp] = screen.file

\* No decrypted publication lies in /tmp, whole or in part, while the device
\* sleeps or after KOReader has exited.
NothingLeftAtRest == power \in {"asleep", "off"} => tmp = Empty
=============================================================================
