-------------------------- MODULE LcpReaderProofs --------------------------
(***************************************************************************)
(* Theorems about the plugin, for any library, any base names, any         *)
(* passphrases and any faults.                                             *)
(***************************************************************************)
EXTENDS LcpReader, TLAPS

LEMMA NoFileType == NoFile \in TempFiles
BY DEF NoFile, TempFiles

LEMMA DecryptedType == ASSUME NEW b \in Books
                       PROVE  Decrypted(b) \in TempFiles /\ Part(b) \in TempFiles
BY DEF Decrypted, Part, TempFiles

LEMMA UnmappedType == TypeOK => Unmapped \in Maps
BY DEF TypeOK, Unmapped, Maps

\* Every variable keeps its type, and a prompt or a decrypted document on the
\* screen always belongs to a file.
THEOREM TypeCorrect == Spec => []TypeOK
<1> USE ReaderAssumption DEF history
<1>1. Init => TypeOK
  BY NoFileType DEF Init, TypeOK, Empty, Caches, Maps, Browser
<1>2. TypeOK /\ [Next]_vars => TypeOK'
  <2> SUFFICES ASSUME TypeOK, [Next]_vars PROVE TypeOK'
    OBVIOUS
  <2> USE DEF TypeOK
  <2>1. ASSUME NEW f \in Files, OpenOriginal(f) PROVE TypeOK'
    BY <2>1, DecryptedType DEF OpenOriginal, Reader
  <2>2. ASSUME NEW f \in Files, AskPassphrase(f) PROVE TypeOK'
    BY <2>2 DEF AskPassphrase, Prompt
  <2>3. ASSUME NEW f \in Files, NEW p \in Passphrases, NEW c \in TempFiles,
               Show(f, p, c)
        PROVE  /\ cache' \in Caches /\ map' \in Maps /\ shown' \in TempFiles
               /\ screen' = Reader(f, temp_of[f]) /\ temp_of[f] \in Temps
    BY <2>3 DEF Show, Caches, Maps
  <2>4. ASSUME NEW f \in Files, NEW p \in Passphrases, Reuse(f, p) PROVE TypeOK'
    <3>1. tmp[temp_of[f]] \in TempFiles
      OBVIOUS
    <3> QED BY <2>3, <2>4, <3>1 DEF Reuse, Reader
  <2>5. ASSUME NEW f \in Files, NEW p \in Passphrases, DecryptAndShow(f, p)
        PROVE  TypeOK'
    <3>1. Decrypted(library[f]) \in TempFiles
      BY DecryptedType
    <3> QED BY <2>3, <2>5, <3>1 DEF DecryptAndShow, Reader
  <2>6. ASSUME NEW f \in Files, NEW p \in Passphrases, IncorrectPassphrase(f, p)
        PROVE  TypeOK'
    BY <2>6 DEF IncorrectPassphrase, Prompt, Caches
  <2>7. ASSUME NEW f \in Files, NEW p \in Passphrases, DecryptFails(f, p)
        PROVE  TypeOK'
    <3>1. CASE UNCHANGED << tmp, history >>
      BY <2>7, <3>1 DEF DecryptFails, Browser
    <3>2. CASE /\ "partial" \in Faults
               /\ tmp' = [tmp EXCEPT ![temp_of[f]] = Part(library[f])]
               /\ Happens({"partial"})
      <4>1. Part(library[f]) \in TempFiles
        BY DecryptedType
      <4>2. tmp' \in [Temps -> TempFiles]
        BY <3>2, <4>1
      <4>3. happened' \subseteq Faults /\ tainted' \subseteq happened'
        BY <3>2 DEF Happens
      <4> QED BY <2>7, <4>2, <4>3 DEF DecryptFails, Browser
    <3> QED BY <2>7, <3>1, <3>2 DEF DecryptFails
  <2>8. ASSUME NEW f \in Files, NEW p \in Passphrases, KilledDecrypting(f, p)
        PROVE  TypeOK'
    BY <2>8, DecryptedType, NoFileType DEF KilledDecrypting, Happens, Browser
  <2>9. CASE CancelPrompt
    BY <2>9 DEF CancelPrompt, Browser
  <2>10. CASE Close
    BY <2>10, UnmappedType, NoFileType DEF Close, Browser
  <2>11. CASE Suspend
    BY <2>11, NoFileType DEF Suspend, Emptied, CleanupTempFiles, Empty
  <2>12. CASE Resume
    BY <2>12 DEF Resume
  <2>13. CASE Exit
    BY <2>13, UnmappedType, NoFileType DEF Exit, CleanupTempFiles, Empty, Browser
  <2>14. CASE Start
    BY <2>14 DEF Start
  <2>15. CASE Flush
    BY <2>15 DEF Flush
  <2>16. CASE Kill
    <3>1. /\ "kill" \in Faults /\ happened' = happened \cup {"kill"} /\ tainted' = tainted
          /\ tmp' \in [Temps -> TempFiles]
      BY <2>16, NoFileType DEF Kill, Happens, Empty
    <3> QED BY <2>16, <3>1, NoFileType DEF Kill, Browser
  <2>17. ASSUME NEW f \in Files, NEW b \in Books, Replace(f, b) PROVE TypeOK'
    BY <2>17 DEF Replace, Happens
  <2>18. CASE UNCHANGED vars
    BY <2>18 DEF vars
  <2> QED
    BY <2>1, <2>2, <2>4, <2>5, <2>6, <2>7, <2>8, <2>9, <2>10, <2>11, <2>12,
       <2>13, <2>14, <2>15, <2>16, <2>17, <2>18 DEF Next
<1> QED BY <1>1, <1>2, PTL DEF Spec

----------------------------------------------------------------------------
\* The inductive form of LeadsBack: KOReader starts with no document open, so the
\* settings it reads then cannot disagree with one.
BackInv ==
    /\ LeadsBack
    /\ power \in {"off", "dead"} => screen.view = "files"

\* Closing a decrypted document leads back to its file, under every fault and
\* with base names in common.
THEOREM LeadsBackAlways == Spec => []LeadsBack
<1> USE ReaderAssumption
<1>1. Init => BackInv
  BY DEF Init, BackInv, LeadsBack, Browser
<1>2. TypeOK /\ BackInv /\ [Next]_vars => BackInv'
  <2> SUFFICES ASSUME TypeOK, BackInv, [Next]_vars PROVE BackInv'
    OBVIOUS
  <2> USE DEF BackInv, LeadsBack
  <2>1. ASSUME NEW f \in Files, OpenOriginal(f) PROVE BackInv'
    BY <2>1 DEF OpenOriginal, Browsing, Reader
  <2>2. ASSUME NEW f \in Files, AskPassphrase(f) PROVE BackInv'
    BY <2>2 DEF AskPassphrase, Browsing, Prompt
  <2>3. ASSUME NEW f \in Files, NEW p \in Passphrases,
               NEW c, Show(f, p, c), power = "on", power' = power
        PROVE  BackInv'
    <3>1. map'[temp_of[f]] = f
      BY <2>3 DEF Show, TypeOK, Maps
    <3> QED BY <2>3, <3>1 DEF Show, Reader
  <2>4. ASSUME NEW f \in Files, NEW p \in Passphrases,
               Reuse(f, p) \/ DecryptAndShow(f, p)
        PROVE  BackInv'
    BY <2>3, <2>4 DEF Reuse, DecryptAndShow, Tries
  <2>5. ASSUME NEW f \in Files, NEW p \in Passphrases,
               \/ IncorrectPassphrase(f, p)
               \/ DecryptFails(f, p)
               \/ KilledDecrypting(f, p)
        PROVE  BackInv'
    BY <2>5 DEF IncorrectPassphrase, DecryptFails, KilledDecrypting, Tries,
                Prompt, Browser
  <2>6. CASE CancelPrompt \/ Close \/ Exit \/ Kill
    BY <2>6 DEF CancelPrompt, Close, Exit, Kill, Browser
  <2>7. CASE Suspend \/ Resume \/ Start \/ Flush
    BY <2>7 DEF Suspend, Resume, Start, Flush
  <2>8. ASSUME NEW f \in Files, NEW b \in Books, Replace(f, b) PROVE BackInv'
    BY <2>8 DEF Replace
  <2>9. CASE UNCHANGED vars
    BY <2>9 DEF vars
  <2> QED BY <2>1, <2>2, <2>4, <2>5, <2>6, <2>7, <2>8, <2>9 DEF Next
<1>3. BackInv => LeadsBack
  BY DEF BackInv
<1> QED BY <1>1, <1>2, <1>3, TypeCorrect, PTL DEF Spec

\* Nothing decrypted is in /tmp while the device sleeps or after an exit, under
\* every fault: what is written there has the name the cleanup looks for.
THEOREM NothingLeftAtRestAlways == Spec => []NothingLeftAtRest
<1>1. Init => NothingLeftAtRest
  BY DEF Init, NothingLeftAtRest
<1>2. NothingLeftAtRest /\ [Next]_vars => NothingLeftAtRest'
  <2> SUFFICES ASSUME NothingLeftAtRest, [Next]_vars PROVE NothingLeftAtRest'
    OBVIOUS
  <2> USE DEF NothingLeftAtRest
  <2>1. ASSUME NEW f \in Files, OpenOriginal(f) \/ AskPassphrase(f)
        PROVE  NothingLeftAtRest'
    BY <2>1 DEF OpenOriginal, AskPassphrase
  <2>2. ASSUME NEW f \in Files, NEW p \in Passphrases,
               \/ Reuse(f, p) \/ DecryptAndShow(f, p)
               \/ IncorrectPassphrase(f, p) \/ DecryptFails(f, p)
               \/ KilledDecrypting(f, p)
        PROVE  NothingLeftAtRest'
    BY <2>2 DEF Reuse, DecryptAndShow, IncorrectPassphrase, DecryptFails,
                KilledDecrypting, Tries
  <2>3. CASE Suspend \/ Exit
    BY <2>3 DEF Suspend, Exit, CleanupTempFiles, Empty
  <2>4. CASE CancelPrompt \/ Close \/ Resume \/ Start \/ Flush \/ Kill
    BY <2>4 DEF CancelPrompt, Close, Resume, Start, Flush, Kill
  <2>5. ASSUME NEW f \in Files, NEW b \in Books, Replace(f, b)
        PROVE  NothingLeftAtRest'
    BY <2>5 DEF Replace
  <2>6. CASE UNCHANGED vars
    BY <2>6 DEF vars, Empty
  <2> QED BY <2>1, <2>2, <2>3, <2>4, <2>5, <2>6 DEF Next
<1> QED BY <1>1, <1>2, PTL DEF Spec

----------------------------------------------------------------------------
(***************************************************************************)
(* What is in /tmp, and what is cached.                                    *)
(***************************************************************************)
\* What lies in /tmp is whole, and under a file's own name it is that file, as far as
\* nothing has left its mark there.
TempsHold ==
    \A f \in Files : TempExists(f) =>
        /\ tmp[temp_of[f]].whole \/ "partial" \in tainted
        /\ tmp[temp_of[f]].of = library[f] \/ "replace" \in tainted \/ Shared(f)

LEMMA FileShape ==
    /\ \A book : Decrypted(book).of = book /\ Decrypted(book).whole
    /\ \A book : Part(book).of = book
BY DEF Decrypted, Part

\* A file with a part of a decryption or all of one in its place disturbs no other.
LEMMA TempWritten ==
    ASSUME TypeOK, TempsHold, NEW f \in Files, NEW c \in TempFiles,
           c.of = library[f], tmp' = [tmp EXCEPT ![temp_of[f]] = c],
           library' = library, temp_of' = temp_of,
           tainted \subseteq tainted', c.whole \/ "partial" \in tainted'
    PROVE  TempsHold'
<1>. SUFFICES ASSUME NEW g \in Files, TempExists(g)'
              PROVE  /\ tmp'[temp_of[g]].whole \/ "partial" \in tainted'
                     /\ \/ tmp'[temp_of[g]].of = library[g]
                        \/ "replace" \in tainted' \/ Shared(g)
    BY DEF TempsHold, Shared
<1>1. CASE temp_of[g] = temp_of[f]
  <2>1. tmp'[temp_of[g]] = c
      BY <1>1 DEF TypeOK
  <2>2. g = f \/ Shared(g)
      BY <1>1 DEF Shared
  <2>. QED  BY <2>1, <2>2
<1>2. CASE temp_of[g] # temp_of[f]
  <2>1. tmp'[temp_of[g]] = tmp[temp_of[g]]
      BY <1>2 DEF TypeOK
  <2>2. TempExists(g)
      BY <2>1 DEF TempExists
  <2>. QED  BY <2>1, <2>2 DEF TempsHold
<1>. QED  BY <1>1, <1>2

\* What a file opened through the plugin shows is whole and of that file, but for
\* decryptions cut short, files replaced and base names in common; for any library,
\* and whatever is reused after kills, suspensions and restarts.
THEOREM ShownIsAlwaysChosen == Spec => []ShownIsChosen
<1> USE ReaderAssumption DEF history
<1> DEFINE ShownInv == TempsHold /\ ShownIsChosen
<1>1. Init => ShownInv
  BY DEF Init, TempsHold, ShownIsChosen, TempExists, Empty, Browser
<1>2. TypeOK /\ ShownInv /\ [Next]_vars => ShownInv'
  <2> SUFFICES ASSUME TypeOK, ShownInv, [Next]_vars PROVE ShownInv'
    OBVIOUS
  <2>0. ASSUME tmp' = Empty, temp_of' = temp_of PROVE TempsHold'
    BY <2>0 DEF TempsHold, TempExists, Empty, TypeOK
  <2>1. ASSUME UNCHANGED << tmp, library, temp_of, tainted >> PROVE TempsHold'
    BY <2>1 DEF TempsHold, TempExists, Shared
  <2>2. ASSUME NEW f \in Files, OpenOriginal(f) PROVE ShownInv'
    <3>1. screen'.view = "reader" => screen'.file = f /\ shown' = Decrypted(library[f])
      BY <2>2 DEF OpenOriginal, Reader
    <3> QED BY <2>1, <2>2, <3>1, FileShape DEF OpenOriginal, ShownIsChosen
  <2>3. ASSUME NEW f \in Files, AskPassphrase(f) PROVE ShownInv'
    BY <2>1, <2>3 DEF AskPassphrase, Prompt, ShownIsChosen
  <2>4. ASSUME NEW f \in Files, NEW p \in Passphrases, Reuse(f, p) PROVE ShownInv'
    <3>1. /\ screen'.file = f /\ shown' = tmp[temp_of[f]] /\ TempExists(f)
          /\ UNCHANGED << tmp, library, temp_of, tainted >>
      BY <2>4 DEF Reuse, Show, Reader
    <3> QED BY <2>1, <3>1 DEF TempsHold, ShownIsChosen, Shared
  <2>5. ASSUME NEW f \in Files, NEW p \in Passphrases, DecryptAndShow(f, p)
        PROVE  ShownInv'
    <3>1. /\ tmp' = [tmp EXCEPT ![temp_of[f]] = Decrypted(library[f])]
          /\ UNCHANGED << library, temp_of, tainted >>
          /\ screen'.file = f /\ shown' = Decrypted(library[f])
      BY <2>5 DEF DecryptAndShow, Show, Reader
    <3>2. TempsHold'
      BY <3>1, TempWritten, FileShape, DecryptedType DEF TypeOK
    <3> QED BY <3>1, <3>2, FileShape DEF ShownIsChosen
  <2>6. ASSUME NEW f \in Files, NEW p \in Passphrases, IncorrectPassphrase(f, p)
        PROVE  ShownInv'
    BY <2>1, <2>6 DEF IncorrectPassphrase, Prompt, ShownIsChosen
  <2>7. ASSUME NEW f \in Files, NEW p \in Passphrases,
               DecryptFails(f, p) \/ KilledDecrypting(f, p)
        PROVE  ShownInv'
    <3>1. /\ screen'.view = "files" /\ UNCHANGED << library, temp_of >>
          /\ \/ UNCHANGED << tmp, history >>
             \/ /\ tmp' = [tmp EXCEPT ![temp_of[f]] = Part(library[f])]
                /\ tainted \subseteq tainted' /\ "partial" \in tainted'
      BY <2>7 DEF DecryptFails, KilledDecrypting, Happens, Browser
    <3>2. TempsHold'
      BY <2>1, <3>1, TempWritten, FileShape, DecryptedType DEF TypeOK
    <3> QED BY <3>1, <3>2 DEF ShownIsChosen
  <2>8. CASE CancelPrompt \/ Close
    BY <2>1, <2>8 DEF CancelPrompt, Close, Browser, ShownIsChosen
  <2>9. CASE Suspend
    <3>1. /\ tmp' = Empty /\ UNCHANGED << library, temp_of, screen, shown >>
          /\ screen.view = "reader" => tainted' = tainted
      BY <2>9 DEF Suspend, CleanupTempFiles, Emptied
    <3> QED BY <2>0, <3>1 DEF ShownIsChosen, Shared
  <2>10. CASE Exit
    BY <2>0, <2>10 DEF Exit, CleanupTempFiles, Browser, ShownIsChosen
  <2>11. CASE Kill
    <3>1. /\ tmp' \in {tmp, Empty} /\ tainted' = tainted /\ screen'.view = "files"
          /\ UNCHANGED << library, temp_of >>
      BY <2>11 DEF Kill, Happens, Browser
    <3> QED BY <2>0, <2>1, <3>1 DEF ShownIsChosen
  <2>12. CASE Resume \/ Start \/ Flush
    <3>1. UNCHANGED << tmp, library, temp_of, screen, shown, tainted >>
      BY <2>12 DEF Resume, Start, Flush
    <3> QED BY <2>1, <3>1 DEF ShownIsChosen, Shared
  <2>13. ASSUME NEW f \in Files, NEW b \in Books, Replace(f, b) PROVE ShownInv'
    <3>1. /\ "replace" \in tainted' /\ tainted \subseteq tainted'
          /\ UNCHANGED << tmp, temp_of, screen, shown >>
      BY <2>13 DEF Replace, Happens
    <3> QED BY <3>1 DEF TempsHold, TempExists, ShownIsChosen
  <2>14. CASE UNCHANGED vars
    BY <2>1, <2>14 DEF vars, ShownIsChosen, Shared
  <2> QED BY <2>2, <2>3, <2>4, <2>5, <2>6, <2>7, <2>8, <2>9, <2>10, <2>11, <2>12,
             <2>13, <2>14 DEF Next
<1>3. ShownInv => ShownIsChosen
  OBVIOUS
<1> QED BY <1>1, <1>2, <1>3, TypeCorrect, PTL DEF Spec

\* What is reused was decrypted with a passphrase that is still cached, and a file
\* is prompted for only when it has none; the settings read at a start are those
\* that the exit before it wrote.
OwnCached(f) ==
    /\ cache[f] # None => cache[f] = PassphraseOf[library[f]]
    /\ TempExists(f) => cache[f] # None
    /\ screen.view = "prompt" /\ screen.file = f => cache[f] = None

CacheInv ==
    happened = {} =>
        /\ \A f \in Files : ~ Shared(f) => OwnCached(f)
        /\ power # "dead"
        /\ power = "off" => disk.cache = cache

\* Every cached passphrase opens its file unless there has been a fault or base names
\* are shared, through any wrong attempts, suspensions and restarts.
THEOREM CachedAlwaysOpens == Spec => []CachedOpens
<1> USE ReaderAssumption DEF history
<1>1. Init => CacheInv
  BY DEF Init, CacheInv, OwnCached, TempExists, Empty, Browser
<1>2. TypeOK /\ CacheInv /\ [Next]_vars => CacheInv'
  <2> SUFFICES ASSUME TypeOK, CacheInv, [Next]_vars, happened' = {} PROVE CacheInv'
    BY DEF CacheInv
  <2>1. ASSUME NEW f \in Files, OpenOriginal(f) \/ AskPassphrase(f) PROVE CacheInv'
    BY <2>1 DEF OpenOriginal, AskPassphrase, Browsing, Reader, Prompt, CacheInv,
                OwnCached, TempExists, Shared
  <2>2. ASSUME NEW f \in Files, NEW p \in Passphrases, Reuse(f, p) PROVE CacheInv'
    <3>1. /\ screen'.view = "reader" /\ cache' = [cache EXCEPT ![f] = p]
          /\ UNCHANGED << library, temp_of, tmp, power, happened >> /\ power = "on"
          /\ TempExists(f)
      BY <2>2 DEF Reuse, Show, Reader, Tries
    <3>2. ASSUME NEW g \in Files, ~ Shared(g) PROVE OwnCached(g)'
      <4>1. OwnCached(g) /\ happened = {}
        BY <3>1, <3>2 DEF CacheInv
      <4>2. g = f => cache[f] = p
        BY <2>2, <3>1, <4>1 DEF Reuse, Tries, OwnCached
      <4>3. cache'[g] = cache[g]
        BY <3>1, <4>2 DEF TypeOK, Caches
      <4> QED BY <3>1, <4>1, <4>3 DEF OwnCached, TempExists
    <3> QED BY <3>1, <3>2 DEF CacheInv, Shared
  <2>3. ASSUME NEW f \in Files, NEW p \in Passphrases, DecryptAndShow(f, p)
        PROVE  CacheInv'
    <3>1. /\ cache' = [cache EXCEPT ![f] = p]
          /\ tmp' = [tmp EXCEPT ![temp_of[f]] = Decrypted(library[f])]
          /\ UNCHANGED << library, temp_of, power, happened >> /\ power = "on"
          /\ screen'.view = "reader"
          /\ p = PassphraseOf[library[f]]
      BY <2>3 DEF DecryptAndShow, Show, Reader, Tries
    <3>2. ASSUME NEW g \in Files, ~ Shared(g) PROVE OwnCached(g)'
      <4>1. CASE g = f
        BY <3>1, <4>1 DEF OwnCached, TypeOK, Caches
      <4>2. CASE g # f
        <5>1. temp_of[g] # temp_of[f]
          BY <3>2, <4>2 DEF Shared
        <5>2. cache'[g] = cache[g] /\ tmp'[temp_of[g]] = tmp[temp_of[g]]
          BY <3>1, <4>2, <5>1 DEF TypeOK, Caches
        <5>3. OwnCached(g)
          BY <3>1, <3>2 DEF CacheInv
        <5> QED BY <3>1, <5>2, <5>3 DEF OwnCached, TempExists
      <4> QED BY <4>1, <4>2
    <3> QED BY <3>1, <3>2 DEF CacheInv, Shared
  <2>4. ASSUME NEW f \in Files, NEW p \in Passphrases, IncorrectPassphrase(f, p)
        PROVE  CacheInv'
    <3>1. /\ cache' = [cache EXCEPT ![f] = None]
          /\ UNCHANGED << library, temp_of, tmp, power, happened >> /\ power = "on"
          /\ screen' = Prompt(f) /\ ~ TempExists(f)
      BY <2>4 DEF IncorrectPassphrase, Tries
    <3>2. ASSUME NEW g \in Files, ~ Shared(g) PROVE OwnCached(g)'
      <4>1. OwnCached(g)
        BY <3>1, <3>2 DEF CacheInv
      <4>2. cache'[g] = IF g = f THEN None ELSE cache[g]
        BY <3>1 DEF TypeOK, Caches
      <4> QED BY <3>1, <4>1, <4>2 DEF OwnCached, TempExists, Prompt
    <3> QED BY <3>1, <3>2 DEF CacheInv, Shared
  <2>5. ASSUME NEW f \in Files, NEW p \in Passphrases,
               DecryptFails(f, p) \/ KilledDecrypting(f, p)
        PROVE  CacheInv'
    <3>1. /\ DecryptFails(f, p) /\ happened' = happened /\ screen'.view = "files"
          /\ UNCHANGED << library, temp_of, tmp, cache, disk, power >> /\ power = "on"
      BY <2>5 DEF DecryptFails, KilledDecrypting, Happens, Tries, Browser
    <3> QED BY <3>1 DEF CacheInv, OwnCached, TempExists, Shared
  <2>6. CASE CancelPrompt \/ Close
    BY <2>6 DEF CancelPrompt, Close, Browser, CacheInv, OwnCached, TempExists, Shared
  <2>7. CASE Suspend \/ Exit
    <3>1. /\ tmp' = Empty /\ UNCHANGED << library, temp_of, cache, happened >>
          /\ screen'.view = "files" \/ screen' = screen
          /\ power' # "dead" /\ (power' = "off" => disk'.cache = cache)
      BY <2>7 DEF Suspend, Exit, CleanupTempFiles, Browser
    <3>2. \A f \in Files : ~ TempExists(f)'
      BY <3>1 DEF TempExists, Empty, TypeOK
    <3> QED BY <3>1, <3>2 DEF CacheInv, OwnCached, Shared
  <2>8. CASE Resume \/ Flush
    BY <2>8 DEF Resume, Flush, CacheInv, OwnCached, TempExists, Shared
  <2>9. CASE Start
    BY <2>9 DEF Start, CacheInv, OwnCached, TempExists, Shared
  <2>10. CASE Kill
    BY <2>10 DEF Kill, Happens
  <2>11. ASSUME NEW f \in Files, NEW b \in Books, Replace(f, b) PROVE CacheInv'
    BY <2>11 DEF Replace, Happens
  <2>12. CASE UNCHANGED vars
    BY <2>12 DEF vars, CacheInv, OwnCached, TempExists, Shared
  <2> QED BY <2>1, <2>2, <2>3, <2>4, <2>5, <2>6, <2>7, <2>8, <2>9, <2>10, <2>11,
             <2>12 DEF Next
<1>3. CacheInv => CachedOpens
  BY DEF CacheInv, OwnCached, CachedOpens
<1> QED BY <1>1, <1>2, <1>3, TypeCorrect, PTL DEF Spec
=============================================================================
