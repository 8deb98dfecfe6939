--------------------------- MODULE LcpBooksProofs ---------------------------
(***************************************************************************)
(* Theorems about the books in the archives of lcp-core: what encrypting   *)
(* and decrypting keep, what a license in an archive says of the rest of   *)
(* it, and that publications of its own never fail to open.                *)
(***************************************************************************)
EXTENDS LcpCoreProofs

----------------------------------------------------------------------------
(***************************************************************************)
(* Archives as sequences of entries with names.                            *)
(***************************************************************************)
LEMMA AppendEntries ==
    ASSUME NEW S, NEW a \in Seq(S), NEW e \in S
    PROVE  /\ Append(a, e) \in Seq(S)
           /\ Len(a) \in Nat /\ DOMAIN a = 1..Len(a)
           /\ DOMAIN Append(a, e) = DOMAIN a \cup {Len(a) + 1}
           /\ Len(a) + 1 \notin DOMAIN a
           /\ \A k \in DOMAIN a : Append(a, e)[k] = a[k]
           /\ Append(a, e)[Len(a) + 1] = e
<1>1. /\ Append(a, e) \in Seq(S) /\ Len(Append(a, e)) = Len(a) + 1
      /\ \A k \in 1..Len(a) : Append(a, e)[k] = a[k]
      /\ Append(a, e)[Len(a) + 1] = e
  BY AppendProperties
<1>2. Len(a) \in Nat /\ DOMAIN a = 1..Len(a)
  BY LenProperties
<1>3. DOMAIN Append(a, e) = 1..(Len(a) + 1)
  BY <1>1, LenProperties
<1>4. 1..(Len(a) + 1) = 1..Len(a) \cup {Len(a) + 1} /\ Len(a) + 1 \notin 1..Len(a)
  BY <1>2
<1> QED BY <1>1, <1>2, <1>3, <1>4

LEMMA ByNameEntry ==
    ASSUME NEW a, NEW n, HasEntry(a, n)
    PROVE  \E k \in DOMAIN a : a[k].name = n /\ ByName(a, n) = a[k].data
<1>1. PICK k \in DOMAIN a : a[k].name = n
  BY DEF HasEntry
<1> DEFINE c == CHOOSE j \in DOMAIN a : a[j].name = n
<1>2. c \in DOMAIN a /\ a[c].name = n
  BY <1>1
<1>3. ByName(a, n) = a[c].data
  BY DEF ByName
<1> QED BY <1>2, <1>3

LEMMA ByNameOnce ==
    ASSUME NEW a, Once(a), NEW k \in DOMAIN a
    PROVE  HasEntry(a, a[k].name) /\ ByName(a, a[k].name) = a[k].data
<1>1. HasEntry(a, a[k].name)
  BY DEF HasEntry
<1>2. PICK j \in DOMAIN a : a[j].name = a[k].name /\ ByName(a, a[k].name) = a[j].data
  BY <1>1, ByNameEntry
<1> QED BY <1>1, <1>2 DEF Once

LEMMA ByPathEntry ==
    ASSUME NEW a, NEW p, HasPath(a, p)
    PROVE  \E k \in DOMAIN a : a[k].name = Normal[p] /\ ByPath(a, p) = a[k].data
BY ByNameEntry DEF HasPath, ByPath

LEMMA FixedNames ==
    /\ Normal[CONTAINER_FILE] = CONTAINER_FILE
    /\ Normal[ENCRYPTION_FILE] = ENCRYPTION_FILE
    /\ Normal[LICENSE_FILE] = LICENSE_FILE
    /\ Normal[MIMETYPE] = MIMETYPE
BY EpubAssumption

LEMMA HasEntryAppend ==
    ASSUME NEW a \in Seq(Entries), NEW e \in Entries, NEW n
    PROVE  HasEntry(Append(a, e), n) <=> HasEntry(a, n) \/ n = e.name
BY AppendEntries DEF HasEntry

\* What is written under a new name moves nothing that is there.
LEMMA ByNameAppend ==
    ASSUME NEW a \in Seq(Entries), NEW e \in Entries, Once(a), ~ HasEntry(a, e.name)
    PROVE  /\ Once(Append(a, e))
           /\ ByName(Append(a, e), e.name) = e.data
           /\ \A n : HasEntry(a, n) => ByName(Append(a, e), n) = ByName(a, n)
<1>1. Once(Append(a, e))
  BY AppendEntries DEF Once, HasEntry
<1>2. ByName(Append(a, e), e.name) = e.data
  <2>1. Len(a) + 1 \in DOMAIN Append(a, e) /\ Append(a, e)[Len(a) + 1] = e
    BY AppendEntries
  <2> QED BY <1>1, <2>1, ByNameOnce
<1>3. ASSUME NEW n, HasEntry(a, n) PROVE ByName(Append(a, e), n) = ByName(a, n)
  <2>1. PICK k \in DOMAIN a : a[k].name = n /\ ByName(a, n) = a[k].data
    BY <1>3, ByNameEntry
  <2>2. k \in DOMAIN Append(a, e) /\ Append(a, e)[k] = a[k]
    BY AppendEntries
  <2> QED BY <1>1, <2>1, <2>2, ByNameOnce
<1> QED BY <1>1, <1>2, <1>3

----------------------------------------------------------------------------
(***************************************************************************)
(* Layers.  Taking the outermost off is putting it on undone.              *)
(***************************************************************************)
LEMMA EncipherLayers ==
    ASSUME NEW d \in Data, NEW key, NEW deflated,
           [key |-> key, deflated |-> deflated] \in Layers,
           NEW e, e = Encipher(d, key, deflated)
    PROVE  /\ e.content = d.content
           /\ Len(e.layers) = Len(d.layers) + 1 /\ e.layers # << >>
           /\ e.layers[Len(e.layers)] = [key |-> key, deflated |-> deflated]
           /\ \A j \in DOMAIN d.layers : e.layers[j] = d.layers[j]
           /\ \A j \in DOMAIN e.layers :
                 \/ j \in DOMAIN d.layers /\ e.layers[j] = d.layers[j]
                 \/ j = Len(e.layers) /\ e.layers[j].key = key
<1> DEFINE l == [key |-> key, deflated |-> deflated]
<1>1. d.layers \in Seq(Layers) /\ l \in Layers /\ l.key = key
  BY DEF Data
<1>2. e.layers = Append(d.layers, l) /\ e.content = d.content
  BY DEF Encipher, Data
<1> HIDE DEF l
<1>3. Append(d.layers, l) # << >> /\ Len(Append(d.layers, l)) = Len(d.layers) + 1
  BY <1>1, AppendProperties
<1>4. /\ DOMAIN e.layers = DOMAIN d.layers \cup {Len(d.layers) + 1}
      /\ e.layers[Len(d.layers) + 1] = l
      /\ \A j \in DOMAIN d.layers : e.layers[j] = d.layers[j]
  BY <1>1, <1>2, AppendEntries
<1> QED BY <1>1, <1>2, <1>3, <1>4 DEF l

LEMMA DecipherData ==
    ASSUME NEW d \in Data
    PROVE  Decipher(d) =
               [content |-> d.content, layers |-> SubSeq(d.layers, 1, Len(d.layers) - 1)]
BY DEF Decipher, Data

LEMMA DecipherLayers ==
    ASSUME NEW d \in Data, d.layers # << >>
    PROVE  /\ Decipher(d).content = d.content
           /\ DOMAIN Decipher(d).layers \subseteq DOMAIN d.layers
           /\ \A k \in DOMAIN Decipher(d).layers : Decipher(d).layers[k] = d.layers[k]
<1>1. d.layers \in Seq(Layers) /\ Len(d.layers) \in Nat /\ Len(d.layers) # 0
  BY EmptySeq DEF Data
<1>2. DOMAIN d.layers = 1..Len(d.layers)
  BY <1>1, LenProperties
<1> DEFINE s == SubSeq(d.layers, 1, Len(d.layers) - 1)
<1>3. \A k \in 1..(Len(d.layers) - 1) : d.layers[k] \in Layers
  BY <1>1, <1>2
<1>4. s \in Seq(Layers) /\ Len(s) = Len(d.layers) - 1
  BY <1>1, <1>3, SubSeqProperties
<1>5. \A k \in 1..(Len(d.layers) - 1) : s[k] = d.layers[k]
  BY <1>1, <1>3, SubSeqProperties
<1>6. DOMAIN s = 1..(Len(d.layers) - 1)
  BY <1>4, LenProperties
<1>7. Decipher(d).content = d.content /\ Decipher(d).layers = s
  BY DecipherData
<1> HIDE DEF s
<1>8. \A k \in DOMAIN s : k \in DOMAIN d.layers /\ s[k] = d.layers[k]
  BY <1>1, <1>2, <1>5, <1>6
<1> QED BY <1>7, <1>8

LEMMA DecipherEncipher ==
    ASSUME NEW d \in Data, NEW key, NEW deflated,
           [key |-> key, deflated |-> deflated] \in Layers,
           NEW e \in Data, e = Encipher(d, key, deflated)
    PROVE  /\ ComesOff(e, key, deflated)
           /\ EncipheredWith(e, key)
           /\ Decipher(e) = d
<1> DEFINE s == SubSeq(e.layers, 1, Len(e.layers) - 1)
<1>1. /\ e.content = d.content /\ Len(e.layers) = Len(d.layers) + 1
      /\ e.layers # << >> /\ e.layers[Len(e.layers)] = [key |-> key, deflated |-> deflated]
      /\ \A k \in DOMAIN d.layers : e.layers[k] = d.layers[k]
  BY EncipherLayers
<1>2. ComesOff(e, key, deflated) /\ EncipheredWith(e, key)
  BY <1>1 DEF ComesOff, EncipheredWith
<1>3. d.layers \in Seq(Layers) /\ Len(d.layers) \in Nat /\ DOMAIN d.layers = 1..Len(d.layers)
  BY LenProperties DEF Data
<1>4. Decipher(e) = [content |-> d.content, layers |-> s]
  BY <1>1, DecipherData
<1>5. \A k \in 1..(Len(e.layers) - 1) : e.layers[k] \in Layers
  BY <1>1, <1>3
<1>6. s \in Seq(Layers) /\ Len(s) = Len(d.layers)
  BY <1>1, <1>3, <1>5, SubSeqProperties
<1>7. \A k \in 1..Len(d.layers) : s[k] = d.layers[k]
  BY <1>1, <1>3, <1>5, SubSeqProperties
<1> HIDE DEF s
<1>8. s = d.layers
  BY <1>3, <1>6, <1>7, SeqEqual
<1> QED BY <1>2, <1>4, <1>8 DEF Data

----------------------------------------------------------------------------
(***************************************************************************)
(* encryption.xml says again what was enciphered, in the same order.       *)
(***************************************************************************)
LEMMA ParseWritten ==
    ASSUME NEW list \in Seq(EncryptedFileInfo)
    PROVE  ParseEncryptionXml(WriteEncryptionXml(list)) = list
<1> DEFINE parsed == ParseEncryptionXml(WriteEncryptionXml(list))
<1>1. DOMAIN list = 1..Len(list) /\ list = [k \in DOMAIN list |-> list[k]]
  BY LenProperties
<1>2. DOMAIN parsed = DOMAIN list
  BY DEF ParseEncryptionXml, WriteEncryptionXml
<1>3. ASSUME NEW k \in DOMAIN list PROVE parsed[k] = list[k]
  <2>1. list[k] \in EncryptedFileInfo
    BY <1>1
  <2>2. parsed[k] = ParseEncryptedData(
            [uri |-> list[k].uri, algorithm |-> LCP_ALGORITHM,
             method |-> IF list[k].is_compressed THEN "8" ELSE "0",
             original_length |-> list[k].original_length])
    BY <1>3 DEF ParseEncryptionXml, WriteEncryptionXml
  <2>3. parsed[k] = [uri |-> list[k].uri, is_compressed |-> list[k].is_compressed,
                     original_length |-> list[k].original_length]
    BY <2>1, <2>2 DEF ParseEncryptedData, EncryptedFileInfo
  <2> QED BY <2>1, <2>3 DEF EncryptedFileInfo
<1>4. parsed = [k \in DOMAIN list |-> parsed[k]]
  BY <1>2 DEF ParseEncryptionXml
<1> HIDE DEF parsed
<1> QED BY <1>1, <1>3, <1>4 DEF parsed

\* What Listed gives is the set of what EncryptedResources gives in order.
LEMMA ListedResources ==
    ASSUME NEW a
    PROVE  /\ DOMAIN EncryptedResources(a) =
                  DOMAIN ByPath(a, ENCRYPTION_FILE).content.elements
           /\ Listed(a) =
                  {EncryptedResources(a)[k] : k \in DOMAIN EncryptedResources(a)}
<1> DEFINE elements == ByPath(a, ENCRYPTION_FILE).content.elements
<1>1. EncryptedResources(a) = [k \in DOMAIN elements |-> ParseEncryptedData(elements[k])]
  BY DEF EncryptedResources, ParseEncryptionXml
<1>2. Listed(a) = {ParseEncryptedData(elements[k]) : k \in DOMAIN elements}
  BY DEF Listed
<1> HIDE DEF elements
<1> QED BY <1>1, <1>2 DEF elements

----------------------------------------------------------------------------
(***************************************************************************)
(* What the steps that write a resource do, said of the entry they write.  *)
(***************************************************************************)
LEMMA EncryptItemStep ==
    ASSUME TypeInv, EncryptItem
    PROVE  \E e \in Entries, info \in EncryptedFileInfo, d \in Data :
              /\ pc = "encrypt" /\ job \in EncryptJobs /\ HasManifest(src)
              /\ i \in DOMAIN Manifest(src) /\ i' = i + 1
              /\ NeedsEncryption(Opf(src), Manifest(src)[i])
              /\ info.uri = Manifest(src)[i].href /\ info.uri \in Names
              /\ HasPath(src, info.uri) /\ d = ByPath(src, info.uri)
              /\ info.original_length = Length(d)
              /\ e.name = info.uri
              /\ e.data = Encipher(d, job.key, info.is_compressed) /\ e.data \in Data
              /\ ~ HasEntry(w, e.name)
              /\ w' = Append(w, e) /\ infos' = Append(infos, info)
              /\ UNCHANGED << fs, pc, job, src, runs, issued, result >>
<1> DEFINE item == Manifest(src)[i]
           data == ByPath(src, item.href)
           info == [uri |-> item.href, is_compressed |-> ~ IsCodec(item),
                    original_length |-> Length(data)]
           e == [name |-> item.href, data |-> Encipher(data, job.key, ~ IsCodec(item))]
<1>1. pc = "encrypt" /\ job \in EncryptJobs /\ HasManifest(src)
  BY DEF EncryptItem, TypeInv, TypeOK, ManifestFound, DecryptPhases, EncryptJobs
<1>2. i \in DOMAIN Manifest(src)
  BY <1>1, ManifestType, LenProperties DEF EncryptItem, TypeInv, TypeOK
<1>3. item.href \in Names
  BY ItemPath DEF EncryptItem
<1>4. HasPath(src, item.href) /\ data \in Data
  BY ByPathType DEF EncryptItem, TypeInv, TypeOK
<1>5. (~ IsCodec(item)) \in BOOLEAN
  BY DEF IsCodec
<1>6. job.key \in ContentKeys
  BY <1>1 DEF EncryptJobs
<1>7. e.data \in Data
  BY <1>4, <1>5, <1>6, EncipherType
<1>8. e \in Entries
  BY <1>3, <1>7 DEF Entries
<1>9. info \in EncryptedFileInfo
  BY <1>3, <1>4, <1>5, LengthType DEF EncryptedFileInfo
<1>10. /\ NeedsEncryption(Opf(src), item) /\ ~ HasEntry(w, item.href) /\ i' = i + 1
       /\ w' = Append(w, e) /\ infos' = Append(infos, info)
       /\ UNCHANGED << fs, pc, job, src, runs, issued, result >>
  BY DEF EncryptItem, Startable, Write, Stay
<1>11. /\ info.uri = item.href /\ info.original_length = Length(data)
       /\ e.name = item.href /\ e.data = Encipher(data, job.key, info.is_compressed)
  OBVIOUS
<1> HIDE DEF e, info
<1> QED BY <1>1, <1>2, <1>3, <1>4, <1>7, <1>8, <1>9, <1>10, <1>11

LEMMA DecryptResourceStep ==
    ASSUME TypeInv, DecryptResource
    PROVE  \E e \in Entries, d \in Data :
              /\ pc = "decrypt" /\ i \in DOMAIN infos /\ i' = i + 1
              /\ infos[i] \in EncryptedFileInfo
              /\ HasPath(src, infos[i].uri) /\ d = ByPath(src, infos[i].uri)
              /\ d.layers # << >> /\ ComesOff(d, job.key, infos[i].is_compressed)
              /\ e.name = infos[i].uri /\ e.data = Decipher(d)
              /\ ~ HasEntry(w, e.name) /\ w' = Append(w, e)
              /\ UNCHANGED << fs, pc, job, src, infos, runs, issued, result >>
<1> DEFINE d == ByPath(src, infos[i].uri)
           e == [name |-> infos[i].uri, data |-> Decipher(d)]
<1>1. infos[i] \in EncryptedFileInfo /\ i \in DOMAIN infos
  BY ElementOfSeq, LenProperties DEF DecryptResource, TypeInv, TypeOK
<1>2. /\ HasPath(src, infos[i].uri) /\ d \in Data
      /\ d.layers # << >> /\ ComesOff(d, job.key, infos[i].is_compressed)
  BY ByPathType DEF DecryptResource, ComesOff, TypeInv, TypeOK
<1>3. e \in Entries
  BY <1>1, <1>2, DecipherType DEF Entries, EncryptedFileInfo
<1>4. /\ pc = "decrypt" /\ ~ HasEntry(w, infos[i].uri) /\ w' = Append(w, e) /\ i' = i + 1
      /\ UNCHANGED << fs, pc, job, src, infos, runs, issued, result >>
  BY DEF DecryptResource, Startable, Write, Stay
<1>5. e.name = infos[i].uri /\ e.data = Decipher(d)
  OBVIOUS
<1> HIDE DEF e
<1> QED BY <1>1, <1>2, <1>3, <1>4, <1>5

LEMMA DecryptToNoiseStep ==
    ASSUME TypeInv, DecryptToNoise
    PROVE  \E e \in Entries :
              /\ pc = "decrypt" /\ i \in DOMAIN infos /\ i' = i + 1
              /\ infos[i] \in EncryptedFileInfo
              /\ HasPath(src, infos[i].uri) /\ ~ infos[i].is_compressed
              /\ ~ ComesOff(ByPath(src, infos[i].uri), job.key, FALSE)
              /\ e = Entry(infos[i].uri, Noise) /\ e.name = infos[i].uri
              /\ ~ HasEntry(w, e.name) /\ w' = Append(w, e)
              /\ UNCHANGED << fs, pc, job, src, infos, runs, issued, result >>
<1> DEFINE e == Entry(infos[i].uri, Noise)
<1>1. infos[i] \in EncryptedFileInfo /\ i \in DOMAIN infos
  BY ElementOfSeq, LenProperties DEF DecryptToNoise, TypeInv, TypeOK
<1>2. e \in Entries /\ e.name = infos[i].uri
  BY <1>1, NoiseType, EntryType DEF EncryptedFileInfo, Entry
<1>3. /\ pc = "decrypt" /\ ~ HasEntry(w, infos[i].uri) /\ w' = Append(w, e) /\ i' = i + 1
      /\ HasPath(src, infos[i].uri) /\ ~ infos[i].is_compressed
      /\ ~ ComesOff(ByPath(src, infos[i].uri), job.key, FALSE)
      /\ UNCHANGED << fs, pc, job, src, infos, runs, issued, result >>
  BY DEF DecryptToNoise, Startable, Write, Stay
<1> HIDE DEF e
<1> QED BY <1>1, <1>2, <1>3 DEF e

LEMMA CopyEntryStep ==
    ASSUME TypeInv, CopyEntry
    PROVE  /\ pc = "copy" /\ i \in DOMAIN src /\ i' = i + 1 /\ src[i] \in Entries
           /\ src[i].name \notin NotCopied
           /\ ~ HasEntry(w, src[i].name) /\ w' = Append(w, src[i])
           /\ UNCHANGED << fs, pc, job, src, infos, runs, issued, result >>
<1>1. src[i] \in Entries /\ i \in DOMAIN src
  BY SourceEntry, LenProperties DEF CopyEntry, TypeInv, TypeOK
<1> QED BY <1>1 DEF CopyEntry, Startable, Write, Stay

LEMMA WriteListingStep ==
    ASSUME TypeInv, WriteListing
    PROVE  \E e \in Entries :
              /\ pc = "listing" /\ job \in EncryptJobs
              /\ pc' = IF job.cmd = "encrypt" THEN "embed" ELSE "finish"
              /\ e = Entry(ENCRYPTION_FILE, WriteEncryptionXml(infos))
              /\ e.name = ENCRYPTION_FILE /\ e.data.layers = << >>
              /\ e.data.content = WriteEncryptionXml(infos)
              /\ ~ HasEntry(w, ENCRYPTION_FILE) /\ w' = Append(w, e)
              /\ UNCHANGED << fs, job, src, infos, runs, issued, result >>
<1> DEFINE e == Entry(ENCRYPTION_FILE, WriteEncryptionXml(infos))
<1>1. e \in Entries
  BY EntryType, FileNames, WriteEncryptionXmlType DEF TypeInv, TypeOK
<1>2. /\ e.name = ENCRYPTION_FILE /\ e.data.layers = << >>
      /\ e.data.content = WriteEncryptionXml(infos)
  BY DEF Entry
<1>3. /\ pc = "listing" /\ ~ HasEntry(w, ENCRYPTION_FILE) /\ w' = Append(w, e)
      /\ pc' = IF job.cmd = "encrypt" THEN "embed" ELSE "finish"
      /\ UNCHANGED << fs, job, src, infos, runs, issued, result >>
  BY DEF WriteListing, Startable, Write, Goto
<1>4. job \in EncryptJobs
  BY DEF WriteListing, TypeInv, TypeOK, DecryptPhases
<1> HIDE DEF e
<1> QED BY <1>1, <1>2, <1>3, <1>4 DEF e

LEMMA EmbedLicenseStep ==
    ASSUME TypeInv, NEW outcome, Embed(outcome)
    PROVE  \E e \in Entries :
              /\ pc = "embed" /\ job \in EncryptJobs /\ job.cmd = "encrypt"
              /\ NewLicense \in Licenses
              /\ e = Entry(LICENSE_FILE, [kind |-> "license", license |-> NewLicense])
              /\ e.name = LICENSE_FILE /\ e.data.layers = << >>
              /\ e.data.content.kind = "license" /\ e.data.content.license = NewLicense
              /\ ~ HasEntry(w, LICENSE_FILE) /\ Append(w, e) \in Seq(Entries)
              /\ Leave(Zip(Append(w, e))) /\ End(outcome) /\ issued' = issued
<1> DEFINE c == [kind |-> "license", license |-> NewLicense]
           e == Entry(LICENSE_FILE, c)
<1>1. pc = "embed" /\ job \in EncryptJobs /\ job.cmd = "encrypt"
  BY DEF Embed, TypeInv, TypeOK, EncryptPhases, DecryptPhases
<1>2. NewLicense \in Licenses
  BY <1>1, NewLicenseType, CoreAssumption DEF NewLicense, EncryptJobs, TypeInv, TypeOK
<1>3. c \in Contents /\ c.kind = "license" /\ c.license = NewLicense
  BY <1>2 DEF Contents
<1>4. ~ HasEntry(w, LICENSE_FILE) /\ Leave(Zip(Append(w, e))) /\ End(outcome) /\ issued' = issued
  BY DEF Embed, Startable
<1> HIDE DEF c
<1>5. e \in Entries
  BY <1>3, EntryType, FileNames
<1>6. e.name = LICENSE_FILE /\ e.data.layers = << >> /\ e.data.content = c
  BY DEF Entry
<1> HIDE DEF e
<1>7. Append(w, e) \in Seq(Entries)
  BY <1>5, WriteType DEF TypeInv
<1> QED BY <1>1, <1>2, <1>3, <1>4, <1>5, <1>6, <1>7 DEF e, c

----------------------------------------------------------------------------
(***************************************************************************)
(* Order is kept: with publications in order to start from, every archive  *)
(* that is read or written has each name once, documents that refer to     *)
(* files by their names, and no layer of a key that is yet to be drawn.    *)
(***************************************************************************)
OrderInv ==
    /\ \A p \in Paths : Sound(fs[p].entries, runs)
    /\ Sound(src, runs - 1)
    /\ Sound(w, runs)
    /\ \A k \in DOMAIN infos : Normal[infos[k].uri] = infos[k].uri
    /\ pc # "idle" => /\ runs # 0 /\ result = "running"
                      /\ job.cmd # "decrypt" => job.key = runs

LEMMA SoundEmpty == \A n : Sound(<< >>, n)
BY DEF Sound, Once

LEMMA SoundLater ==
    ASSUME NEW a, NEW n \in Int, Sound(a, n)
    PROVE  Sound(a, n + 1)
<1>1. ASSUME NEW m \in (n + 1 + 1)..MaxRuns PROVE m \in (n + 1)..MaxRuns
  BY CoreAssumption
<1> QED BY <1>1 DEF Sound, NoKeyAfter

LEMMA SoundAppend ==
    ASSUME NEW a \in Seq(Entries), NEW n, Sound(a, n), NEW e \in Entries,
           ~ HasEntry(a, e.name), Orderly(e), NoKeyAfter(e, n)
    PROVE  Sound(Append(a, e), n)
BY AppendEntries, ByNameAppend DEF Sound

LEMMA OrderlySame ==
    ASSUME NEW e, NEW f, Orderly(e), f.name = e.name, f.data.content = e.data.content
    PROVE  Orderly(f)
BY DEF Orderly

LEMMA SoundByPath ==
    ASSUME NEW a, NEW n, Sound(a, n), NEW p, HasPath(a, p)
    PROVE  \E k \in DOMAIN a : /\ a[k].name = Normal[p] /\ a[k].data = ByPath(a, p)
                              /\ Orderly(a[k]) /\ NoKeyAfter(a[k], n)
BY ByPathEntry DEF Sound

\* The paths an encryption run writes its resources under.
LEMMA ItemOrderly ==
    ASSUME NEW a \in Seq(Entries), NEW n, Sound(a, n), HasManifest(a),
           NEW k \in DOMAIN Manifest(a), NeedsEncryption(Opf(a), Manifest(a)[k])
    PROVE  /\ Normal[Manifest(a)[k].href] = Manifest(a)[k].href
           /\ Manifest(a)[k].href \in Names \ (PackageFiles \cup {CONTAINER_FILE})
<1> DEFINE root == ByPath(a, CONTAINER_FILE).content.rootfile
<1>1. HasPath(a, root) /\ Opf(a) = ByPath(a, root).content /\ Opf(a).kind = "opf"
  BY DEF HasManifest, Parses, Opf
<1> HIDE DEF root
<1>2. PICK j \in DOMAIN a : a[j].data = ByPath(a, root) /\ Orderly(a[j])
  BY <1>1, SoundByPath
<1>3. a[j].data.content = Opf(a)
  BY <1>1, <1>2
<1>4. Manifest(a) = Opf(a).manifest
  BY DEF Manifest
<1>5. /\ Normal[Manifest(a)[k].href] = Manifest(a)[k].href
      /\ Manifest(a)[k].href \notin PackageFiles \cup {CONTAINER_FILE}
  BY <1>1, <1>2, <1>3, <1>4 DEF Orderly
<1>6. Manifest(a)[k] \in ManifestItems
  BY ManifestType
<1>7. Manifest(a)[k].href \in Names
  BY <1>6, FileNames DEF NeedsEncryption, IsParsed, ManifestItems
<1> QED BY <1>5, <1>7

\* The paths a decryption run writes its resources under.
LEMMA ResourceOrderly ==
    ASSUME NEW a, NEW n, Sound(a, n), Parses(a, ENCRYPTION_FILE, "encryption"),
           NEW k \in DOMAIN EncryptedResources(a)
    PROVE  Normal[EncryptedResources(a)[k].uri] = EncryptedResources(a)[k].uri
<1> DEFINE c == ByPath(a, ENCRYPTION_FILE).content
<1>1. PICK j \in DOMAIN a : a[j].data = ByPath(a, ENCRYPTION_FILE) /\ Orderly(a[j])
  BY SoundByPath DEF Parses
<1>2. a[j].data.content = c /\ c.kind = "encryption"
  BY <1>1 DEF Parses
<1>3. \A m \in DOMAIN c.elements : Normal[c.elements[m].uri] = c.elements[m].uri
  BY <1>1, <1>2 DEF Orderly
<1>4. EncryptedResources(a) = [m \in DOMAIN c.elements |-> ParseEncryptedData(c.elements[m])]
  BY DEF EncryptedResources, ParseEncryptionXml
<1> HIDE DEF c
<1>5. k \in DOMAIN c.elements /\ EncryptedResources(a)[k].uri = c.elements[k].uri
  BY <1>4 DEF ParseEncryptedData
<1> QED BY <1>3, <1>5

LEMMA ListingOrderly ==
    ASSUME NEW list \in Seq(EncryptedFileInfo), NEW n,
           \A k \in DOMAIN list : Normal[list[k].uri] = list[k].uri
    PROVE  LET e == Entry(ENCRYPTION_FILE, WriteEncryptionXml(list))
           IN  e \in Entries /\ Orderly(e) /\ NoKeyAfter(e, n)
<1> DEFINE e == Entry(ENCRYPTION_FILE, WriteEncryptionXml(list))
<1>1. e \in Entries
  BY EntryType, FileNames, WriteEncryptionXmlType
<1>2. e.data.layers = << >> /\ e.data.content = WriteEncryptionXml(list)
  BY DEF Entry
<1> DEFINE elements == WriteEncryptionXml(list).elements
<1>3. /\ WriteEncryptionXml(list).kind = "encryption"
      /\ \A k \in DOMAIN elements : k \in DOMAIN list /\ elements[k].uri = list[k].uri
  BY DEF WriteEncryptionXml
<1> HIDE DEF e
<1>4. /\ e.data.content.kind = "encryption"
      /\ \A k \in DOMAIN e.data.content.elements :
            k \in DOMAIN list /\ e.data.content.elements[k].uri = list[k].uri
  BY <1>2, <1>3
<1>5. Orderly(e)
  BY <1>4 DEF Orderly
<1>6. NoKeyAfter(e, n)
  BY <1>2 DEF NoKeyAfter
<1> QED BY <1>1, <1>5, <1>6 DEF e

LEMMA PlainOrderly ==
    ASSUME NEW name \in Names, NEW content \in Contents,
           content.kind \in {"noise", "license"}, NEW n
    PROVE  /\ Entry(name, content) \in Entries /\ Orderly(Entry(name, content))
           /\ NoKeyAfter(Entry(name, content), n)
<1> DEFINE e == Entry(name, content)
<1>1. e \in Entries /\ e.data.layers = << >> /\ e.data.content = content
  BY EntryType DEF Entry
<1> HIDE DEF e
<1>2. Orderly(e) /\ NoKeyAfter(e, n)
  BY <1>1 DEF Orderly, NoKeyAfter
<1> QED BY <1>1, <1>2 DEF e

LEMMA OrderLeave ==
    ASSUME TypeOK, OrderInv, pc # "idle", NEW file, Sound(file.entries, runs), Leave(file)
    PROVE  \A p \in Paths : Sound(fs'[p].entries, runs)
<1>1. job.out \in Paths
  BY DEF TypeOK, EncryptJobs, DecryptJobs
<1> QED BY <1>1 DEF TypeOK, Leave, OrderInv

LEMMA OrderEnd ==
    ASSUME TypeOK, OrderInv, NEW outcome, End(outcome),
           \A p \in Paths : Sound(fs'[p].entries, runs)
    PROVE  OrderInv'
<1>1. /\ src' = << >> /\ w' = << >> /\ infos' = << >>
      /\ pc' = "idle" /\ runs' = runs
  BY DEF End
<1>2. Sound(src', runs' - 1) /\ Sound(w', runs')
  BY <1>1, SoundEmpty
<1>3. \A p \in Paths : Sound(fs'[p].entries, runs')
  BY <1>1
<1>4. \A k \in DOMAIN infos' : Normal[infos'[k].uri] = infos'[k].uri
  BY <1>1
<1> QED BY <1>1, <1>2, <1>3, <1>4 DEF OrderInv

LEMMA OrderBegin ==
    ASSUME TypeOK, OrderInv, NEW phase, NEW newJob, Begin(phase, newJob),
           newJob.in \in Paths, newJob.cmd # "decrypt" => newJob.key = runs + 1,
           fs' = fs \/ \E out \in Paths : Create(out)
    PROVE  OrderInv'
<1>1. runs \in Int /\ runs' = runs + 1 /\ runs' - 1 = runs /\ runs' # 0
  BY DEF Begin, TypeOK
<1>2. Sound(w', runs')
  BY <1>1, SoundLater DEF OrderInv, Begin
<1>3. Sound(src', runs' - 1)
  BY <1>1 DEF OrderInv, Begin
<1>4. ASSUME NEW p \in Paths PROVE Sound(fs'[p].entries, runs')
  <2>1. fs'[p] = fs[p] \/ fs'[p] = Torn
    BY DEF Create, TypeOK
  <2> QED BY <1>1, <2>1, SoundLater, SoundEmpty DEF OrderInv, Torn
<1> QED BY <1>1, <1>2, <1>3, <1>4 DEF OrderInv, Begin, Sound, NoKeyAfter

LEMMA OrderWrite ==
    ASSUME TypeOK, OrderInv, NEW e \in Entries, Write(e), Startable(e.name),
           Orderly(e), NoKeyAfter(e, runs), UNCHANGED << fs, src, runs, result, job >>,
           pc # "idle", \A k \in DOMAIN infos' : Normal[infos'[k].uri] = infos'[k].uri
    PROVE  OrderInv'
<1>1. Sound(w', runs)
  BY SoundAppend DEF TypeOK, OrderInv, Write, Startable
<1> QED BY <1>1 DEF OrderInv, Sound, NoKeyAfter

LEMMA OrderInvariant == ASSUME SourcesOrderly PROVE Spec => []OrderInv
<1>1. Init => OrderInv
  <2> SUFFICES ASSUME Init PROVE OrderInv
    OBVIOUS
  <2>1. ASSUME NEW p \in Paths PROVE Sound(fs[p].entries, 0)
    <3>1. fs[p] = Nothing \/ \E a \in Sources : fs[p] = Zip(a)
      BY DEF Init
    <3>2. Sound(Nothing.entries, 0)
      BY SoundEmpty DEF Nothing
    <3>3. ASSUME NEW a \in Sources PROVE Sound(Zip(a).entries, 0)
      BY SourcesOrderly DEF SourcesOrderly, Zip
    <3> QED BY <3>1, <3>2, <3>3
  <2> QED BY <2>1, SoundEmpty DEF Init, OrderInv
<1>2. TypeInv /\ OrderInv /\ [Next]_vars => OrderInv'
  <2> SUFFICES ASSUME TypeInv, OrderInv, [Next]_vars PROVE OrderInv'
    OBVIOUS
  <2> USE DEF TypeInv
  <2>0. Sound(w, runs) /\ runs \in Int /\ w \in Seq(Entries) /\ src \in Seq(Entries)
    BY DEF OrderInv, TypeOK
  <2>1. ASSUME NEW in \in Paths, NEW out \in Paths, NEW p \in Passphrases,
               NEW f \in Profiles, NEW c \in Credentials,
               BeginEncrypt(in, out, p, f, c) \/ BeginEncryptBytes(in, out, p, f, c)
        PROVE  OrderInv'
    <3> DEFINE J(cmd) == [cmd |-> cmd, in |-> in, out |-> out, key |-> runs + 1,
                          user_key |-> UserEncryptionKey(p, f), creds |-> c]
    <3>1. \E cmd \in {"encrypt", "encrypt_bytes"} : Begin("clone", J(cmd))
      BY <2>1 DEF BeginEncrypt, BeginEncryptBytes
    <3>2. fs' = fs \/ Create(out)
      BY <2>1 DEF BeginEncrypt, BeginEncryptBytes
    <3>3. \A cmd : J(cmd).in \in Paths /\ J(cmd).key = runs + 1
      OBVIOUS
    <3> HIDE DEF J
    <3> QED BY <3>1, <3>2, <3>3, OrderBegin
  <2>2. ASSUME NEW front \in {"lib", "ffi"}, NEW in \in Paths, NEW out \in Paths,
               NEW p \in Passphrases, NEW l \in Offered(front, in),
               BeginDecrypt(front, in, out, l, p)
        PROVE  OrderInv'
    <3> DEFINE key == DecryptContentKey(l, UserEncryptionKey(p, l.body.profile))
               newJob == [cmd |-> "decrypt", in |-> in, out |-> out, key |-> key]
    <3>1. Begin("resources", newJob) /\ Create(out)
      BY <2>2 DEF BeginDecrypt
    <3>2. newJob.in \in Paths /\ newJob.cmd = "decrypt"
      OBVIOUS
    <3> HIDE DEF newJob
    <3> QED BY <3>1, <3>2, OrderBegin
  <2>3. CASE RefuseToBegin
    <3>1. runs' = runs + 1 /\ runs' - 1 = runs /\ runs - 1 \in Int /\ runs - 1 + 1 = runs
      BY <2>0, <2>3 DEF RefuseToBegin
    <3>2. Sound(src, runs) /\ Sound(w, runs + 1)
      BY <2>0, <3>1, SoundLater DEF OrderInv
    <3>3. \A p \in Paths : Sound(fs[p].entries, runs + 1)
      BY <2>0, SoundLater DEF OrderInv
    <3> QED BY <2>3, <3>1, <3>2, <3>3 DEF RefuseToBegin, OrderInv, Sound, NoKeyAfter
  <2>4. CASE CloneMimetype
    <3>1. Sound(MimetypeOf(src), runs)
      <4>1. CASE ~ HasEntry(src, MIMETYPE)
        BY <4>1, SoundEmpty DEF MimetypeOf
      <4>2. CASE HasEntry(src, MIMETYPE)
        <5> DEFINE e == [name |-> MIMETYPE, data |-> ByName(src, MIMETYPE)]
        <5>1. PICK k \in DOMAIN src : src[k].name = MIMETYPE /\ src[k].data = e.data
          BY <4>2, ByNameEntry
        <5>2. Orderly(src[k]) /\ NoKeyAfter(src[k], runs - 1 + 1)
          BY <2>0, SoundLater DEF OrderInv, Sound
        <5>3. Orderly(e) /\ NoKeyAfter(e, runs)
          BY <2>0, <5>1, <5>2, OrderlySame DEF NoKeyAfter
        <5>4. MimetypeOf(src) = << e >>
          BY <4>2 DEF MimetypeOf
        <5> HIDE DEF e
        <5> QED BY <5>3, <5>4 DEF Sound, Once
      <4> QED BY <4>1, <4>2
    <3> QED BY <2>4, <3>1 DEF CloneMimetype, Goto, OrderInv, Sound, NoKeyAfter
  <2>5. CASE SkipEntry \/ EndCopy \/ SkipItem \/ EndEncrypt \/ EndDecrypt
    BY <2>5 DEF SkipEntry, EndCopy, SkipItem, EndEncrypt, EndDecrypt, Stay, Goto,
                OrderInv, Sound, NoKeyAfter
  <2>6. CASE CopyEntry
    <3>1. /\ pc = "copy" /\ i \in DOMAIN src /\ src[i] \in Entries
          /\ Write(src[i]) /\ Startable(src[i].name)
          /\ UNCHANGED << fs, pc, job, src, infos, runs, issued, result >>
      BY <2>6, CopyEntryStep DEF Write, Startable
    <3>2. Orderly(src[i]) /\ NoKeyAfter(src[i], runs)
      BY <2>0, <3>1, SoundLater DEF OrderInv, Sound
    <3> QED BY <3>1, <3>2, OrderWrite DEF OrderInv
  <2>7. CASE EncryptItem
    <3>1. PICK e \in Entries, info \in EncryptedFileInfo, d \in Data :
              /\ pc = "encrypt" /\ job \in EncryptJobs /\ HasManifest(src)
              /\ i \in DOMAIN Manifest(src)
              /\ NeedsEncryption(Opf(src), Manifest(src)[i])
              /\ info.uri = Manifest(src)[i].href
              /\ HasPath(src, info.uri) /\ d = ByPath(src, info.uri)
              /\ e.name = info.uri
              /\ e.data = Encipher(d, job.key, info.is_compressed)
              /\ ~ HasEntry(w, e.name)
              /\ w' = Append(w, e) /\ infos' = Append(infos, info)
              /\ UNCHANGED << fs, pc, job, src, runs, issued, result >>
      BY <2>7, EncryptItemStep
    <3>2. Normal[info.uri] = info.uri
      BY <2>0, <3>1, ItemOrderly DEF OrderInv
    <3>3. job.key = runs /\ [key |-> job.key, deflated |-> info.is_compressed] \in Layers
      BY <3>1 DEF OrderInv, EncryptJobs, EncryptedFileInfo, Layers
    <3>4. PICK k \in DOMAIN src :
              /\ src[k].name = info.uri /\ src[k].data = d
              /\ Orderly(src[k]) /\ NoKeyAfter(src[k], runs - 1)
      BY <3>1, <3>2, SoundByPath DEF OrderInv
    <3>5. /\ e.data.content = d.content
          /\ \A j \in DOMAIN e.data.layers :
                \/ j \in DOMAIN d.layers /\ e.data.layers[j] = d.layers[j]
                \/ e.data.layers[j].key = runs
      BY <3>1, <3>3, EncipherLayers
    <3>6. Orderly(e)
      BY <3>1, <3>4, <3>5, OrderlySame
    <3>7. NoKeyAfter(e, runs)
      <4>1. runs \notin (runs + 1)..MaxRuns
        BY <2>0
      <4>2. \A m : m \notin (runs - 1 + 1)..MaxRuns => m \notin (runs + 1)..MaxRuns
        BY <2>0, CoreAssumption
      <4> QED BY <3>4, <3>5, <4>1, <4>2 DEF NoKeyAfter
    <3>8. \A m \in DOMAIN infos' : Normal[infos'[m].uri] = infos'[m].uri
      <4>1. infos \in Seq(EncryptedFileInfo)
        BY DEF TypeOK
      <4> QED BY <3>1, <3>2, <4>1, AppendEntries DEF OrderInv
    <3> QED BY <3>1, <3>6, <3>7, <3>8, OrderWrite DEF Write, Startable
  <2>8. CASE WriteListing
    <3>1. PICK e \in Entries :
              /\ pc = "listing" /\ e = Entry(ENCRYPTION_FILE, WriteEncryptionXml(infos))
              /\ ~ HasEntry(w, e.name) /\ w' = Append(w, e)
              /\ UNCHANGED << fs, job, src, infos, runs, issued, result >>
      BY <2>8, WriteListingStep
    <3>2. Orderly(e) /\ NoKeyAfter(e, runs)
      BY <3>1, ListingOrderly DEF OrderInv, TypeOK
    <3> QED BY <3>1, <3>2, OrderWrite DEF Write, Startable, OrderInv
  <2>9. ASSUME NEW outcome, Embed(outcome) PROVE OrderInv'
    <3>1. PICK e \in Entries :
              /\ pc = "embed" /\ e.name = LICENSE_FILE
              /\ e.data.layers = << >> /\ e.data.content.kind = "license"
              /\ ~ HasEntry(w, LICENSE_FILE)
              /\ Leave(Zip(Append(w, e))) /\ End(outcome)
      BY <2>9, EmbedLicenseStep
    <3>2. Orderly(e) /\ NoKeyAfter(e, runs)
      BY <3>1 DEF Orderly, NoKeyAfter
    <3>3. Sound(Append(w, e), runs)
      BY <2>0, <3>1, <3>2, SoundAppend
    <3>4. Zip(Append(w, e)).entries = Append(w, e)
      BY DEF Zip
    <3> QED BY <3>1, <3>3, <3>4, OrderLeave, OrderEnd
  <2>10. CASE FinishBytes
    <3>1. \A p \in Paths : Sound(fs'[p].entries, runs)
      BY <2>10, <2>0 DEF FinishBytes, OrderInv, TypeOK, Zip
    <3> QED BY <2>10, <3>1, OrderEnd DEF FinishBytes
  <2>11. CASE ReadResources
    <3>1. \A k \in DOMAIN infos' : Normal[infos'[k].uri] = infos'[k].uri
      BY <2>11, ResourceOrderly DEF ReadResources, OrderInv
    <3> QED BY <2>11, <3>1 DEF ReadResources, Goto, OrderInv, Sound, NoKeyAfter
  <2>12. CASE DecryptResource
    <3>1. PICK e \in Entries, d \in Data :
              /\ pc = "decrypt" /\ i \in DOMAIN infos
              /\ HasPath(src, infos[i].uri) /\ d = ByPath(src, infos[i].uri)
              /\ d.layers # << >>
              /\ e.name = infos[i].uri /\ e.data = Decipher(d)
              /\ ~ HasEntry(w, e.name) /\ w' = Append(w, e)
              /\ UNCHANGED << fs, pc, job, src, infos, runs, issued, result >>
      BY <2>12, DecryptResourceStep
    <3>2. PICK k \in DOMAIN src :
              /\ src[k].name = e.name /\ src[k].data = d
              /\ Orderly(src[k]) /\ NoKeyAfter(src[k], runs - 1)
      BY <3>1, SoundByPath DEF OrderInv
    <3>3. /\ e.data.content = d.content
          /\ \A j \in DOMAIN e.data.layers :
                j \in DOMAIN d.layers /\ e.data.layers[j] = d.layers[j]
      BY <3>1, DecipherLayers
    <3>4. Orderly(e)
      BY <3>2, <3>3, OrderlySame
    <3>5. NoKeyAfter(e, runs)
      <4>1. \A m : m \notin (runs - 1 + 1)..MaxRuns => m \notin (runs + 1)..MaxRuns
        BY <2>0, CoreAssumption
      <4> QED BY <3>2, <3>3, <4>1 DEF NoKeyAfter
    <3> QED BY <3>1, <3>4, <3>5, OrderWrite DEF Write, Startable, OrderInv
  <2>13. CASE DecryptToNoise
    <3>1. PICK e \in Entries :
              /\ pc = "decrypt" /\ infos[i] \in EncryptedFileInfo
              /\ e = Entry(infos[i].uri, Noise)
              /\ ~ HasEntry(w, e.name) /\ w' = Append(w, e)
              /\ UNCHANGED << fs, pc, job, src, infos, runs, issued, result >>
      BY <2>13, DecryptToNoiseStep
    <3>2. Orderly(e) /\ NoKeyAfter(e, runs)
      BY <3>1, NoiseType, PlainOrderly DEF EncryptedFileInfo, Noise
    <3> QED BY <3>1, <3>2, OrderWrite DEF Write, Startable, OrderInv
  <2>14. CASE FinishDecrypt \/ ReturnError
    <3>1. pc # "idle" /\ Leave(Zip(w)) /\ Zip(w).entries = w
      BY <2>14 DEF FinishDecrypt, ReturnError, Error, Zip
    <3> QED BY <2>14, <2>0, <3>1, OrderLeave, OrderEnd DEF FinishDecrypt, ReturnError
  <2>15. CASE IoError
    <3>1. ASSUME NEW n \in Names, Startable(n) 
          PROVE  Sound(Zip(Append(w, Entry(n, Noise))).entries, runs)
      <4>1. Entry(n, Noise).name = n
        BY DEF Entry
      <4>2. /\ Entry(n, Noise) \in Entries /\ Orderly(Entry(n, Noise))
            /\ NoKeyAfter(Entry(n, Noise), runs)
        BY NoiseType, PlainOrderly DEF Noise
      <4>3. Sound(Append(w, Entry(n, Noise)), runs)
        BY <2>0, <3>1, <4>1, <4>2, SoundAppend DEF Startable
      <4> QED BY <4>3 DEF Zip
    <3>2. Sound(Zip(w).entries, runs) /\ Sound(Torn.entries, runs)
      BY <2>0, SoundEmpty DEF Zip, Torn
    <3>3. ASSUME NEW left \in {Torn, Zip(w)} \cup
                     {Zip(Append(w, Entry(n, Noise))) : n \in {p \in Pending : Startable(p)}}
          PROVE  Sound(left.entries, runs)
      BY <3>1, <3>2 DEF Pending
    <3> QED BY <2>15, <3>3, OrderLeave, OrderEnd DEF IoError
  <2>16. CASE Kill
    <3>1. Sound(Torn.entries, runs)
      BY SoundEmpty DEF Torn
    <3> QED BY <2>16, <3>1, OrderLeave, OrderEnd DEF Kill
  <2>17. CASE UNCHANGED vars
    BY <2>17 DEF vars, OrderInv, Sound, NoKeyAfter
  <2> QED
    BY <2>1, <2>2, <2>3, <2>4, <2>5, <2>6, <2>7, <2>8, <2>9, <2>10, <2>11, <2>12,
       <2>13, <2>14, <2>15, <2>16, <2>17
    DEF Next, Start, Step, EmbedLicense, FinishFails
<1> QED BY <1>1, <1>2, TypeInvariant, PTL DEF Spec

----------------------------------------------------------------------------
(***************************************************************************)
(* An encrypting run.  Once the mimetype is cloned, what the run has       *)
(* written is: entries of the input that are not to be enciphered, one     *)
(* enciphered entry for each element of encrypted_files, and in the end    *)
(* encryption.xml; and nothing it has passed by is missing.                *)
(***************************************************************************)
Encrypting ==
    pc \in {"copy", "encrypt", "listing", "embed", "finish"} /\ job.cmd # "decrypt"

NotCloned(archive) ==
    {MIMETYPE, ENCRYPTION_FILE, LICENSE_FILE} \cup FilesToEncrypt(archive)

Kept(archive, entry) ==
    /\ \E k \in DOMAIN archive : archive[k] = entry
    /\ entry.name = MIMETYPE \/ entry.name \notin NotCloned(archive)

Locked(archive, list, key, entry) ==
    \E m \in DOMAIN list :
       /\ entry.name = list[m].uri
       /\ entry.data = Encipher(ByPath(archive, list[m].uri), key, list[m].is_compressed)

Listing(list) == Entry(ENCRYPTION_FILE, WriteEncryptionXml(list))

CopiedSoFar == IF pc = "copy" THEN 1..(i - 1) ELSE DOMAIN src
ItemsSoFar ==
    IF pc = "copy" THEN {} ELSE IF pc = "encrypt" THEN 1..(i - 1) ELSE DOMAIN Manifest(src)

NothingYet ==
    pc \in {"idle", "clone", "resources"} => w = << >> /\ infos = << >> /\ i = 1

NothingElse ==
    \A j \in DOMAIN w :
       \/ Kept(src, w[j])
       \/ Locked(src, infos, job.key, w[j])
       \/ pc \in {"embed", "finish"} /\ w[j] = Listing(infos)

AllCloned ==
    /\ \A k \in CopiedSoFar : src[k].name \notin NotCloned(src) => HasEntry(w, src[k].name)
    /\ HasEntry(src, MIMETYPE) => w # << >> /\ w[1].name = MIMETYPE

ItemsLocked ==
    \A m \in DOMAIN infos :
       /\ infos[m].uri \in FilesToEncrypt(src) \ {MIMETYPE}
       /\ HasPath(src, infos[m].uri) /\ HasEntry(w, infos[m].uri)
       /\ infos[m].original_length = Length(ByPath(src, infos[m].uri))
       /\ \A n \in DOMAIN infos : infos[m].uri = infos[n].uri => m = n

AllItems ==
    \A k \in ItemsSoFar :
       NeedsEncryption(Opf(src), Manifest(src)[k]) =>
          \E m \in DOMAIN infos : infos[m].uri = Manifest(src)[k].href

ListingLast ==
    /\ pc = "copy" => infos = << >>
    /\ pc \in {"embed", "finish"} =>
          /\ \E j \in DOMAIN w : w[j] = Listing(infos)
          /\ \A m \in DOMAIN infos : infos[m].uri # ENCRYPTION_FILE

EncryptInv ==
    /\ NothingYet
    /\ Encrypting => /\ HasManifest(src) /\ NothingElse /\ AllCloned
                     /\ ItemsLocked /\ AllItems /\ ListingLast

LEMMA EncryptEnd ==
    ASSUME NEW outcome, End(outcome)
    PROVE  EncryptInv'
BY DEF End, EncryptInv, NothingYet, Encrypting

LEMMA EncryptInvariant == Spec => []EncryptInv
<1>1. Init => EncryptInv
  BY DEF Init, EncryptInv, NothingYet, Encrypting
<1>2. TypeInv /\ EncryptInv /\ [Next]_vars => EncryptInv'
  <2> SUFFICES ASSUME TypeInv, EncryptInv, [Next]_vars PROVE EncryptInv'
    OBVIOUS
  <2>0. /\ w \in Seq(Entries) /\ src \in Seq(Entries) /\ i \in Nat \ {0}
        /\ infos \in Seq(EncryptedFileInfo)
        /\ DOMAIN src = 1..Len(src) /\ Len(src) \in Nat
    BY LenProperties DEF TypeInv, TypeOK
  <2>1. ASSUME NEW phase, NEW newJob, phase \in {"clone", "resources"}, Begin(phase, newJob)
        PROVE  EncryptInv'
    BY <2>1 DEF Begin, EncryptInv, NothingYet, Encrypting
  <2>2. CASE \E in, out \in Paths, p \in Passphrases, f \in Profiles, c \in Credentials :
                BeginEncrypt(in, out, p, f, c) \/ BeginEncryptBytes(in, out, p, f, c)
    BY <2>1, <2>2 DEF BeginEncrypt, BeginEncryptBytes
  <2>3. CASE \E front \in {"lib", "ffi"}, in, out \in Paths, p \in Passphrases :
                \E l \in Offered(front, in) : BeginDecrypt(front, in, out, l, p)
    BY <2>1, <2>3 DEF BeginDecrypt
  <2>4. CASE RefuseToBegin
    BY <2>4 DEF RefuseToBegin, EncryptInv, NothingYet, Encrypting
  <2>5. CASE CloneMimetype
    <3>1. /\ pc = "clone" /\ pc' = "copy" /\ i' = 1 /\ w' = MimetypeOf(src) /\ HasManifest(src)
          /\ infos' = << >> /\ UNCHANGED << src, job >>
      BY <2>5 DEF CloneMimetype, Goto, EncryptInv, NothingYet
    <3>2. CASE HasEntry(src, MIMETYPE)
      <4>1. PICK k \in DOMAIN src : src[k].name = MIMETYPE /\ ByName(src, MIMETYPE) = src[k].data
        BY <3>2, ByNameEntry
      <4>2. src[k] \in Entries
        BY <2>0
      <4>3. w' = << src[k] >>
        BY <3>1, <3>2, <4>1, <4>2 DEF MimetypeOf, Entries
      <4>4. NothingElse' /\ AllCloned'
        BY <3>1, <4>1, <4>3 DEF NothingElse, AllCloned, CopiedSoFar, Kept
      <4> QED BY <3>1, <4>4
              DEF EncryptInv, NothingYet, ItemsLocked, AllItems, ItemsSoFar, ListingLast
    <3>3. CASE ~ HasEntry(src, MIMETYPE)
      <4>1. w' = << >>
        BY <3>1, <3>3 DEF MimetypeOf
      <4>2. NothingElse' /\ AllCloned'
        BY <3>1, <3>3, <4>1 DEF NothingElse, AllCloned, CopiedSoFar
      <4> QED BY <3>1, <4>2
              DEF EncryptInv, NothingYet, ItemsLocked, AllItems, ItemsSoFar, ListingLast
    <3> QED BY <3>2, <3>3
  <2>6. ASSUME job.cmd = "decrypt", job' = job,
               pc' \in {"decrypt", "copy", "finish"}
        PROVE  EncryptInv'
    BY <2>6 DEF EncryptInv, NothingYet, Encrypting
  <2>7. CASE ReadResources \/ DecryptResource \/ DecryptToNoise \/ EndDecrypt
    <3>1. pc \in {"resources", "decrypt"} /\ pc' \in {"decrypt", "copy"} /\ job' = job
      BY <2>7 DEF ReadResources, DecryptResource, DecryptToNoise, EndDecrypt, Goto, Stay
    <3>2. job.cmd = "decrypt"
      BY <3>1 DEF TypeInv, TypeOK, EncryptPhases, DecryptJobs
    <3> QED BY <2>6, <3>1, <3>2
  <2>8. CASE SkipEntry
    <3>1. /\ pc = "copy" /\ i \in DOMAIN src /\ i' = i + 1 /\ src[i].name \in NotCopied
          /\ UNCHANGED << pc, job, src, w, infos >>
      BY <2>0, <2>8 DEF SkipEntry, Stay
    <3>2. CASE job.cmd = "decrypt"
      BY <2>6, <3>1, <3>2
    <3>3. CASE job.cmd # "decrypt"
      <4>1. src[i].name \in NotCloned(src)
        BY <3>1, <3>3 DEF NotCopied, NotCloned
      <4>2. CopiedSoFar' = CopiedSoFar \cup {i}
        BY <2>0, <3>1 DEF CopiedSoFar
      <4>3. AllCloned'
        BY <3>1, <3>3, <4>1, <4>2 DEF EncryptInv, Encrypting, AllCloned
      <4> QED BY <3>1, <3>3, <4>3
              DEF EncryptInv, Encrypting, NothingYet, NothingElse, ItemsLocked, AllItems,
                  ItemsSoFar, ListingLast
    <3> QED BY <3>2, <3>3
  <2>9. CASE CopyEntry
    <3>1. /\ pc = "copy" /\ i \in DOMAIN src /\ i' = i + 1 /\ src[i] \in Entries
          /\ src[i].name \notin NotCopied /\ w' = Append(w, src[i])
          /\ UNCHANGED << pc, job, src, infos >>
      BY <2>9, CopyEntryStep
    <3>2. CASE job.cmd = "decrypt"
      BY <2>6, <3>1, <3>2
    <3>3. CASE job.cmd # "decrypt"
      <4>0. /\ NothingElse /\ AllCloned /\ ItemsLocked /\ AllItems /\ ListingLast
            /\ HasManifest(src)
        BY <3>1, <3>3 DEF EncryptInv, Encrypting
      <4>1. Kept(src, src[i])
        BY <3>1, <3>3 DEF NotCopied, NotCloned, Kept
      <4>2. NothingElse'
        BY <2>0, <3>1, <4>0, <4>1, AppendEntries DEF NothingElse
      <4>3. CopiedSoFar' = CopiedSoFar \cup {i}
        BY <2>0, <3>1 DEF CopiedSoFar
      <4>4. \A n : HasEntry(w', n) <=> HasEntry(w, n) \/ n = src[i].name
        BY <2>0, <3>1, HasEntryAppend
      <4>5. w # << >> => w' # << >> /\ w'[1] = w[1]
        BY <2>0, <3>1, AppendProperties, EmptySeq
      <4>6. AllCloned'
        BY <3>1, <4>0, <4>3, <4>4, <4>5 DEF AllCloned
      <4>7. ItemsLocked'
        BY <3>1, <4>0, <4>4 DEF ItemsLocked
      <4> QED BY <3>1, <4>0, <4>2, <4>6, <4>7
              DEF EncryptInv, NothingYet, AllItems, ItemsSoFar, ListingLast
    <3> QED BY <3>2, <3>3
  <2>10. CASE EndCopy
    <3>1. /\ pc = "copy" /\ i > Len(src) /\ i' = 1
          /\ pc' = IF job.cmd = "decrypt" THEN "finish" ELSE "encrypt"
          /\ UNCHANGED << job, src, w, infos >>
      BY <2>10 DEF EndCopy, Goto
    <3>2. CASE job.cmd = "decrypt"
      BY <2>6, <3>1, <3>2
    <3>3. CASE job.cmd # "decrypt"
      <4>1. CopiedSoFar' \subseteq CopiedSoFar
        BY <2>0, <3>1, <3>3 DEF CopiedSoFar
      <4>2. AllItems'
        BY <3>1, <3>3 DEF AllItems, ItemsSoFar
      <4> QED BY <3>1, <3>3, <4>1, <4>2
              DEF EncryptInv, Encrypting, NothingYet, NothingElse, AllCloned, ItemsLocked,
                  ListingLast
    <3> QED BY <3>2, <3>3
  <2>11. CASE SkipItem \/ EndEncrypt
    <3>1. pc = "encrypt" /\ job.cmd # "decrypt"
      BY <2>11 DEF SkipItem, EndEncrypt, TypeInv, TypeOK, DecryptPhases, EncryptJobs
    <3>2. HasManifest(src)
      BY <3>1 DEF EncryptInv, Encrypting
    <3>3. DOMAIN Manifest(src) = 1..Len(Manifest(src)) /\ Len(Manifest(src)) \in Nat
      BY <2>0, <3>2, ManifestType, LenProperties
    <3>4. UNCHANGED << job, src, w, infos >> /\ pc' \in {"encrypt", "listing"}
      BY <2>11, <3>1 DEF SkipItem, EndEncrypt, Stay, Goto
    <3>5. ASSUME NEW k \in ItemsSoFar'
          PROVE  k \in ItemsSoFar \/ ~ NeedsEncryption(Opf(src), Manifest(src)[k])
      BY <2>0, <2>11, <3>1, <3>3, <3>5 DEF SkipItem, EndEncrypt, Stay, Goto, ItemsSoFar
    <3>6. AllItems'
      BY <3>1, <3>4, <3>5 DEF EncryptInv, Encrypting, AllItems
    <3> QED BY <3>1, <3>4, <3>6
            DEF EncryptInv, Encrypting, NothingYet, NothingElse, AllCloned, CopiedSoFar,
                ItemsLocked, ListingLast
  <2>12. CASE EncryptItem
    <3>1. PICK e \in Entries, info \in EncryptedFileInfo, d \in Data :
              /\ pc = "encrypt" /\ job \in EncryptJobs
              /\ i \in DOMAIN Manifest(src) /\ i' = i + 1
              /\ NeedsEncryption(Opf(src), Manifest(src)[i])
              /\ info.uri = Manifest(src)[i].href
              /\ HasPath(src, info.uri) /\ d = ByPath(src, info.uri)
              /\ info.original_length = Length(d)
              /\ e.name = info.uri
              /\ e.data = Encipher(d, job.key, info.is_compressed)
              /\ ~ HasEntry(w, e.name)
              /\ w' = Append(w, e) /\ infos' = Append(infos, info)
              /\ UNCHANGED << fs, pc, job, src, runs, issued, result >>
      BY <2>12, EncryptItemStep
    <3>2. job.cmd # "decrypt"
      BY <3>1 DEF EncryptJobs
    <3>3. /\ NothingElse /\ AllCloned /\ ItemsLocked /\ AllItems /\ HasManifest(src)
      BY <3>1, <3>2 DEF EncryptInv, Encrypting
    <3>4. info.uri \in FilesToEncrypt(src)
      BY <3>1 DEF FilesToEncrypt
    <3>5. info.uri # MIMETYPE
      <4>1. SUFFICES ASSUME info.uri = MIMETYPE PROVE FALSE
        OBVIOUS
      <4>2. HasEntry(src, MIMETYPE)
        BY <3>1, <4>1, FixedNames DEF HasPath
      <4>3. 1 \in DOMAIN w /\ w[1].name = MIMETYPE
        BY <2>0, <3>3, <4>2, LenProperties, EmptySeq DEF AllCloned
      <4> QED BY <3>1, <4>1, <4>3 DEF HasEntry
    <3>6. /\ DOMAIN infos' = DOMAIN infos \cup {Len(infos) + 1}
          /\ Len(infos) + 1 \notin DOMAIN infos
          /\ \A k \in DOMAIN infos : infos'[k] = infos[k]
          /\ infos'[Len(infos) + 1] = info
      BY <2>0, <3>1, AppendEntries
    <3>7. /\ DOMAIN w' = DOMAIN w \cup {Len(w) + 1}
          /\ \A k \in DOMAIN w : w'[k] = w[k]
          /\ w'[Len(w) + 1] = e
      BY <2>0, <3>1, AppendEntries
    <3>8. \A n : HasEntry(w', n) <=> HasEntry(w, n) \/ n = info.uri
      BY <2>0, <3>1, HasEntryAppend
    <3>9. NothingElse'
      <4>1. Locked(src, infos', job.key, e)
        BY <3>1, <3>6 DEF Locked
      <4>2. \A f : Locked(src, infos, job.key, f) => Locked(src, infos', job.key, f)
        BY <3>6 DEF Locked
      <4> QED BY <3>1, <3>3, <3>7, <4>1, <4>2 DEF NothingElse
    <3>10. AllCloned'
      <4>1. w # << >> => w' # << >> /\ w'[1] = w[1]
        BY <2>0, <3>1, AppendProperties, EmptySeq
      <4> QED BY <3>1, <3>3, <3>8, <4>1 DEF AllCloned, CopiedSoFar
    <3>11. ItemsLocked'
      BY <3>1, <3>3, <3>4, <3>5, <3>6, <3>8 DEF ItemsLocked
    <3>12. ItemsSoFar' = ItemsSoFar \cup {i}
      BY <2>0, <3>1 DEF ItemsSoFar
    <3>13. AllItems'
      BY <3>1, <3>3, <3>6, <3>12 DEF AllItems
    <3> QED BY <3>1, <3>3, <3>9, <3>10, <3>11, <3>13
            DEF EncryptInv, NothingYet, ListingLast
  <2>13. CASE WriteListing
    <3>1. PICK e \in Entries :
              /\ pc = "listing" /\ job \in EncryptJobs
              /\ pc' = IF job.cmd = "encrypt" THEN "embed" ELSE "finish"
              /\ e = Entry(ENCRYPTION_FILE, WriteEncryptionXml(infos))
              /\ e.name = ENCRYPTION_FILE
              /\ ~ HasEntry(w, ENCRYPTION_FILE) /\ w' = Append(w, e)
              /\ UNCHANGED << fs, job, src, infos, runs, issued, result >>
      BY <2>13, WriteListingStep
    <3>2. job.cmd # "decrypt"
      BY <3>1 DEF EncryptJobs
    <3>3. /\ NothingElse /\ AllCloned /\ ItemsLocked /\ AllItems /\ HasManifest(src)
      BY <3>1, <3>2 DEF EncryptInv, Encrypting
    <3>4. /\ DOMAIN w' = DOMAIN w \cup {Len(w) + 1}
          /\ \A k \in DOMAIN w : w'[k] = w[k]
          /\ w'[Len(w) + 1] = e
      BY <2>0, <3>1, AppendEntries
    <3>5. \A n : HasEntry(w', n) <=> HasEntry(w, n) \/ n = e.name
      BY <2>0, <3>1, HasEntryAppend
    <3>6. e = Listing(infos)
      BY <3>1 DEF Listing
    <3>7. NothingElse'
      BY <3>1, <3>3, <3>4, <3>6 DEF NothingElse
    <3>8. AllCloned'
      <4>1. w # << >> => w' # << >> /\ w'[1] = w[1]
        BY <2>0, <3>1, AppendProperties, EmptySeq
      <4> QED BY <3>1, <3>3, <3>5, <4>1 DEF AllCloned, CopiedSoFar
    <3>9. ItemsLocked' /\ AllItems'
      BY <3>1, <3>3, <3>5 DEF ItemsLocked, AllItems, ItemsSoFar
    <3>10. ListingLast'
      BY <3>1, <3>3, <3>4, <3>6 DEF ListingLast, ItemsLocked
    <3> QED BY <3>1, <3>3, <3>7, <3>8, <3>9, <3>10 DEF EncryptInv, NothingYet
  <2>14. CASE \/ EmbedLicense \/ FinishBytes \/ FinishDecrypt
              \/ ReturnError \/ IoError \/ FinishFails \/ Kill
    BY <2>14, EncryptEnd
    DEF EmbedLicense, FinishFails, Embed, FinishBytes, FinishDecrypt, ReturnError,
        IoError, Kill
  <2>15. CASE UNCHANGED vars
    BY <2>15 DEF vars, EncryptInv, NothingYet, Encrypting, NothingElse, AllCloned,
                 CopiedSoFar, ItemsLocked, AllItems, ItemsSoFar, ListingLast
  <2> QED
    BY <2>2, <2>3, <2>4, <2>5, <2>7, <2>8, <2>9, <2>10, <2>11, <2>12, <2>13, <2>14, <2>15
    DEF Next, Start, Step
<1> QED BY <1>1, <1>2, TypeInvariant, PTL DEF Spec

----------------------------------------------------------------------------
(***************************************************************************)
(* A decrypting run.  What it has written is, for each element of          *)
(* encryption.xml it has come to, the resource with a layer off or noise,  *)
(* and entries of the input it has come to that are not to be left out;    *)
(* and nothing it has come to is missing.                                  *)
(***************************************************************************)
Decrypting == pc \in {"decrypt", "copy", "finish"} /\ job.cmd = "decrypt"

DoneSoFar == {m \in DOMAIN infos : pc = "decrypt" => m < i}
PassedSoFar == {k \in DOMAIN src : pc # "decrypt" /\ (pc = "copy" => k < i)}

Unlocked(archive, info, key, entry) ==
    /\ entry.name = info.uri
    /\ HasPath(archive, info.uri)
    /\ ComesOff(ByPath(archive, info.uri), key, info.is_compressed)
    /\ entry.data = Decipher(ByPath(archive, info.uri))

Garbled(archive, info, key, entry) ==
    /\ entry = Entry(info.uri, Noise)
    /\ HasPath(archive, info.uri)
    /\ ~ ComesOff(ByPath(archive, info.uri), key, FALSE)
    /\ ~ info.is_compressed

Done(archive, list, indices, key, entry) ==
    \E m \in indices :
       \/ Unlocked(archive, list[m], key, entry)
       \/ Garbled(archive, list[m], key, entry)

Passed(archive, indices, leftOut, entry) ==
    \E k \in indices : archive[k] = entry /\ entry.name \notin leftOut

DecryptInv ==
    Decrypting =>
        /\ Parses(src, ENCRYPTION_FILE, "encryption")
        /\ infos = EncryptedResources(src)
        /\ \A j \in DOMAIN w :
              \/ Done(src, infos, DoneSoFar, job.key, w[j])
              \/ Passed(src, PassedSoFar, NotCopied, w[j])
        /\ \A m \in DoneSoFar : HasEntry(w, infos[m].uri)
        /\ \A k \in PassedSoFar :
              src[k].name \notin NotCopied => HasEntry(w, src[k].name)

LEMMA DecryptInvariant == Spec => []DecryptInv
<1>1. Init => DecryptInv
  BY DEF Init, DecryptInv, Decrypting
<1>2. TypeInv /\ EncryptInv /\ DecryptInv /\ [Next]_vars => DecryptInv'
  <2> SUFFICES ASSUME TypeInv, EncryptInv, DecryptInv, [Next]_vars PROVE DecryptInv'
    OBVIOUS
  <2>0. /\ w \in Seq(Entries) /\ src \in Seq(Entries) /\ i \in Nat \ {0}
        /\ infos \in Seq(EncryptedFileInfo)
        /\ DOMAIN src = 1..Len(src) /\ Len(src) \in Nat
        /\ DOMAIN infos = 1..Len(infos) /\ Len(infos) \in Nat
    BY LenProperties DEF TypeInv, TypeOK
  <2>1. ASSUME pc' \notin {"decrypt", "copy", "finish"} \/ job'.cmd # "decrypt"
        PROVE  DecryptInv'
    BY <2>1 DEF DecryptInv, Decrypting
  <2>2. CASE \/ Start \/ EmbedLicense \/ FinishBytes \/ FinishDecrypt
             \/ ReturnError \/ IoError \/ FinishFails \/ Kill
    <3>1. CASE RefuseToBegin
      BY <2>1, <3>1 DEF RefuseToBegin
    <3>2. CASE Start /\ ~ RefuseToBegin
      <4>1. pc' \in {"clone", "resources"}
        BY <3>2 DEF Start, BeginEncrypt, BeginEncryptBytes, BeginDecrypt, Begin
      <4> QED BY <2>1, <4>1
    <3>3. CASE \/ EmbedLicense \/ FinishBytes \/ FinishDecrypt
               \/ ReturnError \/ IoError \/ FinishFails \/ Kill
      <4>1. pc' = "idle"
        BY <3>3 DEF EmbedLicense, FinishFails, Embed, FinishBytes, FinishDecrypt,
                    ReturnError, IoError, Kill, End
      <4> QED BY <2>1, <4>1
    <3> QED BY <2>2, <3>1, <3>2, <3>3
  <2>3. CASE CloneMimetype \/ SkipItem \/ EncryptItem \/ EndEncrypt \/ WriteListing
    <3>1. pc \in {"clone", "encrypt", "listing"} /\ job' = job
      BY <2>3 DEF CloneMimetype, SkipItem, EncryptItem, EndEncrypt, WriteListing, Goto, Stay
    <3>2. job.cmd # "decrypt"
      BY <3>1 DEF TypeInv, TypeOK, EncryptJobs, DecryptPhases
    <3> QED BY <2>1, <3>1, <3>2
  <2>4. CASE ReadResources
    <3>1. /\ pc = "resources" /\ pc' = "decrypt" /\ i' = 1 /\ w' = w /\ src' = src
          /\ Parses(src, ENCRYPTION_FILE, "encryption")
          /\ infos' = EncryptedResources(src)
      BY <2>4 DEF ReadResources, Goto
    <3>2. w' = << >>
      BY <3>1 DEF EncryptInv, NothingYet
    <3>3. infos' \in Seq(EncryptedFileInfo)
      BY <2>0, <3>1, EncryptedResourcesType
    <3>4. DoneSoFar' = {} /\ PassedSoFar' = {}
      BY <3>1, <3>3, LenProperties DEF DoneSoFar, PassedSoFar
    <3> QED BY <3>1, <3>2, <3>4 DEF DecryptInv
  <2>5. ASSUME NEW e \in Entries,
               pc = "decrypt", i \in DOMAIN infos, i' = i + 1, w' = Append(w, e),
               e.name = infos[i].uri, UNCHANGED << pc, job, src, infos >>,
               \/ Unlocked(src, infos[i], job.key, e)
               \/ Garbled(src, infos[i], job.key, e)
        PROVE  DecryptInv'
    <3>1. job.cmd = "decrypt"
      BY <2>5 DEF TypeInv, TypeOK, EncryptPhases, DecryptJobs
    <3>2. /\ Parses(src, ENCRYPTION_FILE, "encryption") /\ infos = EncryptedResources(src)
          /\ \A j \in DOMAIN w : Done(src, infos, DoneSoFar, job.key, w[j])
          /\ \A m \in DoneSoFar : HasEntry(w, infos[m].uri)
      BY <2>0, <2>5, <3>1 DEF DecryptInv, Decrypting, Passed, PassedSoFar
    <3>3. DoneSoFar' = DoneSoFar \cup {i} /\ PassedSoFar = {} /\ PassedSoFar' = {}
      BY <2>0, <2>5 DEF DoneSoFar, PassedSoFar
    <3>4. /\ Done(src, infos, DoneSoFar', job.key, e)
          /\ \A f : Done(src, infos, DoneSoFar, job.key, f)
                      => Done(src, infos, DoneSoFar', job.key, f)
      BY <2>5, <3>3 DEF Done
    <3>5. \A j \in DOMAIN w' : Done(src, infos, DoneSoFar', job.key, w'[j])
      BY <2>0, <2>5, <3>2, <3>4, AppendEntries
    <3>6. \A m \in DoneSoFar' : HasEntry(w', infos[m].uri)
      BY <2>0, <2>5, <3>2, <3>3, HasEntryAppend
    <3> QED BY <2>5, <3>2, <3>3, <3>5, <3>6 DEF DecryptInv
  <2>6. CASE DecryptResource
    <3>1. PICK e \in Entries, d \in Data :
              /\ pc = "decrypt" /\ i \in DOMAIN infos /\ i' = i + 1
              /\ HasPath(src, infos[i].uri) /\ d = ByPath(src, infos[i].uri)
              /\ ComesOff(d, job.key, infos[i].is_compressed)
              /\ e.name = infos[i].uri /\ e.data = Decipher(d)
              /\ w' = Append(w, e)
              /\ UNCHANGED << fs, pc, job, src, infos, runs, issued, result >>
      BY <2>6, DecryptResourceStep
    <3>2. Unlocked(src, infos[i], job.key, e)
      BY <3>1 DEF Unlocked
    <3> QED BY <2>5, <3>1, <3>2
  <2>7. CASE DecryptToNoise
    <3>1. PICK e \in Entries :
              /\ pc = "decrypt" /\ i \in DOMAIN infos /\ i' = i + 1
              /\ HasPath(src, infos[i].uri) /\ ~ infos[i].is_compressed
              /\ ~ ComesOff(ByPath(src, infos[i].uri), job.key, FALSE)
              /\ e = Entry(infos[i].uri, Noise) /\ e.name = infos[i].uri
              /\ w' = Append(w, e)
              /\ UNCHANGED << fs, pc, job, src, infos, runs, issued, result >>
      BY <2>7, DecryptToNoiseStep
    <3>2. Garbled(src, infos[i], job.key, e)
      BY <3>1 DEF Garbled
    <3> QED BY <2>5, <3>1, <3>2
  <2>8. CASE EndDecrypt
    <3>1. /\ pc = "decrypt" /\ i > Len(infos) /\ pc' = "copy" /\ i' = 1
          /\ UNCHANGED << job, src, infos, w >>
      BY <2>8 DEF EndDecrypt, Goto
    <3>2. job.cmd = "decrypt"
      BY <3>1 DEF TypeInv, TypeOK, EncryptPhases, DecryptJobs
    <3>3. DoneSoFar' = DoneSoFar /\ PassedSoFar = {} /\ PassedSoFar' = {}
      BY <2>0, <3>1 DEF DoneSoFar, PassedSoFar
    <3> QED BY <3>1, <3>2, <3>3 DEF DecryptInv, Decrypting, Done, Passed
  <2>9. CASE SkipEntry
    <3>1. /\ pc = "copy" /\ i \in DOMAIN src /\ i' = i + 1 /\ src[i].name \in NotCopied
          /\ UNCHANGED << pc, job, src, w, infos >>
      BY <2>0, <2>9 DEF SkipEntry, Stay
    <3>2. DoneSoFar' = DoneSoFar /\ PassedSoFar' = PassedSoFar \cup {i}
      BY <2>0, <3>1 DEF DoneSoFar, PassedSoFar
    <3>3. NotCopied' = NotCopied
      BY <3>1 DEF NotCopied
    <3> QED BY <3>1, <3>2, <3>3 DEF DecryptInv, Decrypting, Done, Passed
  <2>10. CASE CopyEntry
    <3>1. /\ pc = "copy" /\ i \in DOMAIN src /\ i' = i + 1 /\ src[i] \in Entries
          /\ src[i].name \notin NotCopied /\ w' = Append(w, src[i])
          /\ UNCHANGED << pc, job, src, infos >>
      BY <2>10, CopyEntryStep
    <3>2. DoneSoFar' = DoneSoFar /\ PassedSoFar' = PassedSoFar \cup {i}
      BY <2>0, <3>1 DEF DoneSoFar, PassedSoFar
    <3>3. NotCopied' = NotCopied
      BY <3>1 DEF NotCopied
    <3>4. /\ Passed(src, PassedSoFar', NotCopied, src[i])
          /\ \A f : Passed(src, PassedSoFar, NotCopied, f)
                      => Passed(src, PassedSoFar', NotCopied, f)
      BY <3>1, <3>2 DEF Passed
    <3>5. CASE job.cmd = "decrypt"
      <4>1. DecryptInv /\ Decrypting
        BY <3>1, <3>5 DEF Decrypting
      <4>2. \A j \in DOMAIN w' :
                \/ Done(src, infos, DoneSoFar, job.key, w'[j])
                \/ Passed(src, PassedSoFar', NotCopied, w'[j])
        BY <2>0, <3>1, <3>4, <4>1, AppendEntries DEF DecryptInv
      <4>3. \A n : HasEntry(w', n) <=> HasEntry(w, n) \/ n = src[i].name
        BY <2>0, <3>1, HasEntryAppend
      <4> QED BY <3>1, <3>2, <3>3, <4>1, <4>2, <4>3 DEF DecryptInv
    <3> QED BY <2>1, <3>1, <3>5
  <2>11. CASE EndCopy
    <3>1. /\ pc = "copy" /\ i > Len(src)
          /\ pc' = IF job.cmd = "decrypt" THEN "finish" ELSE "encrypt"
          /\ UNCHANGED << job, src, w, infos >>
      BY <2>11 DEF EndCopy, Goto
    <3>2. CASE job.cmd = "decrypt"
      <4>1. DoneSoFar' = DoneSoFar /\ PassedSoFar' = PassedSoFar /\ NotCopied' = NotCopied
        BY <2>0, <3>1, <3>2 DEF DoneSoFar, PassedSoFar, NotCopied
      <4> QED BY <3>1, <3>2, <4>1 DEF DecryptInv, Decrypting, Done, Passed
    <3> QED BY <2>1, <3>1, <3>2
  <2>12. CASE UNCHANGED vars
    BY <2>12 DEF vars, DecryptInv, Decrypting, Done, Passed, DoneSoFar, PassedSoFar, NotCopied
  <2> QED
    BY <2>2, <2>3, <2>4, <2>6, <2>7, <2>8, <2>9, <2>10, <2>11, <2>12 DEF Next, Step
<1> QED BY <1>1, <1>2, TypeInvariant, EncryptInvariant, PTL DEF Spec

----------------------------------------------------------------------------
(***************************************************************************)
(* What an archive made by encrypting holds, up to the end of the run.     *)
(***************************************************************************)
BooksInv == TypeInv /\ OrderInv /\ EncryptInv /\ DecryptInv

LEMMA BooksInvariant == ASSUME SourcesOrderly PROVE Spec => []BooksInv
<1>1. Spec => []OrderInv
  BY SourcesOrderly, OrderInvariant
<1> QED BY <1>1, TypeInvariant, EncryptInvariant, DecryptInvariant, PTL DEF BooksInv

LEMMA EncryptedItem ==
    ASSUME BooksInv, Encrypting, NEW m \in DOMAIN infos
    PROVE  \E d, e \in Data :
              /\ Normal[infos[m].uri] = infos[m].uri
              /\ HasPath(src, infos[m].uri) /\ d = ByPath(src, infos[m].uri)
              /\ d = ByName(src, infos[m].uri) /\ infos[m].original_length = Length(d)
              /\ HasPath(w, infos[m].uri) /\ e = ByPath(w, infos[m].uri)
              /\ e = ByName(w, infos[m].uri)
              /\ [key |-> job.key, deflated |-> infos[m].is_compressed] \in Layers
              /\ e = Encipher(d, job.key, infos[m].is_compressed)
              /\ ComesOff(e, job.key, infos[m].is_compressed)
              /\ EncipheredWith(e, job.key)
              /\ Decipher(e) = d
<1> DEFINE uri == infos[m].uri
           d == ByPath(src, uri)
           e == ByPath(w, uri)
<1>1. /\ w \in Seq(Entries) /\ src \in Seq(Entries) /\ infos \in Seq(EncryptedFileInfo)
      /\ infos[m] \in EncryptedFileInfo /\ job \in EncryptJobs
  BY ElementOfSeq, LenProperties
  DEF BooksInv, TypeInv, TypeOK, Encrypting, EncryptPhases, DecryptPhases, DecryptJobs
<1>2. NothingElse /\ ItemsLocked /\ ListingLast
  BY DEF BooksInv, EncryptInv
<1>3. Normal[uri] = uri
  BY DEF BooksInv, OrderInv
<1>4. /\ uri \in FilesToEncrypt(src) \ {MIMETYPE} /\ HasPath(src, uri) /\ HasEntry(w, uri)
      /\ infos[m].original_length = Length(d)
      /\ \A n \in DOMAIN infos : infos[n].uri = uri => n = m
  BY <1>2 DEF ItemsLocked
<1>5. d \in Data /\ d = ByName(src, uri)
  BY <1>1, <1>3, <1>4, ByPathType DEF ByPath
<1>6. HasPath(w, uri) /\ e \in Data /\ e = ByName(w, uri)
  BY <1>1, <1>3, <1>4, ByPathType DEF HasPath, ByPath
<1>7. PICK j \in DOMAIN w : w[j].name = uri /\ e = w[j].data
  BY <1>4, <1>6, ByNameEntry
<1> HIDE DEF uri, d, e
<1>8. ~ Kept(src, w[j])
  BY <1>4, <1>7 DEF Kept, NotCloned
<1>9. ~ (pc \in {"embed", "finish"} /\ w[j] = Listing(infos))
  BY <1>2, <1>7 DEF ListingLast, Listing, Entry, uri
<1>10. Locked(src, infos, job.key, w[j])
  BY <1>2, <1>8, <1>9 DEF NothingElse
<1>11. e = Encipher(d, job.key, infos[m].is_compressed)
  BY <1>4, <1>7, <1>10 DEF Locked, uri, d
<1>12. [key |-> job.key, deflated |-> infos[m].is_compressed] \in Layers
  BY <1>1 DEF EncryptJobs, EncryptedFileInfo, Layers
<1>13. /\ ComesOff(e, job.key, infos[m].is_compressed)
       /\ EncipheredWith(e, job.key) /\ Decipher(e) = d
  BY <1>5, <1>6, <1>11, <1>12, DecipherEncipher
<1> QED BY <1>3, <1>4, <1>5, <1>6, <1>11, <1>12, <1>13 DEF uri, d, e

LEMMA EncryptedListing ==
    ASSUME BooksInv, Encrypting, pc \in {"embed", "finish"}
    PROVE  /\ HasEntry(w, ENCRYPTION_FILE) /\ Parses(w, ENCRYPTION_FILE, "encryption")
           /\ EncryptedResources(w) = infos
           /\ Listed(w) = {infos[m] : m \in DOMAIN infos}
<1>1. w \in Seq(Entries) /\ infos \in Seq(EncryptedFileInfo) /\ Once(w)
  BY DEF BooksInv, TypeInv, TypeOK, OrderInv, Sound
<1>2. PICK j \in DOMAIN w : w[j] = Listing(infos)
  BY DEF BooksInv, EncryptInv, ListingLast
<1>3. /\ w[j].name = ENCRYPTION_FILE /\ w[j].data.layers = << >>
      /\ w[j].data.content = WriteEncryptionXml(infos)
  BY <1>2 DEF Listing, Entry
<1>4. HasEntry(w, ENCRYPTION_FILE) /\ ByName(w, ENCRYPTION_FILE) = w[j].data
  BY <1>1, <1>3, ByNameOnce
<1>5. HasPath(w, ENCRYPTION_FILE) /\ ByPath(w, ENCRYPTION_FILE) = w[j].data
  BY <1>4, FixedNames DEF HasPath, ByPath
<1>6. WriteEncryptionXml(infos).kind = "encryption"
  BY DEF WriteEncryptionXml
<1>7. Parses(w, ENCRYPTION_FILE, "encryption")
  BY <1>3, <1>5, <1>6 DEF Parses
<1>8. EncryptedResources(w) = infos
  BY <1>1, <1>3, <1>5, ParseWritten DEF EncryptedResources
<1> QED BY <1>4, <1>7, <1>8, ListedResources

\* What is not listed was cloned.
LEMMA EncryptedRest ==
    ASSUME BooksInv, Encrypting, NEW n, HasEntry(w, n), n # ENCRYPTION_FILE,
           \A m \in DOMAIN infos : infos[m].uri # n
    PROVE  /\ HasEntry(src, n) /\ ByName(w, n) = ByName(src, n)
           /\ n = MIMETYPE \/ n \notin NotCloned(src)
<1>1. Once(w) /\ Once(src)
  BY DEF BooksInv, OrderInv, Sound
<1>2. PICK j \in DOMAIN w : w[j].name = n /\ ByName(w, n) = w[j].data
  BY ByNameEntry
<1>3. ~ Locked(src, infos, job.key, w[j]) /\ w[j] # Listing(infos)
  BY <1>2 DEF Locked, Listing, Entry
<1>4. Kept(src, w[j])
  BY <1>3 DEF BooksInv, EncryptInv, NothingElse
<1>5. PICK k \in DOMAIN src : src[k] = w[j]
  BY <1>4 DEF Kept
<1>6. HasEntry(src, n) /\ ByName(src, n) = src[k].data
  BY <1>1, <1>2, <1>5, ByNameOnce
<1> QED BY <1>2, <1>4, <1>5, <1>6 DEF Kept

\* Nothing is missing once the loop over the manifest has ended.
LEMMA EncryptedAll ==
    ASSUME BooksInv, Encrypting, pc \in {"embed", "finish"}
    PROVE  /\ \A n : HasEntry(src, n) /\ n \notin {ENCRYPTION_FILE, LICENSE_FILE}
                        => HasEntry(w, n)
           /\ FilesToEncrypt(src) = {infos[m].uri : m \in DOMAIN infos}
<1>1. /\ AllCloned /\ ItemsLocked /\ AllItems
      /\ CopiedSoFar = DOMAIN src /\ ItemsSoFar = DOMAIN Manifest(src)
  BY DEF BooksInv, EncryptInv, CopiedSoFar, ItemsSoFar
<1>2. \A n \in FilesToEncrypt(src) : \E m \in DOMAIN infos : infos[m].uri = n
  BY <1>1 DEF AllItems, FilesToEncrypt
<1>3. \A m \in DOMAIN infos : infos[m].uri \in FilesToEncrypt(src) /\ HasEntry(w, infos[m].uri)
  BY <1>1 DEF ItemsLocked
<1>4. HasEntry(src, MIMETYPE) => HasEntry(w, MIMETYPE)
  BY <1>1, LenProperties, EmptySeq DEF AllCloned, HasEntry, BooksInv, TypeInv, TypeOK
<1>5. ASSUME NEW n, HasEntry(src, n), n \notin {ENCRYPTION_FILE, LICENSE_FILE}
      PROVE  HasEntry(w, n)
  <2>1. PICK k \in DOMAIN src : src[k].name = n
    BY <1>5 DEF HasEntry
  <2>2. CASE n \in FilesToEncrypt(src)
    BY <1>2, <1>3, <2>2
  <2>3. CASE n \notin FilesToEncrypt(src) /\ n # MIMETYPE
    BY <1>1, <1>5, <2>1, <2>3 DEF AllCloned, NotCloned
  <2> QED BY <1>4, <1>5, <2>2, <2>3
<1> QED BY <1>2, <1>3, <1>5

LEMMA EncryptedBook ==
    ASSUME BooksInv, Encrypting, pc \in {"embed", "finish"}
    PROVE  Opened(w, job.key) = Book(src)
<1> DEFINE dom == EntryNames(src) \ {ENCRYPTION_FILE, LICENSE_FILE}
           value(n) ==
               IF \E info \in Listed(w) :
                     Normal[info.uri] = n /\ ComesOff(ByName(w, n), job.key, info.is_compressed)
               THEN Decipher(ByName(w, n))
               ELSE ByName(w, n)
<1>1. Listed(w) = {infos[m] : m \in DOMAIN infos}
  BY EncryptedListing
<1>2. ASSUME NEW n, HasEntry(w, n), n # ENCRYPTION_FILE
      PROVE  HasEntry(src, n) /\ value(n) = ByName(src, n)
  <2>1. CASE \E m \in DOMAIN infos : infos[m].uri = n
    <3>1. PICK m \in DOMAIN infos : infos[m].uri = n
      BY <2>1
    <3>2. /\ Normal[n] = n /\ HasPath(src, n)
          /\ ComesOff(ByName(w, n), job.key, infos[m].is_compressed)
          /\ Decipher(ByName(w, n)) = ByName(src, n)
      BY <3>1, EncryptedItem
    <3> QED BY <1>1, <3>1, <3>2 DEF HasPath
  <2>2. CASE ~ \E m \in DOMAIN infos : infos[m].uri = n
    <3>1. HasEntry(src, n) /\ ByName(w, n) = ByName(src, n)
      BY <1>2, <2>2, EncryptedRest
    <3>2. \A m \in DOMAIN infos : Normal[infos[m].uri] # n
      BY <2>2 DEF BooksInv, OrderInv
    <3> QED BY <1>1, <3>1, <3>2
  <2> QED BY <2>1, <2>2
<1>3. EntryNames(w) \ {ENCRYPTION_FILE, LICENSE_FILE} = dom
  BY <1>2, EncryptedAll DEF EntryNames, HasEntry
<1>4. Opened(w, job.key) = [n \in dom |-> value(n)]
  BY <1>3 DEF Opened, Book
<1>5. Book(src) = [n \in dom |-> ByName(src, n)]
  BY DEF Book
<1>6. \A n \in dom : HasEntry(w, n) /\ n # ENCRYPTION_FILE
  BY EncryptedAll DEF EntryNames, HasEntry
<1> HIDE DEF dom, value
<1> QED BY <1>2, <1>4, <1>5, <1>6

LEMMA NamesHad == \A a, n : n \in EntryNames(a) <=> HasEntry(a, n)
BY DEF EntryNames, HasEntry

\* A license, like the entry a failed write cut short, is not part of the book.
LEMMA LicenseAside ==
    ASSUME NEW a \in Seq(Entries), Once(a), NEW e \in Entries, e.name = LICENSE_FILE,
           ~ HasEntry(a, LICENSE_FILE), HasEntry(a, ENCRYPTION_FILE), NEW key
    PROVE  Opened(Append(a, e), key) = Opened(a, key)
<1> DEFINE b == Append(a, e)
<1>1. \A n : HasEntry(b, n) <=> HasEntry(a, n) \/ n = LICENSE_FILE
  BY HasEntryAppend
<1>2. \A n : HasEntry(a, n) => ByName(b, n) = ByName(a, n)
  BY ByNameAppend
<1> HIDE DEF b
<1>3. EntryNames(b) \ {ENCRYPTION_FILE, LICENSE_FILE} =
      EntryNames(a) \ {ENCRYPTION_FILE, LICENSE_FILE}
  BY <1>1, NamesHad
<1>4. \A n \in EntryNames(a) : ByName(b, n) = ByName(a, n)
  BY <1>2, NamesHad
<1>5. Book(b) = Book(a)
  BY <1>3, <1>4 DEF Book
<1>6. ByPath(b, ENCRYPTION_FILE) = ByPath(a, ENCRYPTION_FILE)
  BY <1>2, FixedNames DEF ByPath
<1>7. Listed(b) = Listed(a)
  BY <1>6 DEF Listed
<1>8. DOMAIN Book(a) = EntryNames(a) \ {ENCRYPTION_FILE, LICENSE_FILE}
  BY DEF Book
<1>9. Opened(b, key) = Opened(a, key)
  BY <1>4, <1>5, <1>7, <1>8 DEF Opened
<1> QED BY <1>9 DEF b

\* A run that is under way ends well in one of three ways.
LEMMA EndsWell ==
    ASSUME BooksInv, [Next]_vars, pc # "idle", result' = "ok"
    PROVE  EmbedLicense \/ FinishBytes \/ FinishDecrypt
<1>1. result = "running"
  BY DEF BooksInv, OrderInv
<1>2. CASE Start \/ UNCHANGED vars
  BY <1>1, <1>2 DEF Start, BeginEncrypt, BeginEncryptBytes, BeginDecrypt, Begin,
                    RefuseToBegin, vars
<1>3. CASE ReturnError \/ IoError \/ FinishFails \/ Kill
  BY <1>3 DEF ReturnError, IoError, FinishFails, Embed, Kill, End
<1>4. CASE \/ CloneMimetype \/ SkipEntry \/ CopyEntry \/ EndCopy \/ SkipItem
           \/ EncryptItem \/ EndEncrypt \/ WriteListing \/ ReadResources
           \/ DecryptResource \/ DecryptToNoise \/ EndDecrypt
  BY <1>1, <1>4 DEF CloneMimetype, SkipEntry, CopyEntry, EndCopy, SkipItem, EncryptItem,
                    EndEncrypt, WriteListing, ReadResources, DecryptResource,
                    DecryptToNoise, EndDecrypt, Goto, Stay
<1> QED BY <1>2, <1>3, <1>4 DEF Next, Step

\* Encrypting loses nothing and adds nothing: what encrypt_epub leaves when it
\* succeeds opens, with the content key, as the publication it read.
THEOREM EncryptKeepsTheBookAlways ==
    ASSUME SourcesOrderly PROVE Spec => EncryptKeepsTheBook
<1>1. BooksInv /\ [Next]_vars =>
          [Ends({"encrypt", "encrypt_bytes"}) =>
              Opened(fs'[job.out].entries, job.key) = Book(src)]_vars
  <2> SUFFICES ASSUME BooksInv, [Next]_vars, Ends({"encrypt", "encrypt_bytes"})
               PROVE  Opened(fs'[job.out].entries, job.key) = Book(src)
    OBVIOUS
  <2>1. EmbedLicense \/ FinishBytes \/ FinishDecrypt
    BY EndsWell DEF Ends
  <2>2. job.out \in Paths /\ fs \in [Paths -> Files]
    BY DEF BooksInv, TypeInv, TypeOK, Ends, EncryptJobs, DecryptJobs
  <2>3. CASE EmbedLicense
    <3>1. PICK e \in Entries :
              /\ pc = "embed" /\ job.cmd = "encrypt" /\ e.name = LICENSE_FILE
              /\ ~ HasEntry(w, LICENSE_FILE) /\ Leave(Zip(Append(w, e)))
      BY <2>3, EmbedLicenseStep DEF EmbedLicense, BooksInv
    <3>2. fs'[job.out].entries = Append(w, e)
      BY <2>2, <3>1 DEF Leave, Zip
    <3>3. Encrypting
      BY <3>1 DEF Encrypting
    <3>4. w \in Seq(Entries) /\ Once(w)
      BY DEF BooksInv, TypeInv, TypeOK, OrderInv, Sound
    <3>5. HasEntry(w, ENCRYPTION_FILE) /\ Opened(w, job.key) = Book(src)
      BY <3>1, <3>3, EncryptedListing, EncryptedBook
    <3> QED BY <3>1, <3>2, <3>4, <3>5, LicenseAside
  <2>4. CASE FinishBytes
    <3>1. pc = "finish" /\ Encrypting /\ fs'[job.out].entries = w
      BY <2>2, <2>4 DEF FinishBytes, Encrypting, Zip
    <3> QED BY <3>1, EncryptedBook
  <2>5. CASE FinishDecrypt
    BY <2>5 DEF FinishDecrypt, Ends
  <2> QED BY <2>1, <2>3, <2>4, <2>5
<1>2. Spec => []BooksInv
  BY SourcesOrderly, BooksInvariant
<1> QED BY <1>1, <1>2, PTL DEF Spec, EncryptKeepsTheBook

----------------------------------------------------------------------------
(***************************************************************************)
(* What an archive made by decrypting holds.                               *)
(***************************************************************************)
LEMMA DecryptedBook ==
    ASSUME BooksInv, pc = "finish", job.cmd = "decrypt", AllUnlock(src, job.key)
    PROVE  Book(w) = Opened(src, job.key)
<1> DEFINE dom == EntryNames(src) \ {ENCRYPTION_FILE, LICENSE_FILE}
           value(n) ==
               IF \E info \in Listed(src) :
                     Normal[info.uri] = n /\ ComesOff(ByName(src, n), job.key, info.is_compressed)
               THEN Decipher(ByName(src, n))
               ELSE ByName(src, n)
<1>1. /\ infos = EncryptedResources(src) /\ Once(src) /\ Once(w)
      /\ DoneSoFar = DOMAIN infos /\ PassedSoFar = DOMAIN src
      /\ \A j \in DOMAIN w :
            \/ Done(src, infos, DOMAIN infos, job.key, w[j])
            \/ Passed(src, DOMAIN src, NotCopied, w[j])
      /\ \A m \in DOMAIN infos : HasEntry(w, infos[m].uri)
      /\ \A k \in DOMAIN src : src[k].name \notin NotCopied => HasEntry(w, src[k].name)
      /\ \A m \in DOMAIN infos : Normal[infos[m].uri] = infos[m].uri
  BY DEF BooksInv, DecryptInv, Decrypting, DoneSoFar, PassedSoFar, OrderInv, Sound
<1>2. Listed(src) = {infos[m] : m \in DOMAIN infos}
  BY <1>1, ListedResources
<1>3. NotCopied = {ENCRYPTION_FILE, LICENSE_FILE} \cup {infos[m].uri : m \in DOMAIN infos}
  BY DEF NotCopied
<1>4. ASSUME NEW n, HasEntry(w, n), n \notin {ENCRYPTION_FILE, LICENSE_FILE}
      PROVE  HasEntry(src, n) /\ ByName(w, n) = value(n)
  <2>1. PICK j \in DOMAIN w : w[j].name = n /\ ByName(w, n) = w[j].data
    BY <1>4, ByNameEntry
  <2>2. ASSUME NEW m \in DOMAIN infos, Unlocked(src, infos[m], job.key, w[j])
        PROVE  HasEntry(src, n) /\ ByName(w, n) = value(n)
    <3>1. infos[m].uri = n /\ Normal[n] = n
      BY <1>1, <2>1, <2>2 DEF Unlocked
    <3>2. /\ HasEntry(src, n) /\ ComesOff(ByName(src, n), job.key, infos[m].is_compressed)
          /\ w[j].data = Decipher(ByName(src, n))
      BY <2>2, <3>1 DEF Unlocked, HasPath, ByPath
    <3> QED BY <1>2, <2>1, <3>1, <3>2
  <2>3. ASSUME NEW m \in DOMAIN infos, Garbled(src, infos[m], job.key, w[j])
        PROVE  FALSE
    <3>1. infos[m].is_compressed = FALSE
      <4>1. infos[m] \in EncryptedFileInfo
        BY ElementOfSeq, LenProperties DEF BooksInv, TypeInv, TypeOK
      <4> QED BY <2>3, <4>1 DEF Garbled, EncryptedFileInfo
    <3> QED BY <1>2, <2>3, <3>1 DEF Garbled, AllUnlock
  <2>4. ASSUME NEW k \in DOMAIN src, src[k] = w[j], w[j].name \notin NotCopied
        PROVE  HasEntry(src, n) /\ ByName(w, n) = value(n)
    <3>1. HasEntry(src, n) /\ ByName(src, n) = w[j].data
      BY <1>1, <2>1, <2>4, ByNameOnce
    <3>2. \A info \in Listed(src) : Normal[info.uri] # n
      BY <1>1, <1>2, <1>3, <2>1, <2>4
    <3> QED BY <2>1, <3>1, <3>2
  <2> HIDE DEF value
  <2> QED BY <1>1, <2>2, <2>3, <2>4 DEF Done, Passed
<1>5. ASSUME NEW n, HasEntry(src, n), n \notin {ENCRYPTION_FILE, LICENSE_FILE}
      PROVE  HasEntry(w, n)
  BY <1>1, <1>3, <1>5 DEF HasEntry
<1>6. EntryNames(w) \ {ENCRYPTION_FILE, LICENSE_FILE} = dom
  BY <1>4, <1>5 DEF EntryNames, HasEntry
<1>7. Book(w) = [n \in dom |-> ByName(w, n)]
  BY <1>6 DEF Book
<1>8. Opened(src, job.key) = [n \in dom |-> value(n)]
  BY DEF Opened, Book
<1>9. \A n \in dom : HasEntry(w, n) /\ n \notin {ENCRYPTION_FILE, LICENSE_FILE}
  BY <1>5 DEF EntryNames, HasEntry
<1> HIDE DEF dom, value
<1> QED BY <1>4, <1>7, <1>8, <1>9

\* Decrypting gives what a reading system with the key sees: when every listed
\* resource is enciphered with the key that decrypt_epub found in the license, the
\* file it leaves is that publication.
THEOREM DecryptKeepsTheBookAlways ==
    ASSUME SourcesOrderly PROVE Spec => DecryptKeepsTheBook
<1>1. BooksInv /\ [Next]_vars =>
          [Ends({"decrypt"}) /\ AllUnlock(src, job.key) =>
              Book(fs'[job.out].entries) = Opened(src, job.key)]_vars
  <2> SUFFICES ASSUME BooksInv, [Next]_vars, Ends({"decrypt"}), AllUnlock(src, job.key)
               PROVE  Book(fs'[job.out].entries) = Opened(src, job.key)
    OBVIOUS
  <2>1. FinishDecrypt
    <3>1. job.cmd = "decrypt"
      BY DEF Ends
    <3>2. ~ EmbedLicense /\ ~ FinishBytes
      BY <3>1 DEF EmbedLicense, Embed, FinishBytes, BooksInv, TypeInv, TypeOK
    <3> QED BY <3>2, EndsWell DEF Ends
  <2>2. job.out \in Paths /\ fs \in [Paths -> Files]
    BY DEF BooksInv, TypeInv, TypeOK, Ends, EncryptJobs, DecryptJobs
  <2>3. pc = "finish" /\ job.cmd = "decrypt" /\ fs'[job.out].entries = w
    BY <2>1, <2>2 DEF FinishDecrypt, Leave, Zip
  <2> QED BY <2>3, DecryptedBook
<1>2. Spec => []BooksInv
  BY SourcesOrderly, BooksInvariant
<1> QED BY <1>1, <1>2, PTL DEF Spec, DecryptKeepsTheBook

----------------------------------------------------------------------------
(***************************************************************************)
(* What a step leaves behind: the archive as far as it was written, and    *)
(* after that at most a license or the start of one more entry.            *)
(***************************************************************************)
Aside(entry) ==
    entry.data.layers = << >> /\ entry.data.content.kind \in {"noise", "license"}

Grown(archive, kind, file) ==
    \E e \in Entries :
       /\ ~ HasEntry(archive, e.name) /\ Aside(e) /\ e.data.content.kind = kind
       /\ Append(archive, e) \in Seq(Entries) /\ file = Zip(Append(archive, e))

LEMMA LeaveAt ==
    ASSUME TypeOK, NEW file, Leave(file), NEW p \in Paths
    PROVE  fs'[p] = fs[p] \/ fs'[p] = file
BY DEF TypeOK, Leave

LEMMA WhatIsLeft ==
    ASSUME BooksInv, [Next]_vars, NEW p \in Paths
    PROVE  \/ fs'[p] = fs[p]
           \/ fs'[p] = Torn
           \/ pc # "idle" /\ (fs'[p] = Zip(w) \/ Grown(w, "noise", fs'[p]))
           \/ /\ pc # "idle" /\ \E outcome : Embed(outcome)
              /\ Grown(w, "license", fs'[p])
<1>0. TypeOK
  BY DEF BooksInv, TypeInv
<1>1. CASE Start
  BY <1>0, <1>1
  DEF Start, BeginEncrypt, BeginEncryptBytes, BeginDecrypt, RefuseToBegin, Create, TypeOK
<1>2. CASE EmbedLicense \/ FinishFails
  <2>0. PICK outcome : Embed(outcome)
    BY <1>2 DEF EmbedLicense, FinishFails
  <2>1. PICK e \in Entries :
            /\ pc = "embed" /\ e.name = LICENSE_FILE /\ e.data.layers = << >>
            /\ e.data.content.kind = "license"
            /\ ~ HasEntry(w, LICENSE_FILE) /\ Append(w, e) \in Seq(Entries)
            /\ Leave(Zip(Append(w, e)))
    BY <2>0, EmbedLicenseStep DEF BooksInv
  <2>2. Grown(w, "license", Zip(Append(w, e)))
    BY <2>1 DEF Grown, Aside
  <2> QED BY <1>0, <2>0, <2>1, <2>2, LeaveAt
<1>3. CASE FinishBytes
  BY <1>0, <1>3 DEF FinishBytes, TypeOK
<1>4. CASE FinishDecrypt \/ ReturnError
  <2>1. pc # "idle" /\ Leave(Zip(w))
    BY <1>4 DEF FinishDecrypt, ReturnError, Error
  <2> QED BY <1>0, <2>1, LeaveAt
<1>5. CASE IoError
  <2>1. ASSUME NEW n \in Names, Startable(n)
        PROVE  Grown(w, "noise", Zip(Append(w, Entry(n, Noise))))
    <3> DEFINE e == Entry(n, Noise)
    <3>1. e \in Entries /\ e.name = n /\ Aside(e) /\ e.data.content.kind = "noise"
      BY EntryType, NoiseType DEF Entry, Aside, Noise
    <3> HIDE DEF e
    <3>2. Append(w, e) \in Seq(Entries)
      BY <1>0, <3>1, WriteType
    <3>3. Grown(w, "noise", Zip(Append(w, e)))
      BY <2>1, <3>1, <3>2 DEF Grown, Startable
    <3> QED BY <3>3 DEF e
  <2>2. PICK left \in {Torn, Zip(w)} \cup
                  {Zip(Append(w, Entry(n, Noise))) : n \in {q \in Pending : Startable(q)}} :
            Leave(left)
    BY <1>5 DEF IoError
  <2>3. left = Torn \/ left = Zip(w) \/ Grown(w, "noise", left)
    BY <2>1, <2>2 DEF Pending
  <2> QED BY <1>0, <1>5, <2>2, <2>3, LeaveAt DEF IoError
<1>6. CASE Kill
  BY <1>0, <1>6, LeaveAt DEF Kill
<1>7. CASE \/ CloneMimetype \/ SkipEntry \/ CopyEntry \/ EndCopy \/ SkipItem
           \/ EncryptItem \/ EndEncrypt \/ WriteListing \/ ReadResources
           \/ DecryptResource \/ DecryptToNoise \/ EndDecrypt
  BY <1>7 DEF CloneMimetype, SkipEntry, CopyEntry, EndCopy, SkipItem, EncryptItem,
              EndEncrypt, WriteListing, ReadResources, DecryptResource,
              DecryptToNoise, EndDecrypt, Goto, Stay
<1>8. CASE UNCHANGED vars
  BY <1>8 DEF vars
<1> QED BY <1>1, <1>2, <1>3, <1>4, <1>5, <1>6, <1>7, <1>8 DEF Next, Step

\* Such an entry does not change what documents there are, nor what they say.
LEMMA AsideParses ==
    ASSUME NEW a \in Seq(Entries), Once(a), NEW e \in Entries, Aside(e),
           ~ HasEntry(a, e.name), NEW p
    PROVE  /\ \A kind : kind \notin {"noise", "license"} =>
                 (Parses(Append(a, e), p, kind) <=> Parses(a, p, kind))
           /\ HasPath(a, p) => /\ HasPath(Append(a, e), p)
                               /\ ByPath(Append(a, e), p) = ByPath(a, p)
<1>1. HasPath(a, p) => /\ HasPath(Append(a, e), p)
                       /\ ByPath(Append(a, e), p) = ByPath(a, p)
  BY HasEntryAppend, ByNameAppend DEF HasPath, ByPath
<1>2. ASSUME Normal[p] = e.name PROVE ByPath(Append(a, e), p) = e.data
  BY <1>2, ByNameAppend DEF ByPath
<1>3. HasPath(Append(a, e), p) => HasPath(a, p) \/ Normal[p] = e.name
  BY HasEntryAppend DEF HasPath
<1> QED BY <1>1, <1>2, <1>3 DEF Parses, Aside

LEMMA AsideManifest ==
    ASSUME NEW a \in Seq(Entries), Once(a), NEW e \in Entries, Aside(e),
           ~ HasEntry(a, e.name)
    PROVE  /\ HasManifest(Append(a, e)) <=> HasManifest(a)
           /\ HasManifest(a) => /\ Opf(Append(a, e)) = Opf(a)
                                /\ FilesToEncrypt(Append(a, e)) = FilesToEncrypt(a)
<1> DEFINE b == Append(a, e)
           root(x) == ByPath(x, CONTAINER_FILE).content.rootfile
<1>1. Parses(b, CONTAINER_FILE, "container") <=> Parses(a, CONTAINER_FILE, "container")
  BY AsideParses
<1>2. ASSUME Parses(a, CONTAINER_FILE, "container") PROVE root(b) = root(a)
  BY <1>2, AsideParses DEF Parses
<1>3. \A p : Parses(b, p, "opf") <=> Parses(a, p, "opf")
  BY AsideParses
<1>4. HasManifest(b) <=> HasManifest(a)
  BY <1>1, <1>2, <1>3 DEF HasManifest
<1>5. ASSUME HasManifest(a) PROVE Opf(b) = Opf(a)
  <2>1. HasPath(a, root(a)) /\ root(b) = root(a)
    BY <1>2, <1>5 DEF HasManifest, Parses
  <2>2. ByPath(b, root(a)) = ByPath(a, root(a))
    BY <2>1, AsideParses
  <2> QED BY <2>1, <2>2 DEF Opf
<1> HIDE DEF b
<1>6. ASSUME HasManifest(a) PROVE FilesToEncrypt(b) = FilesToEncrypt(a)
  BY <1>5, <1>6 DEF FilesToEncrypt, Manifest
<1> QED BY <1>4, <1>5, <1>6 DEF b

----------------------------------------------------------------------------
(***************************************************************************)
(* The container and the package document go through a run as they are:    *)
(* they are neither enciphered nor, having no layer, deciphered.           *)
(***************************************************************************)
DocumentNames(archive) ==
    {CONTAINER_FILE, Normal[ByPath(archive, CONTAINER_FILE).content.rootfile]}

LEMMA DocumentNamesApart ==
    ASSUME SourcesOrderly, NEW a \in Seq(Entries), NEW n, Sound(a, n), HasManifest(a),
           NEW name \in DocumentNames(a)
    PROVE  /\ HasEntry(a, name)
           /\ name \notin FilesToEncrypt(a) \cup {ENCRYPTION_FILE, LICENSE_FILE}
<1> DEFINE root == ByPath(a, CONTAINER_FILE).content.rootfile
<1>1. HasPath(a, CONTAINER_FILE) /\ Parses(a, root, "opf")
  BY DEF HasManifest, Parses
<1> HIDE DEF root
<1>2. PICK k \in DOMAIN a :
          a[k].name = Normal[root] /\ a[k].data = ByPath(a, root) /\ Orderly(a[k])
  BY <1>1, SoundByPath DEF Parses
<1>3. Normal[root] \in PackageFiles
  BY <1>1, <1>2 DEF Orderly, Parses
<1>4. \A f \in FilesToEncrypt(a) : f \notin PackageFiles \cup {CONTAINER_FILE}
  BY ItemOrderly DEF FilesToEncrypt
<1>5. name = CONTAINER_FILE \/ name = Normal[root]
  BY DEF DocumentNames, root
<1>6. CASE name = CONTAINER_FILE
  BY <1>1, <1>4, <1>6, FixedNames
  DEF HasPath, CONTAINER_FILE, ENCRYPTION_FILE, LICENSE_FILE
<1>7. CASE name = Normal[root]
  BY <1>1, <1>3, <1>4, <1>7, SourcesOrderly DEF HasPath, Parses, SourcesOrderly
<1> QED BY <1>5, <1>6, <1>7

LEMMA SameManifest ==
    ASSUME NEW a, HasManifest(a), NEW b,
           \A n \in DocumentNames(a) :
              HasEntry(b, n) => \/ ByName(b, n) = ByName(a, n)
                                \/ ByName(b, n).content.kind = "noise"
    PROVE  /\ HasManifest(b) => FilesToEncrypt(b) = FilesToEncrypt(a)
           /\ (\A n \in DocumentNames(a) : HasEntry(b, n) /\ ByName(b, n) = ByName(a, n))
                 => HasManifest(b)
<1> DEFINE root(x) == ByPath(x, CONTAINER_FILE).content.rootfile
<1>1. /\ CONTAINER_FILE \in DocumentNames(a) /\ Normal[root(a)] \in DocumentNames(a)
      /\ Normal[CONTAINER_FILE] = CONTAINER_FILE
  BY FixedNames DEF DocumentNames
<1>2. ASSUME HasManifest(b) PROVE FilesToEncrypt(b) = FilesToEncrypt(a)
  <2>1. ByPath(b, CONTAINER_FILE) = ByPath(a, CONTAINER_FILE)
    BY <1>1, <1>2 DEF HasManifest, Parses, HasPath, ByPath
  <2>2. root(b) = root(a)
    BY <2>1
  <2>3. ByPath(b, root(b)).content.kind = "opf" /\ HasPath(b, root(b))
    BY <1>2 DEF HasManifest, Parses
  <2>4. ByPath(b, root(a)) = ByPath(a, root(a))
    BY <1>1, <2>2, <2>3 DEF HasPath, ByPath
  <2>5. Opf(b) = Opf(a)
    BY <2>2, <2>4 DEF Opf
  <2> QED BY <2>5 DEF FilesToEncrypt, Manifest
<1>3. ASSUME \A n \in DocumentNames(a) : HasEntry(b, n) /\ ByName(b, n) = ByName(a, n)
      PROVE  HasManifest(b)
  <2>1. HasPath(b, CONTAINER_FILE) /\ ByPath(b, CONTAINER_FILE) = ByPath(a, CONTAINER_FILE)
    BY <1>1, <1>3 DEF HasPath, ByPath
  <2>2. HasPath(b, root(a)) /\ ByPath(b, root(a)) = ByPath(a, root(a))
    BY <1>1, <1>3 DEF HasPath, ByPath
  <2> QED BY <2>1, <2>2 DEF HasManifest, Parses
<1> QED BY <1>2, <1>3

LEMMA EncryptedManifest ==
    ASSUME SourcesOrderly, BooksInv, Encrypting
    PROVE  /\ HasManifest(src)
           /\ HasManifest(w) => FilesToEncrypt(w) = FilesToEncrypt(src)
           /\ pc \in {"embed", "finish"} => HasManifest(w)
<1>1. /\ src \in Seq(Entries) /\ Sound(src, runs - 1) /\ HasManifest(src)
      /\ \A m \in DOMAIN infos : infos[m].uri \in FilesToEncrypt(src)
  BY DEF BooksInv, TypeInv, TypeOK, OrderInv, EncryptInv, ItemsLocked
<1>2. ASSUME NEW n \in DocumentNames(src)
      PROVE  /\ HasEntry(w, n) => ByName(w, n) = ByName(src, n)
             /\ pc \in {"embed", "finish"} => HasEntry(w, n)
  <2>1. HasEntry(src, n) /\ n \notin FilesToEncrypt(src) \cup {ENCRYPTION_FILE, LICENSE_FILE}
    BY <1>1, <1>2, SourcesOrderly, DocumentNamesApart
  <2> QED BY <1>1, <2>1, EncryptedRest, EncryptedAll
<1> QED BY <1>1, <1>2, SameManifest

LEMMA DecryptedManifest ==
    ASSUME BooksInv, Decrypting, HasManifest(src), HasManifest(w)
    PROVE  FilesToEncrypt(w) = FilesToEncrypt(src)
<1>1. ASSUME NEW n \in DocumentNames(src), HasEntry(w, n)
      PROVE  ByName(w, n) = ByName(src, n) \/ ByName(w, n).content.kind = "noise"
  <2>1. ByName(src, n).layers = << >>
    BY <1>1, FixedNames DEF DocumentNames, HasManifest, Parses, ByPath
  <2>2. PICK j \in DOMAIN w : w[j].name = n /\ ByName(w, n) = w[j].data
    BY <1>1, ByNameEntry
  <2>3. ASSUME NEW m \in DoneSoFar, Unlocked(src, infos[m], job.key, w[j]) PROVE FALSE
    <3>1. infos[m].uri = n /\ Normal[n] = n
      BY <2>2, <2>3 DEF Unlocked, BooksInv, OrderInv, DoneSoFar
    <3> QED BY <2>1, <2>3, <3>1 DEF Unlocked, ComesOff, ByPath
  <2>4. ASSUME NEW m \in DoneSoFar, Garbled(src, infos[m], job.key, w[j])
        PROVE  w[j].data.content.kind = "noise"
    BY <2>4 DEF Garbled, Entry, Noise
  <2>5. ASSUME Passed(src, PassedSoFar, NotCopied, w[j]) PROVE w[j].data = ByName(src, n)
    <3>1. PICK k \in DOMAIN src : src[k] = w[j]
      BY <2>5 DEF Passed, PassedSoFar
    <3> QED BY <2>2, <3>1, ByNameOnce DEF BooksInv, OrderInv, Sound
  <2> QED BY <2>2, <2>3, <2>4, <2>5 DEF BooksInv, DecryptInv, Done
<1> QED BY <1>1, SameManifest

----------------------------------------------------------------------------
(***************************************************************************)
(* Publications of its own.  The content key of a run is found in archives *)
(* only around what the manifest has it encipher; and an archive that has  *)
(* an encryption.xml and something enciphered with such a key outermost    *)
(* has the whole list enciphered with it, as listed and each file once.    *)
(***************************************************************************)
HasOwnLayer(data) == \E j \in DOMAIN data.layers : data.layers[j].key \in 1..MaxRuns

Covered(archive) ==
    \A k \in DOMAIN archive :
       HasOwnLayer(archive[k].data) =>
           /\ HasManifest(archive) => archive[k].name \in FilesToEncrypt(archive)
           /\ Parses(archive, ENCRYPTION_FILE, "encryption") => HasManifest(archive)

Unlocks(archive, list, key) ==
    /\ \A m \in DOMAIN list :
          LET data == ByPath(archive, list[m].uri) IN
          /\ HasPath(archive, list[m].uri)
          /\ ComesOff(data, key, list[m].is_compressed)
          /\ Length(Decipher(data)) = list[m].original_length
    /\ \A m, n \in DOMAIN list : list[m].uri = list[n].uri => m = n

OwnUnlocks(archive) ==
    Parses(archive, ENCRYPTION_FILE, "encryption") =>
        \A r \in 1..MaxRuns :
           (\E k \in DOMAIN archive : EncipheredWith(archive[k].data, r))
              => Unlocks(archive, EncryptedResources(archive), r)

Own(archive) == Covered(archive) /\ OwnUnlocks(archive)

OwnInv == Own(src) /\ \A p \in Paths : Own(fs[p].entries)

LEMMA OutermostLayer ==
    ASSUME NEW d \in Data, NEW r \in 1..MaxRuns, EncipheredWith(d, r)
    PROVE  HasOwnLayer(d)
<1>1. d.layers \in Seq(Layers) /\ d.layers # << >>
  BY DEF Data, EncipheredWith
<1>2. Len(d.layers) \in DOMAIN d.layers
  BY <1>1, LenProperties, EmptySeq
<1> QED BY <1>2 DEF EncipheredWith, HasOwnLayer

LEMMA OwnEmpty == Own(<< >>)
BY DEF Own, Covered, OwnUnlocks

LEMMA OwnSource == ASSUME SourcesOrderly, NEW a \in Sources PROVE Own(a)
<1>1. ASSUME NEW k \in DOMAIN a PROVE ~ HasOwnLayer(a[k].data)
  <2>1. 0 + 1 = 1
    OBVIOUS
  <2> QED BY <2>1, SourcesOrderly DEF SourcesOrderly, Sound, NoKeyAfter, HasOwnLayer
<1>2. ASSUME NEW k \in DOMAIN a PROVE a[k].data \in Data
  <2>1. a \in Seq(Entries)
    BY CoreAssumption
  <2>2. a[k] \in Entries
    BY <2>1, ElementOfSeq, LenProperties
  <2> QED BY <2>2 DEF Entries
<1> QED BY <1>1, <1>2, OutermostLayer DEF Own, Covered, OwnUnlocks

LEMMA OwnAside ==
    ASSUME NEW a \in Seq(Entries), Once(a), Own(a), NEW e \in Entries, Aside(e),
           ~ HasEntry(a, e.name)
    PROVE  Own(Append(a, e))
<1> DEFINE b == Append(a, e)
<1>1. ~ HasOwnLayer(e.data) /\ \A r : ~ EncipheredWith(e.data, r)
  BY DEF Aside, HasOwnLayer, EncipheredWith
<1>2. /\ DOMAIN b = DOMAIN a \cup {Len(a) + 1} /\ b[Len(a) + 1] = e
      /\ \A k \in DOMAIN a : b[k] = a[k]
  BY AppendEntries
<1>3. Parses(b, ENCRYPTION_FILE, "encryption") <=> Parses(a, ENCRYPTION_FILE, "encryption")
  BY AsideParses
<1>4. /\ HasManifest(b) <=> HasManifest(a)
      /\ HasManifest(a) => FilesToEncrypt(b) = FilesToEncrypt(a)
  BY AsideManifest
<1>5. \A p : HasPath(a, p) => HasPath(b, p) /\ ByPath(b, p) = ByPath(a, p)
  BY AsideParses
<1> HIDE DEF b
<1>6. Covered(b)
  BY <1>1, <1>2, <1>3, <1>4 DEF Own, Covered
<1>7. ASSUME Parses(a, ENCRYPTION_FILE, "encryption"), NEW r \in 1..MaxRuns,
             NEW k \in DOMAIN b, EncipheredWith(b[k].data, r)
      PROVE  Unlocks(b, EncryptedResources(b), r)
  <2>1. EncryptedResources(b) = EncryptedResources(a)
    BY <1>5, <1>7 DEF Parses, EncryptedResources
  <2>2. Unlocks(a, EncryptedResources(a), r)
    BY <1>1, <1>2, <1>7 DEF Own, OwnUnlocks
  <2> QED BY <1>5, <2>1, <2>2 DEF Unlocks
<1>8. OwnUnlocks(b)
  BY <1>3, <1>7 DEF OwnUnlocks
<1> QED BY <1>6, <1>8 DEF Own, b

LEMMA OwnEncrypted ==
    ASSUME SourcesOrderly, BooksInv, Own(src), Encrypting
    PROVE  Own(w)
<1>0. /\ w \in Seq(Entries) /\ src \in Seq(Entries) /\ infos \in Seq(EncryptedFileInfo)
      /\ Once(w) /\ HasManifest(src)
      /\ \A m \in DOMAIN infos : infos[m].uri \in FilesToEncrypt(src) \ {MIMETYPE}
      /\ \A m, n \in DOMAIN infos : infos[m].uri = infos[n].uri => m = n
  BY DEF BooksInv, TypeInv, TypeOK, OrderInv, Sound, EncryptInv, ItemsLocked
<1>1. ASSUME NEW j \in DOMAIN w, HasOwnLayer(w[j].data)
      PROVE  /\ w[j].name \in FilesToEncrypt(src)
             /\ \/ w[j].name = MIMETYPE
                \/ Locked(src, infos, job.key, w[j])
  <2>1. w[j] # Listing(infos)
    BY <1>1 DEF HasOwnLayer, Listing, Entry
  <2>2. CASE Kept(src, w[j])
    <3>1. PICK k \in DOMAIN src : src[k] = w[j]
      BY <2>2 DEF Kept
    <3>2. w[j].name \in FilesToEncrypt(src)
      BY <1>0, <1>1, <3>1 DEF Own, Covered
    <3> QED BY <2>2, <3>2 DEF Kept, NotCloned
  <2>3. CASE Locked(src, infos, job.key, w[j])
    BY <1>0, <2>3 DEF Locked
  <2> QED BY <2>1, <2>2, <2>3 DEF BooksInv, EncryptInv, NothingElse
\* There is no encryption.xml before the run has written its own.
<1>2. ASSUME Parses(w, ENCRYPTION_FILE, "encryption") PROVE pc \in {"embed", "finish"}
  <2>1. SUFFICES ASSUME pc \notin {"embed", "finish"} PROVE FALSE
    OBVIOUS
  <2>2. PICK j \in DOMAIN w : /\ w[j].name = ENCRYPTION_FILE
                              /\ ByPath(w, ENCRYPTION_FILE) = w[j].data
    BY <1>2, ByPathEntry, FixedNames DEF Parses
  <2>3. ~ Kept(src, w[j])
    BY <2>2 DEF Kept, NotCloned, ENCRYPTION_FILE, MIMETYPE
  <2>4. PICK m \in DOMAIN infos : infos[m].uri = ENCRYPTION_FILE
    BY <2>1, <2>2, <2>3 DEF BooksInv, EncryptInv, NothingElse, Locked
  <2>5. ComesOff(ByPath(w, ENCRYPTION_FILE), job.key, infos[m].is_compressed)
    BY <2>4, EncryptedItem
  <2> QED BY <1>2, <2>5 DEF Parses, ComesOff
<1>3. Covered(w)
  BY <1>1, <1>2, SourcesOrderly, EncryptedManifest DEF Covered
<1>4. ASSUME Parses(w, ENCRYPTION_FILE, "encryption"), NEW r \in 1..MaxRuns,
             NEW j \in DOMAIN w, EncipheredWith(w[j].data, r)
      PROVE  Unlocks(w, EncryptedResources(w), r)
  <2>1. pc \in {"embed", "finish"} /\ EncryptedResources(w) = infos
    BY <1>2, <1>4, EncryptedListing
  <2>2. w[j] \in Entries
    BY <1>0, ElementOfSeq, LenProperties
  <2>3. HasOwnLayer(w[j].data)
    BY <1>4, <2>2, OutermostLayer DEF Entries
  <2>4. w[j].name # MIMETYPE
    BY <1>0, <1>1, <2>1, <2>3, EncryptedAll
  <2>5. PICK m \in DOMAIN infos : w[j].name = infos[m].uri
    BY <1>1, <2>3, <2>4 DEF Locked
  <2>6. EncipheredWith(w[j].data, job.key)
    <3>1. w[j].data = ByName(w, infos[m].uri)
      BY <1>0, <2>5, ByNameOnce
    <3> QED BY <3>1, EncryptedItem
  <2>7. job.key = r
    BY <1>4, <2>6 DEF EncipheredWith
  <2>8. Unlocks(w, infos, job.key)
    BY <1>0, EncryptedItem DEF Unlocks
  <2> QED BY <2>1, <2>7, <2>8
<1> QED BY <1>3, <1>4 DEF Own, OwnUnlocks

LEMMA GarbledEntry ==
    ASSUME NEW a, NEW info, NEW key, NEW e, Garbled(a, info, key, e)
    PROVE  e.name = info.uri /\ e.data.layers = << >> /\ e.data.content.kind = "noise"
BY DEF Garbled, Entry, Noise

LEMMA DoneEntry ==
    ASSUME NEW a, NEW list, NEW indices, NEW key, NEW e, Done(a, list, indices, key, e)
    PROVE  \E m \in indices : e.name = list[m].uri
BY GarbledEntry DEF Done, Unlocked

LEMMA OwnDecrypted ==
    ASSUME BooksInv, Own(src), Decrypting
    PROVE  Own(w)
<1>0. /\ src \in Seq(Entries) /\ Parses(src, ENCRYPTION_FILE, "encryption")
      /\ \A j \in DOMAIN w :
            \/ Done(src, infos, DoneSoFar, job.key, w[j])
            \/ Passed(src, PassedSoFar, NotCopied, w[j])
      /\ \A m \in DoneSoFar : Normal[infos[m].uri] = infos[m].uri
  BY DEF BooksInv, TypeInv, TypeOK, DecryptInv, OrderInv, DoneSoFar
<1>1. ASSUME NEW j \in DOMAIN w, HasOwnLayer(w[j].data)
      PROVE  \E k \in DOMAIN src : src[k].name = w[j].name /\ HasOwnLayer(src[k].data)
  <2>1. ASSUME NEW m \in DoneSoFar, Unlocked(src, infos[m], job.key, w[j])
        PROVE  \E k \in DOMAIN src : src[k].name = w[j].name /\ HasOwnLayer(src[k].data)
    <3>1. PICK k \in DOMAIN src : /\ src[k].name = w[j].name
                                  /\ src[k].data = ByPath(src, infos[m].uri)
      BY <1>0, <2>1, ByPathEntry DEF Unlocked
    <3>2. src[k].data \in Data
      <4>1. src[k] \in Entries
        BY <1>0, ElementOfSeq, LenProperties
      <4> QED BY <4>1 DEF Entries
    <3>3. src[k].data.layers # << >> /\ w[j].data = Decipher(src[k].data)
      BY <2>1, <3>1 DEF Unlocked, ComesOff
    <3>4. HasOwnLayer(src[k].data)
      BY <1>1, <3>2, <3>3, DecipherLayers DEF HasOwnLayer
    <3> QED BY <3>1, <3>4
  <2>2. ASSUME NEW m \in DoneSoFar, Garbled(src, infos[m], job.key, w[j])
        PROVE  FALSE
    BY <1>1, <2>2 DEF Garbled, Entry, HasOwnLayer
  <2>3. ASSUME Passed(src, PassedSoFar, NotCopied, w[j])
        PROVE  \E k \in DOMAIN src : src[k].name = w[j].name /\ HasOwnLayer(src[k].data)
    BY <1>1, <2>3 DEF Passed, PassedSoFar
  <2> QED BY <1>0, <2>1, <2>2, <2>3 DEF Done
<1>2. ASSUME NEW j \in DOMAIN w, HasOwnLayer(w[j].data)
      PROVE  HasManifest(src) /\ w[j].name \in FilesToEncrypt(src)
  BY <1>0, <1>1, <1>2 DEF Own, Covered
\* encryption.xml is not copied, and cannot be one of the resources it lists.
<1>3. ~ Parses(w, ENCRYPTION_FILE, "encryption")
  <2>1. SUFFICES ASSUME Parses(w, ENCRYPTION_FILE, "encryption") PROVE FALSE
    OBVIOUS
  <2>2. PICK j \in DOMAIN w : /\ w[j].name = ENCRYPTION_FILE
                              /\ w[j].data.content.kind = "encryption"
    BY <2>1, ByPathEntry, FixedNames DEF Parses
  <2>3. ~ Passed(src, PassedSoFar, NotCopied, w[j])
    BY <2>2 DEF Passed, NotCopied
  <2>4. ASSUME NEW m \in DoneSoFar PROVE ~ Garbled(src, infos[m], job.key, w[j])
    <3>1. w[j].data.content.kind # "noise"
      BY <2>2
    <3> QED BY <3>1, GarbledEntry
  <2>5. PICK m \in DoneSoFar : Unlocked(src, infos[m], job.key, w[j])
    BY <1>0, <2>3, <2>4 DEF Done
  <2> QED BY <1>0, <2>2, <2>5 DEF Unlocked, Parses, ComesOff
<1> QED BY <1>2, <1>3, DecryptedManifest DEF Own, Covered, OwnUnlocks

LEMMA OwnWritten ==
    ASSUME SourcesOrderly, BooksInv, Own(src), pc # "idle"
    PROVE  Own(w)
<1>1. pc \in {"clone", "resources"} => w = << >>
  BY DEF BooksInv, EncryptInv, NothingYet
<1>2. pc \in {"clone", "resources"} \/ Encrypting \/ Decrypting
  BY DEF BooksInv, TypeInv, TypeOK, EncryptPhases, DecryptPhases, EncryptJobs,
         DecryptJobs, Encrypting, Decrypting
<1> QED BY <1>1, <1>2, SourcesOrderly, OwnEmpty, OwnEncrypted, OwnDecrypted

LEMMA OwnInvariant == ASSUME SourcesOrderly PROVE Spec => []OwnInv
<1>1. Init => OwnInv
  <2> SUFFICES ASSUME Init PROVE OwnInv
    OBVIOUS
  <2>1. ASSUME NEW p \in Paths PROVE Own(fs[p].entries)
    <3>1. fs[p] = Nothing \/ \E a \in Sources : fs[p] = Zip(a)
      BY DEF Init
    <3>2. Own(Nothing.entries) /\ \A a \in Sources : Own(Zip(a).entries)
      BY SourcesOrderly, OwnEmpty, OwnSource DEF Nothing, Zip
    <3> QED BY <3>1, <3>2
  <2> QED BY <2>1, OwnEmpty DEF Init, OwnInv
<1>2. BooksInv /\ OwnInv /\ [Next]_vars => OwnInv'
  <2> SUFFICES ASSUME BooksInv, OwnInv, [Next]_vars PROVE OwnInv'
    OBVIOUS
  <2>1. ASSUME NEW p \in Paths PROVE Own(fs'[p].entries)
    <3>1. Own(Torn.entries) /\ Own(fs[p].entries)
      BY OwnEmpty DEF Torn, OwnInv
    <3>2. ASSUME pc # "idle" PROVE Own(Zip(w).entries)
      BY <3>2, SourcesOrderly, OwnWritten DEF Zip, OwnInv
    <3>3. ASSUME pc # "idle", NEW kind, Grown(w, kind, fs'[p]) PROVE Own(fs'[p].entries)
      <4>1. PICK e \in Entries :
                ~ HasEntry(w, e.name) /\ Aside(e) /\ fs'[p] = Zip(Append(w, e))
        BY <3>3 DEF Grown
      <4>2. w \in Seq(Entries) /\ Once(w) /\ Own(w)
        BY <3>2, <3>3 DEF BooksInv, TypeInv, TypeOK, OrderInv, Sound, Zip
      <4>3. Own(Append(w, e))
        BY <4>1, <4>2, OwnAside
      <4> QED BY <4>1, <4>3 DEF Zip
    <3> QED BY <3>1, <3>2, <3>3, WhatIsLeft
  <2>2. \/ src' = src \/ src' = << >>
        \/ \E p \in Paths : src' = fs[p].entries
    <3>1. CASE Start
      BY <3>1 DEF Start, BeginEncrypt, BeginEncryptBytes, BeginDecrypt, Begin, RefuseToBegin
    <3>2. CASE \/ EmbedLicense \/ FinishBytes \/ FinishDecrypt
               \/ ReturnError \/ IoError \/ FinishFails \/ Kill
      BY <3>2 DEF EmbedLicense, FinishFails, Embed, FinishBytes, FinishDecrypt,
                  ReturnError, IoError, Kill, End
    <3>3. CASE \/ CloneMimetype \/ SkipEntry \/ CopyEntry \/ EndCopy \/ SkipItem
               \/ EncryptItem \/ EndEncrypt \/ WriteListing \/ ReadResources
               \/ DecryptResource \/ DecryptToNoise \/ EndDecrypt \/ UNCHANGED vars
      BY <3>3 DEF CloneMimetype, SkipEntry, CopyEntry, EndCopy, SkipItem, EncryptItem,
                  EndEncrypt, WriteListing, ReadResources, DecryptResource,
                  DecryptToNoise, EndDecrypt, Goto, Stay, vars
    <3> QED BY <3>1, <3>2, <3>3 DEF Next, Step
  <2> QED BY <2>1, <2>2, OwnEmpty DEF OwnInv
<1>3. Spec => []BooksInv
  BY SourcesOrderly, BooksInvariant
<1> QED BY <1>1, <1>2, <1>3, PTL DEF Spec

\* A publication this program protected never fails to decrypt with its own content
\* key for what is in it.
THEOREM OwnBooksOpenAlways == ASSUME SourcesOrderly PROVE Spec => []OwnBooksOpen
<1>1. BooksInv /\ OwnInv => OwnBooksOpen
  <2> SUFFICES ASSUME BooksInv, OwnInv, Error, job.cmd = "decrypt", Intact,
                      job.key \in 1..MaxRuns, Parses(src, ENCRYPTION_FILE, "encryption"),
                      NEW k \in DOMAIN src, EncipheredWith(src[k].data, job.key)
               PROVE  FALSE
    BY DEF OwnBooksOpen
  <2>1. Unlocks(src, EncryptedResources(src), job.key)
    BY DEF OwnInv, Own, OwnUnlocks
  <2>2. pc \in {"resources", "decrypt", "copy", "finish"}
    BY DEF BooksInv, TypeInv, TypeOK, EncryptJobs, DecryptPhases, NoJob, Error
  <2>3. CASE pc \in {"resources", "finish"}
    BY <2>3 DEF Error
  <2>4. CASE pc = "copy"
    <3>1. i <= Len(src) /\ src[i].name \notin NotCopied /\ ~ Startable(src[i].name)
      BY <2>4 DEF Error
    <3>2. i \in DOMAIN src
      BY <3>1, LenProperties DEF BooksInv, TypeInv, TypeOK
    <3>3. PICK j \in DOMAIN w : w[j].name = src[i].name
      BY <3>1 DEF Startable, HasEntry
    <3>4. Decrypting
      BY <2>4 DEF Decrypting
    <3>5. ~ Done(src, infos, DoneSoFar, job.key, w[j])
      BY <2>4, <3>1, <3>3, DoneEntry DEF DoneSoFar, NotCopied
    <3>6. PICK m \in PassedSoFar : src[m] = w[j]
      BY <3>4, <3>5 DEF BooksInv, DecryptInv, Passed
    <3>7. m \in DOMAIN src /\ m < i
      BY <2>4, <3>6 DEF PassedSoFar
    <3>8. m = i
      BY <3>2, <3>3, <3>6, <3>7 DEF BooksInv, OrderInv, Sound, Once
    <3> QED BY <3>2, <3>7, <3>8, LenProperties DEF BooksInv, TypeInv, TypeOK
  <2>5. CASE pc = "decrypt"
    <3>1. Decrypting
      BY <2>5 DEF Decrypting
    <3>2. i <= Len(infos) /\ CannotDecipher(infos[i]) /\ infos = EncryptedResources(src)
      BY <2>5, <3>1 DEF Error, BooksInv, DecryptInv
    <3>3. i \in DOMAIN infos /\ i \in Nat
      BY <3>2, LenProperties DEF BooksInv, TypeInv, TypeOK
    <3>4. HasEntry(w, infos[i].uri)
      BY <2>1, <3>2, <3>3 DEF CannotDecipher, Unlocks, Startable
    <3>5. PICK j \in DOMAIN w : w[j].name = infos[i].uri
      BY <3>4 DEF HasEntry
    <3>6. PICK m \in DoneSoFar : w[j].name = infos[m].uri
      <4>1. ~ Passed(src, PassedSoFar, NotCopied, w[j])
        BY <2>5 DEF Passed, PassedSoFar
      <4>2. Done(src, infos, DoneSoFar, job.key, w[j])
        BY <3>1, <4>1 DEF BooksInv, DecryptInv
      <4> QED BY <4>2, DoneEntry
    <3>7. m \in DOMAIN infos /\ m < i
      BY <2>5, <3>6 DEF DoneSoFar
    <3>8. m = i
      BY <2>1, <3>2, <3>3, <3>5, <3>6, <3>7 DEF Unlocks
    <3> QED BY <3>3, <3>7, <3>8
  <2> QED BY <2>2, <2>3, <2>4, <2>5
<1>2. Spec => []BooksInv
  BY SourcesOrderly, BooksInvariant
<1>3. Spec => []OwnInv
  BY SourcesOrderly, OwnInvariant
<1> QED BY <1>1, <1>2, <1>3, PTL

----------------------------------------------------------------------------
(***************************************************************************)
(* A license in an archive says that the rest of it is protected.          *)
(***************************************************************************)
LEMMA LicenseProtects ==
    ASSUME SourcesOrderly, BooksInv, NEW outcome, Embed(outcome),
           NEW e \in Entries, e.name = LICENSE_FILE, Aside(e),
           e.data.content.license = NewLicense, ~ HasEntry(w, LICENSE_FILE)
    PROVE  Protected(Append(w, e))
<1> DEFINE a == Append(w, e)
<1>1. /\ w \in Seq(Entries) /\ src \in Seq(Entries) /\ Once(w)
      /\ Sound(src, runs - 1) /\ job.key = runs /\ runs \in 0..MaxRuns
      /\ AllCloned /\ ItemsLocked /\ NothingElse
      /\ pc = "embed" /\ Encrypting
  BY DEF Embed, BooksInv, TypeInv, TypeOK, OrderInv, Sound, EncryptInv, Encrypting
<1>2. ~ HasEntry(w, e.name)
  OBVIOUS
<1>3. \A p : HasPath(w, p) => HasPath(a, p) /\ ByPath(a, p) = ByPath(w, p)
  BY <1>1, <1>2, AsideParses
<1>4. Parses(a, ENCRYPTION_FILE, "encryption")
  BY <1>1, <1>2, AsideParses, EncryptedListing
<1>5. HasManifest(a) /\ FilesToEncrypt(a) = FilesToEncrypt(src)
  BY <1>1, <1>2, SourcesOrderly, AsideManifest, EncryptedManifest
<1>6. ByPath(a, LICENSE_FILE) = e.data
  BY <1>1, <1>2, ByNameAppend, FixedNames DEF ByPath
<1>7. \A n : HasEntry(a, n) <=> HasEntry(w, n) \/ n = LICENSE_FILE
  BY <1>1, HasEntryAppend
<1>8. /\ DOMAIN a = DOMAIN w \cup {Len(w) + 1} /\ a[Len(w) + 1] = e
      /\ \A k \in DOMAIN w : a[k] = w[k]
  BY <1>1, AppendEntries
<1> HIDE DEF a
<1>9. LicenseOf(a) = NewLicense
  BY <1>6 DEF LicenseOf
<1>10. /\ LicenseOf(a).body.content_key.key = job.key
       /\ KeyCheck(LicenseOf(a), LicenseOf(a).body.content_key.under)
  BY <1>9 DEF NewLicense, Sign, WithEncryption, KeyCheck
<1>11. FilesToEncrypt(src) = {infos[m].uri : m \in DOMAIN infos}
  BY <1>1, EncryptedAll
<1>12. \A m \in DOMAIN infos :
           HasPath(a, infos[m].uri) /\ EncipheredWith(ByPath(a, infos[m].uri), job.key)
  BY <1>1, <1>3, EncryptedItem
<1>13. Listed(a) = {infos[m] : m \in DOMAIN infos}
  <2>1. ByPath(a, ENCRYPTION_FILE) = ByPath(w, ENCRYPTION_FILE)
    BY <1>1, <1>3, EncryptedListing DEF Parses
  <2>2. Listed(a) = Listed(w)
    BY <2>1 DEF Listed
  <2> QED BY <1>1, <2>2, EncryptedListing
<1>14. {info.uri : info \in Listed(a)} = FilesToEncrypt(src)
  BY <1>11, <1>13
<1>15. ASSUME NEW k \in DOMAIN a, EncipheredWith(a[k].data, job.key)
       PROVE  a[k].name \in FilesToEncrypt(src)
  <2>1. ~ EncipheredWith(e.data, job.key)
    BY DEF Aside, EncipheredWith
  <2>2. k \in DOMAIN w /\ EncipheredWith(w[k].data, job.key) /\ a[k] = w[k]
    BY <1>8, <1>15, <2>1
  <2>3. w[k] # Listing(infos)
    BY <2>2 DEF EncipheredWith, Listing, Entry
  <2>4. ASSUME NEW m \in DOMAIN src PROVE ~ EncipheredWith(src[m].data, job.key)
    <3>1. src[m].data \in Data
      <4>1. src[m] \in Entries
        BY <1>1, ElementOfSeq, LenProperties
      <4> QED BY <4>1 DEF Entries
    <3>2. src[m].data.layers # << >> =>
              Len(src[m].data.layers) \in DOMAIN src[m].data.layers
      BY <3>1, LenProperties, EmptySeq DEF Data
    <3>3. job.key \in (runs - 1 + 1)..MaxRuns
      BY <1>1, CoreAssumption
    <3> QED BY <1>1, <3>2, <3>3 DEF Sound, NoKeyAfter, EncipheredWith
  <2>5. ~ Kept(src, w[k])
    BY <2>2, <2>4 DEF Kept
  <2>6. Locked(src, infos, job.key, w[k])
    BY <1>1, <2>2, <2>3, <2>5 DEF NothingElse
  <2> QED BY <1>11, <2>2, <2>6 DEF Locked
<1>16. HasEntry(a, MIMETYPE) => a[1].name = MIMETYPE
  <2>1. SUFFICES ASSUME HasEntry(a, MIMETYPE) PROVE a[1].name = MIMETYPE
    OBVIOUS
  <2>2. HasEntry(w, MIMETYPE) /\ MIMETYPE # ENCRYPTION_FILE
    BY <1>7, <2>1 DEF MIMETYPE, LICENSE_FILE, ENCRYPTION_FILE
  <2>3. \A m \in DOMAIN infos : infos[m].uri # MIMETYPE
    BY <1>1 DEF ItemsLocked
  <2>4. HasEntry(src, MIMETYPE)
    BY <1>1, <2>2, <2>3, EncryptedRest
  <2>5. w # << >> /\ w[1].name = MIMETYPE
    BY <1>1, <2>4 DEF AllCloned
  <2> QED BY <1>1, <1>8, <2>5, LenProperties, EmptySeq
<1>17. Protected(a)
  BY <1>4, <1>5, <1>10, <1>11, <1>12, <1>14, <1>15, <1>16 DEF Protected
<1> QED BY <1>17 DEF a

\* Whatever a run leaves behind, ended, failed half way or killed, a file with a
\* license in it was there before or is a complete protected publication.
THEOREM LicensedIsProtectedAlways ==
    ASSUME SourcesOrderly PROVE Spec => []LicensedIsProtected
<1>1. Init => LicensedIsProtected
  BY DEF Init, LicensedIsProtected, Nothing, Zip
<1>2. BooksInv /\ SealInv /\ LicensedIsProtected /\ [Next]_vars => LicensedIsProtected'
  <2> SUFFICES ASSUME BooksInv, SealInv, LicensedIsProtected, [Next]_vars,
                      NEW p \in Paths, fs'[p].state = "zip", IsLicensed(fs'[p].entries)
               PROVE  fs'[p].entries \in Sources \/ Protected(fs'[p].entries)
    BY DEF LicensedIsProtected
  <2>1. w \in Seq(Entries) /\ Unlicensed(w) /\ Once(w)
    BY DEF BooksInv, TypeInv, TypeOK, SealInv, OrderInv, Sound
  <2>2. ASSUME NEW a, IsLicensed(a) PROVE \E k \in DOMAIN a : IsLicense(a[k])
    BY <2>2, ByPathEntry, FixedNames DEF IsLicensed, Parses, IsLicense
  <2>3. CASE fs'[p] = fs[p]
    BY <2>3 DEF LicensedIsProtected
  <2>4. CASE fs'[p] = Torn
    BY <2>4 DEF Torn
  <2>5. CASE fs'[p] = Zip(w)
    BY <2>1, <2>2, <2>5 DEF Zip, Unlicensed
  <2>6. CASE Grown(w, "noise", fs'[p])
    <3>1. PICK e \in Entries :
              e.data.content.kind = "noise" /\ fs'[p] = Zip(Append(w, e))
      BY <2>6 DEF Grown
    <3>2. Unlicensed(Append(w, e))
      BY <2>1, <3>1, UnlicensedAppend DEF IsLicense
    <3>3. fs'[p].entries = Append(w, e)
      BY <3>1 DEF Zip
    <3> QED BY <2>2, <3>2, <3>3 DEF Unlicensed
  <2>7. CASE \E outcome : Embed(outcome)
    <3>0. PICK outcome : Embed(outcome)
      BY <2>7
    <3>1. PICK e \in Entries :
              /\ e.name = LICENSE_FILE /\ e.data.layers = << >>
              /\ e.data.content.kind = "license" /\ e.data.content.license = NewLicense
              /\ ~ HasEntry(w, LICENSE_FILE) /\ Leave(Zip(Append(w, e)))
      BY <3>0, EmbedLicenseStep DEF BooksInv
    <3>2. fs'[p] = fs[p] \/ fs'[p] = Zip(Append(w, e))
      BY <3>1, LeaveAt DEF BooksInv, TypeInv
    <3>3. Protected(Append(w, e))
      BY <3>0, <3>1, SourcesOrderly, LicenseProtects DEF Aside
    <3>4. Zip(Append(w, e)).entries = Append(w, e)
      BY DEF Zip
    <3> QED BY <2>3, <3>2, <3>3, <3>4
  <2> QED BY <2>3, <2>4, <2>5, <2>6, <2>7, WhatIsLeft
<1>3. Spec => []BooksInv
  BY SourcesOrderly, BooksInvariant
<1> QED BY <1>1, <1>2, <1>3, SealInvariant, PTL DEF Spec
=============================================================================
