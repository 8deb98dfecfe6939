--------------------------- MODULE LcpCoreProofs ---------------------------
(***************************************************************************)
(* Theorems about lcp-core, for any archives to start from, any paths,     *)
(* passphrases and credentials and any number of runs.                     *)
(***************************************************************************)
EXTENDS LcpCore, SequenceTheorems, TLAPS

----------------------------------------------------------------------------
(***************************************************************************)
(* What the operators on archives return.                                  *)
(***************************************************************************)
LEMMA EntryType ==
    ASSUME NEW name \in Names, NEW content \in Contents
    PROVE  Entry(name, content) \in Entries
<1>1. << >> \in Seq(Layers)
  OBVIOUS
<1> QED BY <1>1 DEF Entry, Entries, Data

LEMMA NoiseType == Noise \in Contents
BY DEF Noise, Contents

LEMMA FileNames ==
    /\ CONTAINER_FILE \in Names /\ ENCRYPTION_FILE \in Names
    /\ LICENSE_FILE \in Names /\ MIMETYPE \in Names
    /\ Absent \notin Names
BY EpubAssumption

LEMMA ByNameType ==
    ASSUME NEW a \in Seq(Entries), NEW n, HasEntry(a, n)
    PROVE  ByName(a, n) \in Data
<1>1. PICK k \in DOMAIN a : a[k].name = n
  BY DEF HasEntry
<1> DEFINE c == CHOOSE j \in DOMAIN a : a[j].name = n
<1>2. c \in DOMAIN a
  BY <1>1
<1>3. a[c] \in Entries
  BY <1>2
<1> QED BY <1>3 DEF ByName, Entries

LEMMA ByPathType ==
    ASSUME NEW a \in Seq(Entries), NEW p, HasPath(a, p)
    PROVE  ByPath(a, p) \in Data
BY ByNameType DEF HasPath, ByPath

LEMMA EncryptionContent ==
    ASSUME NEW c \in Contents, c.kind = "encryption"
    PROVE  c.elements \in Seq(EncryptedData)
BY DEF Contents

LEMMA OpfContent ==
    ASSUME NEW c \in Contents, c.kind = "opf"
    PROVE  c.manifest \in Seq(ManifestItems)
BY DEF Contents

LEMMA LicenseContent ==
    ASSUME NEW c \in Contents, c.kind = "license"
    PROVE  c.license \in Licenses
BY DEF Contents

LEMMA ManifestType ==
    ASSUME NEW a \in Seq(Entries), HasManifest(a)
    PROVE  Manifest(a) \in Seq(ManifestItems)
<1>1. Opf(a) \in Contents /\ Opf(a).kind = "opf"
  BY ByPathType DEF HasManifest, Parses, Opf, Data
<1> QED BY <1>1, OpfContent DEF Manifest

LEMMA LicenseOfType ==
    ASSUME NEW a \in Seq(Entries), IsLicensed(a)
    PROVE  LicenseOf(a) \in Licenses
BY ByPathType, LicenseContent DEF IsLicensed, Parses, LicenseOf, Data

LEMMA LengthType == ASSUME NEW d \in Data PROVE Length(d) \in Nat
<1>1. Len(d.layers) \in Nat
  BY DEF Data
<1>2. d.content \in Contents
  BY DEF Data
<1>3. d.content.kind = "text" => Size[d.content.text] \in Nat
  BY <1>2, EpubAssumption DEF Contents
<1> QED BY <1>1, <1>3 DEF Length, Overhead

LEMMA EncipherType ==
    ASSUME NEW d \in Data, NEW key \in ContentKeys, NEW deflated \in BOOLEAN
    PROVE  Encipher(d, key, deflated) \in Data
<1>1. Append(d.layers, [key |-> key, deflated |-> deflated]) \in Seq(Layers)
  BY AppendProperties DEF Data, Layers
<1> QED BY <1>1 DEF Encipher, Data

LEMMA DecipherType ==
    ASSUME NEW d \in Data, d.layers # << >>
    PROVE  Decipher(d) \in Data
<1>1. d.layers \in Seq(Layers) /\ Len(d.layers) \in Nat /\ Len(d.layers) # 0
  BY EmptySeq DEF Data
<1>2. SubSeq(d.layers, 1, Len(d.layers) - 1) \in Seq(Layers)
  BY <1>1, SubSeqProperties
<1> QED BY <1>2 DEF Decipher, Data

LEMMA WriteEncryptionXmlType ==
    ASSUME NEW list \in Seq(EncryptedFileInfo)
    PROVE  WriteEncryptionXml(list) \in Contents
<1> DEFINE elements == WriteEncryptionXml(list).elements
<1>1. DOMAIN list = 1..Len(list) /\ Len(list) \in Nat
  BY LenProperties
<1>2. ASSUME NEW k \in DOMAIN list PROVE elements[k] \in EncryptedData
  <2>1. list[k] \in EncryptedFileInfo
    BY <1>1, <1>2
  <2>2. elements[k] = [uri |-> list[k].uri, algorithm |-> LCP_ALGORITHM,
                       method |-> IF list[k].is_compressed THEN "8" ELSE "0",
                       original_length |-> list[k].original_length]
    BY <1>2 DEF WriteEncryptionXml
  <2> QED BY <2>1, <2>2 DEF EncryptedFileInfo, EncryptedData
<1>3. elements \in [1..Len(list) -> EncryptedData]
  BY <1>1, <1>2 DEF WriteEncryptionXml
<1>4. elements \in Seq(EncryptedData)
  BY <1>1, <1>3
<1> QED BY <1>4 DEF WriteEncryptionXml, Contents

LEMMA EncryptedResourcesType ==
    ASSUME NEW a \in Seq(Entries), Parses(a, ENCRYPTION_FILE, "encryption")
    PROVE  EncryptedResources(a) \in Seq(EncryptedFileInfo)
<1> DEFINE c == ByPath(a, ENCRYPTION_FILE).content
<1>1. c.elements \in Seq(EncryptedData)
  BY ByPathType, EncryptionContent DEF Parses, Data
<1>2. DOMAIN c.elements = 1..Len(c.elements) /\ Len(c.elements) \in Nat
  BY <1>1, LenProperties
<1>3. ASSUME NEW k \in DOMAIN c.elements
      PROVE  ParseEncryptionXml(c)[k] \in EncryptedFileInfo
  <2>1. c.elements[k] \in EncryptedData
    BY <1>1
  <2> QED BY <2>1 DEF ParseEncryptionXml, ParseEncryptedData, EncryptedData, EncryptedFileInfo
<1>4. ParseEncryptionXml(c) \in [1..Len(c.elements) -> EncryptedFileInfo]
  BY <1>2, <1>3 DEF ParseEncryptionXml
<1> QED BY <1>2, <1>4 DEF EncryptedResources

LEMMA NewLicenseType ==
    ASSUME NEW id \in Nat, NEW key \in ContentKeys, NEW user \in UserKeys,
           NEW creds \in AllCredentials
    PROVE  Sign(WithEncryption(id, key, user), creds) \in Licenses
<1>1. WithEncryption(id, key, user) \in Bodies
  BY DEF WithEncryption, Bodies, UserKeys
<1> QED BY <1>1 DEF Sign, Licenses, Signatures, AllCredentials

----------------------------------------------------------------------------
(***************************************************************************)
(* Types.  The loop over the manifest needs that there is one, which       *)
(* clone_reader has found out by then.                                     *)
(***************************************************************************)
ManifestFound ==
    pc \in {"copy", "encrypt"} /\ job.cmd # "decrypt" => HasManifest(src)

TypeInv == TypeOK /\ ManifestFound

LEMMA EndType ==
    ASSUME TypeOK, NEW outcome \in Results, End(outcome), fs' \in [Paths -> Files],
           issued' \subseteq Licenses
    PROVE  TypeInv'
<1>1. << >> \in Seq(Entries) /\ << >> \in Seq(EncryptedFileInfo)
  OBVIOUS
<1> QED BY <1>1 DEF TypeOK, TypeInv, ManifestFound, End

LEMMA LeaveType ==
    ASSUME TypeOK, pc # "idle", NEW file \in Files, Leave(file)
    PROVE  fs' \in [Paths -> Files]
BY DEF TypeOK, Leave, EncryptJobs, DecryptJobs

LEMMA ZipType == ASSUME NEW a \in Seq(Entries) PROVE Zip(a) \in Files
BY DEF Zip, Files

LEMMA TornType == Torn \in Files /\ Nothing \in Files
BY DEF Files

LEMMA EntriesType ==
    ASSUME TypeOK, NEW in \in Paths
    PROVE  fs[in].entries \in Seq(Entries)
<1>1. fs[in] \in Files
  BY DEF TypeOK
<1>2. << >> \in Seq(Entries)
  OBVIOUS
<1>3. CASE fs[in] \in {Nothing, Torn}
  <2>1. fs[in].entries = << >>
    BY <1>3 DEF Nothing, Torn
  <2> QED BY <2>1, <1>2
<1>4. CASE fs[in] \in [state: {"zip"}, entries: Seq(Entries)]
  BY <1>4
<1> QED BY <1>1, <1>3, <1>4 DEF Files

LEMMA BeginType ==
    ASSUME TypeInv,
           NEW phase \in {"clone", "resources"}, NEW newJob,
           Begin(phase, newJob),
           phase = "clone" => newJob \in EncryptJobs,
           phase = "resources" => newJob \in DecryptJobs,
           fs' = fs \/ \E out \in Paths : Create(out)
    PROVE  TypeInv'
<1>1. newJob.in \in Paths
  BY DEF EncryptJobs, DecryptJobs
<1>2. src' \in Seq(Entries)
  BY <1>1, EntriesType DEF Begin, TypeInv
<1>3. fs' \in [Paths -> Files]
  BY TornType DEF Create, TypeInv, TypeOK
<1>4. runs' \in 0..MaxRuns
  BY CoreAssumption DEF Begin, TypeInv, TypeOK
<1>5. pc' = "clone" \/ pc' = "resources"
  BY DEF Begin
<1> QED
  BY <1>2, <1>3, <1>4, <1>5
  DEF Begin, TypeInv, TypeOK, ManifestFound, EncryptPhases, DecryptPhases, Results

LEMMA OfferedType ==
    ASSUME TypeOK, NEW front, NEW in \in Paths, NEW l \in Offered(front, in)
    PROVE  l \in Licenses
<1>1. IsLicensed(fs[in].entries) => LicenseOf(fs[in].entries) \in Licenses
  BY EntriesType, LicenseOfType
<1> QED BY <1>1 DEF Offered, TypeOK

LEMMA WriteType ==
    ASSUME TypeOK, NEW e \in Entries
    PROVE  Append(w, e) \in Seq(Entries)
BY AppendProperties DEF TypeOK

LEMMA SourceEntry ==
    ASSUME TypeOK, i <= Len(src)
    PROVE  src[i] \in Entries
BY ElementOfSeq, LenProperties DEF TypeOK

LEMMA MimetypeType ==
    ASSUME NEW a \in Seq(Entries)
    PROVE  MimetypeOf(a) \in Seq(Entries)
<1>1. CASE HasEntry(a, MIMETYPE)
  <2>1. [name |-> MIMETYPE, data |-> ByName(a, MIMETYPE)] \in Entries
    BY <1>1, ByNameType, FileNames DEF Entries
  <2> QED BY <1>1, <2>1 DEF MimetypeOf
<1>2. CASE ~ HasEntry(a, MIMETYPE)
  BY <1>2 DEF MimetypeOf
<1> QED BY <1>1, <1>2

LEMMA ItemPath ==
    ASSUME TypeInv, pc = "encrypt", i <= Len(Manifest(src)),
           NeedsEncryption(Opf(src), Manifest(src)[i])
    PROVE  Manifest(src)[i].href \in Names
<1>1. job.cmd # "decrypt" /\ src \in Seq(Entries) /\ i \in Nat \ {0}
  BY DEF TypeInv, TypeOK, EncryptPhases, DecryptPhases, EncryptJobs
<1>2. Manifest(src) \in Seq(ManifestItems)
  BY <1>1, ManifestType DEF TypeInv, ManifestFound
<1>3. Manifest(src)[i] \in ManifestItems
  BY <1>1, <1>2, ElementOfSeq
<1> QED BY <1>3, FileNames DEF NeedsEncryption, IsParsed, ManifestItems

LEMMA TypeInvariant == Spec => []TypeInv
<1>1. Init => TypeInv
  <2> SUFFICES ASSUME Init PROVE TypeInv
    OBVIOUS
  <2>1. << >> \in Seq(Entries) /\ << >> \in Seq(EncryptedFileInfo)
    OBVIOUS
  <2>2. ASSUME NEW f \in {Nothing} \cup {Zip(a) : a \in Sources}
        PROVE  f \in Files
    BY ZipType, TornType, CoreAssumption
  <2>3. fs \in [Paths -> Files]
    BY <2>2 DEF Init
  <2> QED BY <2>1, <2>3, CoreAssumption DEF Init, TypeInv, TypeOK, ManifestFound, Results
<1>2. TypeInv /\ [Next]_vars => TypeInv'
  <2> SUFFICES ASSUME TypeInv, [Next]_vars PROVE TypeInv'
    OBVIOUS
  <2> USE DEF TypeInv
  <2>1. ASSUME NEW in \in Paths, NEW out \in Paths, NEW p \in Passphrases,
               NEW f \in Profiles, NEW c \in Credentials,
               BeginEncrypt(in, out, p, f, c) \/ BeginEncryptBytes(in, out, p, f, c)
        PROVE  TypeInv'
    <3>1. UserEncryptionKey(p, f) \in UserKeys /\ c \in AllCredentials
      BY LicenseAssumption DEF UserEncryptionKey, UserKeys
    <3>2. runs + 1 \in ContentKeys
      BY CoreAssumption DEF TypeOK, ContentKeys
    <3>3. CASE BeginEncrypt(in, out, p, f, c)
      <4> DEFINE newJob ==
                   [cmd |-> "encrypt", in |-> in, out |-> out, key |-> runs + 1,
                    user_key |-> UserEncryptionKey(p, f), creds |-> c]
      <4>1. newJob \in EncryptJobs
        BY <3>1, <3>2 DEF EncryptJobs
      <4>2. Begin("clone", newJob) /\ Create(out)
        BY <3>3 DEF BeginEncrypt
      <4> HIDE DEF newJob
      <4> QED BY <4>1, <4>2, BeginType
    <3>4. CASE BeginEncryptBytes(in, out, p, f, c)
      <4> DEFINE newJob ==
                   [cmd |-> "encrypt_bytes", in |-> in, out |-> out, key |-> runs + 1,
                    user_key |-> UserEncryptionKey(p, f), creds |-> c]
      <4>1. newJob \in EncryptJobs
        BY <3>1, <3>2 DEF EncryptJobs
      <4>2. Begin("clone", newJob) /\ fs' = fs
        BY <3>4 DEF BeginEncryptBytes
      <4> HIDE DEF newJob
      <4> QED BY <4>1, <4>2, BeginType
    <3> QED BY <2>1, <3>3, <3>4
  <2>2. ASSUME NEW front \in {"lib", "ffi"}, NEW in \in Paths, NEW out \in Paths,
               NEW p \in Passphrases, NEW l \in Offered(front, in),
               BeginDecrypt(front, in, out, l, p)
        PROVE  TypeInv'
    <3> DEFINE key == DecryptContentKey(l, UserEncryptionKey(p, l.body.profile))
               newJob == [cmd |-> "decrypt", in |-> in, out |-> out, key |-> key]
    <3>1. l \in Licenses
      BY OfferedType
    <3>2. key \in ContentKeys
      BY <3>1 DEF DecryptContentKey, Licenses, Bodies, GarbageKey, ContentKeys
    <3>3. newJob \in DecryptJobs
      BY <3>2 DEF DecryptJobs
    <3>4. Begin("resources", newJob) /\ Create(out)
      BY <2>2 DEF BeginDecrypt
    <3> HIDE DEF newJob
    <3> QED BY <3>3, <3>4, BeginType
  <2>3. CASE RefuseToBegin
    BY <2>3, CoreAssumption DEF RefuseToBegin, TypeOK, ManifestFound, Results
  <2>4. CASE CloneMimetype
    <3>1. w' \in Seq(Entries) /\ HasManifest(src)
      BY <2>4, MimetypeType DEF CloneMimetype, TypeOK
    <3> QED BY <2>4, <3>1
            DEF CloneMimetype, Goto, TypeOK, ManifestFound, EncryptPhases, DecryptPhases
  <2>5. CASE SkipEntry
    BY <2>5 DEF SkipEntry, Stay, TypeOK, ManifestFound
  <2>6. CASE CopyEntry
    <3>1. w' \in Seq(Entries)
      BY <2>6, SourceEntry, WriteType DEF CopyEntry, Write
    <3> QED BY <2>6, <3>1 DEF CopyEntry, Stay, TypeOK, ManifestFound
  <2>7. CASE EndCopy
    BY <2>7 DEF EndCopy, Goto, TypeOK, ManifestFound, EncryptPhases, DecryptPhases,
                EncryptJobs, DecryptJobs
  <2>8. CASE SkipItem
    BY <2>8 DEF SkipItem, Stay, TypeOK, ManifestFound
  <2>9. CASE EncryptItem
    <3> DEFINE item == Manifest(src)[i]
               data == ByPath(src, item.href)
               info == [uri |-> item.href, is_compressed |-> ~ IsCodec(item),
                        original_length |-> Length(data)]
    <3>1. item.href \in Names
      BY <2>9, ItemPath DEF EncryptItem
    <3>2. data \in Data
      BY <2>9, ByPathType DEF EncryptItem, TypeOK
    <3>3. (~ IsCodec(item)) \in BOOLEAN
      BY DEF IsCodec
    <3>4. job.key \in ContentKeys
      BY <2>9 DEF EncryptItem, TypeOK, EncryptJobs, DecryptJobs
    <3>5. Encipher(data, job.key, ~ IsCodec(item)) \in Data
      BY <3>2, <3>3, <3>4, EncipherType
    <3>6. [name |-> item.href, data |-> Encipher(data, job.key, ~ IsCodec(item))] \in Entries
      BY <3>1, <3>5 DEF Entries
    <3>7. w' \in Seq(Entries)
      BY <2>9, <3>6, WriteType DEF EncryptItem, Write
    <3>8. info \in EncryptedFileInfo
      BY <3>1, <3>2, <3>3, LengthType DEF EncryptedFileInfo
    <3>9. infos' \in Seq(EncryptedFileInfo)
      BY <2>9, <3>8, AppendProperties DEF EncryptItem, TypeOK
    <3> QED BY <2>9, <3>7, <3>9 DEF EncryptItem, Stay, TypeOK, ManifestFound
  <2>10. CASE EndEncrypt
    BY <2>10 DEF EndEncrypt, Goto, TypeOK, ManifestFound, EncryptPhases, DecryptPhases
  <2>11. CASE WriteListing
    <3>1. Entry(ENCRYPTION_FILE, WriteEncryptionXml(infos)) \in Entries
      BY EntryType, FileNames, WriteEncryptionXmlType DEF TypeOK
    <3>2. w' \in Seq(Entries)
      BY <2>11, <3>1, WriteType DEF WriteListing, Write
    <3> QED BY <2>11, <3>2
            DEF WriteListing, Goto, TypeOK, ManifestFound, EncryptPhases, DecryptPhases
  <2>12. ASSUME NEW outcome \in Results, Embed(outcome) PROVE TypeInv'
    <3>1. job \in EncryptJobs
      BY <2>12 DEF Embed, TypeOK, EncryptPhases, DecryptPhases
    <3>2. NewLicense \in Licenses
      BY <3>1, NewLicenseType, CoreAssumption DEF NewLicense, EncryptJobs, TypeOK
    <3>3. [kind |-> "license", license |-> NewLicense] \in Contents
      BY <3>2 DEF Contents
    <3> DEFINE e == Entry(LICENSE_FILE, [kind |-> "license", license |-> NewLicense])
    <3>4. e \in Entries
      BY <3>3, EntryType, FileNames
    <3> HIDE DEF e
    <3>5. Zip(Append(w, e)) \in Files
      BY <3>4, WriteType, ZipType
    <3>6. fs' \in [Paths -> Files]
      BY <2>12, <3>5, LeaveType DEF Embed, e
    <3> QED BY <2>12, <3>6, EndType DEF Embed, TypeOK
  <2>13. CASE FinishBytes
    <3>1. job \in EncryptJobs
      BY <2>13 DEF FinishBytes, TypeOK, EncryptJobs, DecryptJobs
    <3>2. NewLicense \in Licenses
      BY <3>1, NewLicenseType, CoreAssumption DEF NewLicense, EncryptJobs, TypeOK
    <3>3. issued' \subseteq Licenses
      BY <2>13, <3>2 DEF FinishBytes, TypeOK
    <3>4. fs' \in [Paths -> Files]
      BY <2>13, <3>1, ZipType DEF FinishBytes, TypeOK, EncryptJobs
    <3> QED BY <2>13, <3>3, <3>4, EndType DEF FinishBytes, Results
  <2>14. CASE ReadResources
    <3>1. infos' \in Seq(EncryptedFileInfo)
      BY <2>14, EncryptedResourcesType DEF ReadResources, TypeOK
    <3> QED BY <2>14, <3>1
            DEF ReadResources, Goto, TypeOK, ManifestFound, EncryptPhases, DecryptPhases
  <2>15. CASE DecryptResource
    <3> DEFINE data == ByPath(src, infos[i].uri)
    <3>1. infos[i] \in EncryptedFileInfo
      BY <2>15, ElementOfSeq DEF DecryptResource, TypeOK
    <3>2. data \in Data /\ data.layers # << >>
      BY <2>15, ByPathType DEF DecryptResource, ComesOff, TypeOK
    <3>3. [name |-> infos[i].uri, data |-> Decipher(data)] \in Entries
      BY <3>1, <3>2, DecipherType DEF Entries, EncryptedFileInfo
    <3>4. w' \in Seq(Entries)
      BY <2>15, <3>3, WriteType DEF DecryptResource, Write
    <3> QED BY <2>15, <3>4 DEF DecryptResource, Stay, TypeOK, ManifestFound
  <2>16. CASE DecryptToNoise
    <3>1. infos[i] \in EncryptedFileInfo
      BY <2>16, ElementOfSeq DEF DecryptToNoise, TypeOK
    <3>2. Entry(infos[i].uri, Noise) \in Entries
      BY <3>1, NoiseType, EntryType DEF EncryptedFileInfo
    <3>3. w' \in Seq(Entries)
      BY <2>16, <3>2, WriteType DEF DecryptToNoise, Write
    <3> QED BY <2>16, <3>3 DEF DecryptToNoise, Stay, TypeOK, ManifestFound
  <2>17. CASE EndDecrypt
    BY <2>17 DEF EndDecrypt, Goto, TypeOK, ManifestFound, EncryptPhases, DecryptPhases,
                 EncryptJobs, DecryptJobs
  <2>18. CASE FinishDecrypt
    <3>1. Zip(w) \in Files
      BY ZipType DEF TypeOK
    <3> QED BY <2>18, <3>1, LeaveType, EndType DEF FinishDecrypt, TypeOK, Results
  <2>19. CASE ReturnError
    <3>1. Zip(w) \in Files
      BY ZipType DEF TypeOK
    <3>2. pc # "idle"
      BY <2>19 DEF ReturnError, Error
    <3> QED BY <2>19, <3>1, <3>2, LeaveType, EndType DEF ReturnError, TypeOK, Results
  <2>20. CASE IoError
    <3>1. ASSUME NEW n \in Names PROVE Zip(Append(w, Entry(n, Noise))) \in Files
      BY EntryType, NoiseType, WriteType, ZipType
    <3>2. Zip(w) \in Files
      BY ZipType DEF TypeOK
    <3>3. ASSUME NEW left \in {Torn, Zip(w)} \cup
                     {Zip(Append(w, Entry(n, Noise))) : n \in {p \in Pending : Startable(p)}}
          PROVE  left \in Files
      BY <3>1, <3>2, TornType DEF Pending
    <3>4. fs' \in [Paths -> Files]
      BY <2>20, <3>3, LeaveType DEF IoError
    <3> QED BY <2>20, <3>4, EndType DEF IoError, TypeOK, Results
  <2>21. CASE Kill
    BY <2>21, TornType, LeaveType, EndType DEF Kill, TypeOK, Results
  <2>22. CASE UNCHANGED vars
    BY <2>22 DEF vars, TypeOK, ManifestFound
  <2> QED
    BY <2>1, <2>2, <2>3, <2>4, <2>5, <2>6, <2>7, <2>8, <2>9, <2>10, <2>11, <2>12,
       <2>13, <2>14, <2>15, <2>16, <2>17, <2>18, <2>19, <2>20, <2>21, <2>22
    DEF Next, Start, Step, EmbedLicense, FinishFails, Results
<1> QED BY <1>1, <1>2, PTL DEF Spec

\* The state of lcp-core's operations is well typed: every entry a run copies,
\* enciphers, deciphers or cuts short is an entry, and every file an archive.
THEOREM TypeCorrectCore == Spec => []TypeOK
BY TypeInvariant, PTL DEF TypeInv

----------------------------------------------------------------------------
(***************************************************************************)
(* The license goes in last.  What a run has written so far has no license *)
(* in it: it copies none, what it enciphers is not one, and what it        *)
(* deciphers is not one either, because an archive whose license.lcpl is   *)
(* enciphered is not opened.                                               *)
(***************************************************************************)
IsLicense(entry) ==
    /\ entry.name = LICENSE_FILE
    /\ entry.data.layers = << >>
    /\ entry.data.content.kind = "license"

Unlicensed(archive) == \A k \in DOMAIN archive : ~ IsLicense(archive[k])

EndsInListing(archive) ==
    /\ archive # << >>
    /\ archive[Len(archive)].name = ENCRYPTION_FILE
    /\ archive[Len(archive)].data.content.kind = "encryption"

SealInv ==
    /\ LicenseGoesInLast
    /\ Unlicensed(w)
    /\ pc = "embed" => EndsInListing(w)
    /\ pc # "idle" /\ job.cmd = "decrypt" => Opens(src)

LEMMA UnlicensedFile ==
    ASSUME NEW a \in Seq(Entries), Unlicensed(a)
    PROVE  SourceOrSealed(Zip(a))
<1>1. SUFFICES ASSUME IsLicensed(a) PROVE FALSE
  BY DEF SourceOrSealed, Zip
<1>2. Normal[LICENSE_FILE] = LICENSE_FILE
  BY EpubAssumption
<1>3. PICK k \in DOMAIN a : a[k].name = LICENSE_FILE
  BY <1>1, <1>2 DEF IsLicensed, Parses, HasPath, HasEntry
<1> DEFINE c == CHOOSE j \in DOMAIN a : a[j].name = LICENSE_FILE
<1>4. c \in DOMAIN a /\ a[c].name = LICENSE_FILE
  BY <1>3
<1>5. IsLicense(a[c])
  BY <1>1, <1>2, <1>4 DEF IsLicensed, Parses, ByPath, ByName, IsLicense
<1> QED BY <1>4, <1>5 DEF Unlicensed

LEMMA UnlicensedAppend ==
    ASSUME NEW a \in Seq(Entries), Unlicensed(a), NEW e \in Entries, ~ IsLicense(e)
    PROVE  Unlicensed(Append(a, e))
BY AppendProperties, LenProperties DEF Unlicensed

LEMMA EmptyFiles == SourceOrSealed(Nothing) /\ SourceOrSealed(Torn)
BY DEF SourceOrSealed, Nothing, Torn

LEMMA SealedLeave ==
    ASSUME TypeOK, LicenseGoesInLast, pc # "idle", NEW file, SourceOrSealed(file),
           Leave(file)
    PROVE  LicenseGoesInLast'
<1>1. job.out \in Paths
  BY DEF TypeOK, EncryptJobs, DecryptJobs
<1> QED BY <1>1 DEF TypeOK, Leave, LicenseGoesInLast, SourceOrSealed, SealedLast, IsLicensed

LEMMA SealedEnd ==
    ASSUME LicenseGoesInLast', NEW outcome, End(outcome)
    PROVE  SealInv'
BY DEF End, SealInv, Unlicensed

LEMMA SealInvariant == Spec => []SealInv
<1>1. Init => SealInv
  <2> SUFFICES ASSUME Init PROVE SealInv
    OBVIOUS
  <2>1. ASSUME NEW p \in Paths PROVE SourceOrSealed(fs[p])
    BY EmptyFiles DEF Init, SourceOrSealed, Zip
  <2> QED BY <2>1 DEF Init, SealInv, LicenseGoesInLast, Unlicensed
<1>2. TypeInv /\ TypeInv' /\ SealInv /\ [Next]_vars => SealInv'
  <2> SUFFICES ASSUME TypeInv, TypeInv', SealInv, [Next]_vars PROVE SealInv'
    OBVIOUS
  <2> USE DEF TypeInv
  <2>0. UNCHANGED fs => LicenseGoesInLast'
    BY DEF SealInv, LicenseGoesInLast
  <2>1. ASSUME NEW in \in Paths, NEW out \in Paths, NEW p \in Passphrases,
               NEW f \in Profiles, NEW c \in Credentials,
               BeginEncrypt(in, out, p, f, c) \/ BeginEncryptBytes(in, out, p, f, c)
        PROVE  SealInv'
    <3>1. LicenseGoesInLast'
      BY <2>0, <2>1, EmptyFiles
      DEF BeginEncrypt, BeginEncryptBytes, Create, SealInv, LicenseGoesInLast, TypeOK
    <3>2. w' = w /\ pc' = "clone" /\ job'.cmd # "decrypt"
      BY <2>1 DEF BeginEncrypt, BeginEncryptBytes, Begin
    <3> QED BY <3>1, <3>2 DEF SealInv
  <2>2. ASSUME NEW front \in {"lib", "ffi"}, NEW in \in Paths, NEW out \in Paths,
               NEW p \in Passphrases, NEW l \in Offered(front, in),
               BeginDecrypt(front, in, out, l, p)
        PROVE  SealInv'
    <3>1. LicenseGoesInLast'
      BY <2>2, EmptyFiles DEF BeginDecrypt, Create, SealInv, LicenseGoesInLast, TypeOK
    <3>2. w' = w /\ pc' = "resources" /\ Opens(src')
      BY <2>2 DEF BeginDecrypt, Begin, Openable
    <3> QED BY <3>1, <3>2 DEF SealInv
  <2>3. CASE RefuseToBegin
    BY <2>0, <2>3 DEF RefuseToBegin, SealInv
  <2>4. CASE CloneMimetype
    <3>1. \A k \in DOMAIN w' : w'[k].name = MIMETYPE
      BY <2>4 DEF CloneMimetype, MimetypeOf
    <3>2. Unlicensed(w)'
      BY <3>1 DEF Unlicensed, IsLicense, MIMETYPE, LICENSE_FILE
    <3> QED BY <2>0, <2>4, <3>2 DEF CloneMimetype, Goto, SealInv
  <2>5. CASE SkipEntry
    BY <2>0, <2>5 DEF SkipEntry, Stay, SealInv
  <2>6. CASE CopyEntry
    <3>1. ~ IsLicense(src[i])
      BY <2>6 DEF CopyEntry, NotCopied, IsLicense
    <3>2. Unlicensed(w')
      BY <2>6, <3>1, SourceEntry, UnlicensedAppend DEF CopyEntry, Write, SealInv, TypeOK
    <3> QED BY <2>0, <2>6, <3>2 DEF CopyEntry, Stay, SealInv
  <2>7. CASE EndCopy
    BY <2>0, <2>7 DEF EndCopy, Goto, SealInv
  <2>8. CASE SkipItem
    BY <2>0, <2>8 DEF SkipItem, Stay, SealInv
  <2>9. CASE EncryptItem
    <3> DEFINE item == Manifest(src)[i]
               data == ByPath(src, item.href)
               e == [name |-> item.href, data |-> Encipher(data, job.key, ~ IsCodec(item))]
    <3>1. data \in Data
      BY <2>9, ByPathType DEF EncryptItem, TypeOK
    <3>2. e.data.layers = Append(data.layers, [key |-> job.key, deflated |-> ~ IsCodec(item)])
      BY <3>1 DEF Encipher, Data
    <3>3. e.data.layers # << >>
      <4>1. data.layers \in Seq(Layers) /\ Len(data.layers) \in Nat
        BY <3>1 DEF Data
      <4> QED BY <3>2, <4>1
    <3>4. ~ IsLicense(e)
      BY <3>3 DEF IsLicense
    <3>5. item.href \in Names
      BY <2>9, ItemPath DEF EncryptItem
    <3>6. (~ IsCodec(item)) \in BOOLEAN /\ job.key \in ContentKeys
      BY <2>9 DEF IsCodec, EncryptItem, TypeOK, EncryptJobs, DecryptJobs
    <3>7. e \in Entries
      BY <3>1, <3>5, <3>6, EncipherType DEF Entries
    <3> HIDE DEF e
    <3>8. w' = Append(w, e)
      BY <2>9 DEF EncryptItem, Write, e
    <3>9. Unlicensed(w')
      BY <3>4, <3>7, <3>8, UnlicensedAppend DEF SealInv, TypeOK
    <3> QED BY <2>0, <2>9, <3>9 DEF EncryptItem, Stay, SealInv
  <2>10. CASE EndEncrypt
    BY <2>0, <2>10 DEF EndEncrypt, Goto, SealInv
  <2>11. CASE WriteListing
    <3> DEFINE e == Entry(ENCRYPTION_FILE, WriteEncryptionXml(infos))
    <3>1. e \in Entries
      BY EntryType, FileNames, WriteEncryptionXmlType DEF TypeOK
    <3>2. e.name = ENCRYPTION_FILE /\ e.data.content.kind = "encryption"
      BY DEF Entry, WriteEncryptionXml
    <3>3. ~ IsLicense(e)
      BY <3>2 DEF IsLicense
    <3> HIDE DEF e
    <3>4. w' = Append(w, e)
      BY <2>11 DEF WriteListing, Write, e
    <3>5. Unlicensed(w') /\ EndsInListing(w')
      <4>1. w \in Seq(Entries) /\ Unlicensed(w)
        BY DEF SealInv, TypeOK
      <4>2. Unlicensed(w')
        BY <3>1, <3>3, <3>4, <4>1, UnlicensedAppend
      <4>3. w' # << >> /\ w'[Len(w')] = e
        BY <3>1, <3>4, <4>1, AppendProperties
      <4> QED BY <3>2, <4>2, <4>3 DEF EndsInListing
    <3> QED BY <2>0, <2>11, <3>5
            DEF WriteListing, Goto, SealInv, TypeOK, DecryptPhases, DecryptJobs
  <2>12. ASSUME NEW outcome, Embed(outcome) PROVE SealInv'
    <3> DEFINE e == Entry(LICENSE_FILE, [kind |-> "license", license |-> NewLicense])
               a == Append(w, e)
    <3>1. KeyCheck(NewLicense, NewLicense.body.content_key.under)
      BY DEF NewLicense, Sign, WithEncryption, KeyCheck
    <3>2. e.name = LICENSE_FILE /\ e.data.content.license = NewLicense
      BY DEF Entry
    <3>3. w \in Seq(Entries) /\ EndsInListing(w)
      BY <2>12 DEF Embed, SealInv, TypeOK
    <3> HIDE DEF e
    <3>4. Len(a) = Len(w) + 1 /\ a[Len(a)] = e /\ a[Len(a) - 1] = w[Len(w)] /\ Len(a) > 1
      BY <3>3, LenProperties, EmptySeq DEF EndsInListing
    <3>5. SealedLast(a)
      BY <3>1, <3>2, <3>3, <3>4 DEF SealedLast, EndsInListing
    <3>6. SourceOrSealed(Zip(a))
      BY <3>5 DEF SourceOrSealed, Zip
    <3>7. LicenseGoesInLast'
      BY <2>12, <3>6, SealedLeave DEF Embed, SealInv, e
    <3> QED BY <2>12, <3>7, SealedEnd DEF Embed
  <2>13. CASE FinishBytes
    <3>1. SourceOrSealed(Zip(w)) /\ job.out \in Paths
      BY <2>13, UnlicensedFile DEF FinishBytes, SealInv, TypeOK, EncryptJobs, DecryptJobs
    <3>2. LicenseGoesInLast'
      BY <2>13, <3>1 DEF FinishBytes, SealInv, LicenseGoesInLast, TypeOK
    <3> QED BY <2>13, <3>2, SealedEnd DEF FinishBytes
  <2>14. CASE ReadResources
    BY <2>0, <2>14 DEF ReadResources, Goto, SealInv
  <2>15. CASE DecryptResource
    <3> DEFINE uri == infos[i].uri
               e == [name |-> uri, data |-> Decipher(ByPath(src, uri))]
    <3>1. Normal[LICENSE_FILE] = LICENSE_FILE
      BY EpubAssumption
    <3>2. Opens(src)
      BY <2>15 DEF DecryptResource, SealInv, TypeOK, EncryptPhases, DecryptJobs
    <3>3. HasPath(src, uri) /\ ByPath(src, uri).layers # << >>
      BY <2>15 DEF DecryptResource, ComesOff
    <3>4. uri # LICENSE_FILE
      BY <3>1, <3>2, <3>3 DEF Opens, Parses, HasPath
    <3>5. infos[i] \in EncryptedFileInfo
      BY <2>15, ElementOfSeq DEF DecryptResource, TypeOK
    <3>6. e \in Entries
      BY <2>15, <3>3, <3>5, ByPathType, DecipherType
      DEF DecryptResource, TypeOK, Entries, EncryptedFileInfo
    <3>7. ~ IsLicense(e)
      BY <3>4 DEF IsLicense
    <3> HIDE DEF e
    <3>8. w' = Append(w, e)
      BY <2>15 DEF DecryptResource, Write, e
    <3>9. Unlicensed(w')
      BY <3>6, <3>7, <3>8, UnlicensedAppend DEF SealInv, TypeOK
    <3> QED BY <2>0, <2>15, <3>9 DEF DecryptResource, Stay, SealInv
  <2>16. CASE DecryptToNoise
    <3> DEFINE e == Entry(infos[i].uri, Noise)
    <3>1. infos[i] \in EncryptedFileInfo
      BY <2>16, ElementOfSeq DEF DecryptToNoise, TypeOK
    <3>2. e \in Entries
      BY <3>1, NoiseType, EntryType DEF EncryptedFileInfo
    <3>3. ~ IsLicense(e)
      BY DEF IsLicense, Entry, Noise
    <3> HIDE DEF e
    <3>4. w' = Append(w, e)
      BY <2>16 DEF DecryptToNoise, Write, e
    <3>5. Unlicensed(w')
      BY <3>2, <3>3, <3>4, UnlicensedAppend DEF SealInv, TypeOK
    <3> QED BY <2>0, <2>16, <3>5 DEF DecryptToNoise, Stay, SealInv
  <2>17. CASE EndDecrypt
    BY <2>0, <2>17 DEF EndDecrypt, Goto, SealInv
  <2>18. CASE FinishDecrypt
    <3>1. SourceOrSealed(Zip(w))
      BY UnlicensedFile DEF SealInv, TypeOK
    <3> QED BY <2>18, <3>1, SealedLeave, SealedEnd DEF FinishDecrypt, SealInv
  <2>19. CASE ReturnError
    <3>1. SourceOrSealed(Zip(w))
      BY UnlicensedFile DEF SealInv, TypeOK
    <3>2. pc # "idle"
      BY <2>19 DEF ReturnError, Error
    <3> QED BY <2>19, <3>1, <3>2, SealedLeave, SealedEnd DEF ReturnError, SealInv
  <2>20. CASE IoError
    <3>1. ASSUME NEW n \in Names PROVE SourceOrSealed(Zip(Append(w, Entry(n, Noise))))
      <4>1. Entry(n, Noise) \in Entries /\ ~ IsLicense(Entry(n, Noise))
        BY EntryType, NoiseType DEF IsLicense, Entry, Noise
      <4>2. Append(w, Entry(n, Noise)) \in Seq(Entries)
        BY <4>1, WriteType
      <4> QED BY <4>1, <4>2, UnlicensedAppend, UnlicensedFile DEF SealInv, TypeOK
    <3>2. SourceOrSealed(Zip(w))
      BY UnlicensedFile DEF SealInv, TypeOK
    <3>3. ASSUME NEW left \in {Torn, Zip(w)} \cup
                     {Zip(Append(w, Entry(n, Noise))) : n \in {p \in Pending : Startable(p)}}
          PROVE  SourceOrSealed(left)
      BY <3>1, <3>2, EmptyFiles DEF Pending
    <3>4. LicenseGoesInLast'
      BY <2>20, <3>3, SealedLeave DEF IoError, SealInv
    <3> QED BY <2>20, <3>4, SealedEnd DEF IoError
  <2>21. CASE Kill
    BY <2>21, EmptyFiles, SealedLeave, SealedEnd DEF Kill, SealInv
  <2>22. CASE UNCHANGED vars
    BY <2>0, <2>22 DEF vars, SealInv
  <2> QED
    BY <2>1, <2>2, <2>3, <2>4, <2>5, <2>6, <2>7, <2>8, <2>9, <2>10, <2>11, <2>12,
       <2>13, <2>14, <2>15, <2>16, <2>17, <2>18, <2>19, <2>20, <2>21, <2>22
    DEF Next, Start, Step, EmbedLicense, FinishFails
<1> QED BY <1>1, <1>2, TypeInvariant, PTL DEF Spec

\* Whatever runs leave behind, ended, failed half way or killed, a file that has a
\* license in it was there before or ends in its encryption.xml and its license.
THEOREM LicenseGoesInLastAlways == Spec => []LicenseGoesInLast
<1>1. SealInv => LicenseGoesInLast
  BY DEF SealInv
<1> QED BY <1>1, SealInvariant, PTL
=============================================================================
