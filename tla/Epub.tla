-------------------------------- MODULE Epub --------------------------------
(***************************************************************************)
(* EPUB archives as the epub module of lcp-core reads and writes them      *)
(* (crates/lcp-core/src/epub/mod.rs and epub/xml_utils.rs).                *)
(*                                                                         *)
(* An archive is the sequence of its entries.  An entry's content is what  *)
(* the program gets out of it once parsed, wrapped in the layers of        *)
(* deflating and enciphering applied to it, the outermost last.            *)
(***************************************************************************)
EXTENDS License, Sequences

CONSTANTS
    Names,      \* entry names, and the paths documents refer to entries by
    Texts,      \* what resources contain
    Size,       \* their lengths
    Normal,     \* Normal[p] is the entry name by_path looks up for p
    ItemIds     \* ids of manifest items

CONTAINER_FILE == "META-INF/container.xml"
ENCRYPTION_FILE == "META-INF/encryption.xml"
LICENSE_FILE == "META-INF/license.lcpl"
MIMETYPE == "mimetype"

\* image/* stands for every image type but SVG, which text compresses like.
MediaTypes ==
    {"application/xhtml+xml", "application/x-dtbncx+xml", "image/svg+xml",
     "image/*", "audio/*", "video/*", "application/pdf"}

\* Absent stands for an attribute an element does not have.
Absent == "(absent)"

\* properties are the markers is_encryption_exempt finds in the attribute.
ManifestItems ==
    [id: ItemIds \cup {Absent},
     href: Names \cup {Absent},
     media_type: MediaTypes \cup {Absent},
     properties: SUBSET {"nav", "cover-image"}]

\* One EncryptedData element.  method is "none" without a Compression child.
LCP_ALGORITHM == "aes256-cbc"
EncryptedData ==
    [uri: Names, algorithm: {LCP_ALGORITHM, "obfuscation"},
     method: {"8", "0", "none"}, original_length: Nat]

EncryptedFileInfo ==
    [uri: Names, is_compressed: BOOLEAN, original_length: Nat]

(***************************************************************************)
(* Contents.  "noise" is bytes that parse as nothing: a truncated entry,   *)
(* or what deciphering with the wrong key gives.                           *)
(***************************************************************************)
Contents ==
         [kind: {"noise"}]
    \cup [kind: {"text"}, text: Texts]
    \cup [kind: {"container"}, rootfile: Names]
    \cup [kind: {"opf"}, manifest: Seq(ManifestItems), cover: ItemIds \cup {Absent}]
    \cup [kind: {"encryption"}, elements: Seq(EncryptedData)]
    \cup [kind: {"license"}, license: Licenses]

Noise == [kind |-> "noise"]

Layers == [key: ContentKeys, deflated: BOOLEAN]
Data == [content: Contents, layers: Seq(Layers)]
Entries == [name: Names, data: Data]

Entry(name, content) ==
    [name |-> name, data |-> [content |-> content, layers |-> << >>]]

----------------------------------------------------------------------------
(***************************************************************************)
(* Reading.  A ZipArchive indexes its entries by name.  by_name takes the  *)
(* name as it is; by_path resolves "." and ".." components first.          *)
(***************************************************************************)
EntryNames(archive) == {archive[k].name : k \in DOMAIN archive}

HasEntry(archive, name) == \E k \in DOMAIN archive : archive[k].name = name

ByName(archive, name) ==
    archive[CHOOSE k \in DOMAIN archive : archive[k].name = name].data

HasPath(archive, path) == HasEntry(archive, Normal[path])
ByPath(archive, path) == ByName(archive, Normal[path])

\* A file as it is once the layers are off, and whether it parses as `kind'.
Parses(archive, path, kind) ==
    /\ HasPath(archive, path)
    /\ ByPath(archive, path).layers = << >>
    /\ ByPath(archive, path).content.kind = kind

\* Epub::new: the archive has a container, and its license parses if it has one.
Opens(archive) ==
    /\ HasPath(archive, CONTAINER_FILE)
    /\ HasEntry(archive, LICENSE_FILE) => Parses(archive, LICENSE_FILE, "license")

IsLicensed(archive) == Parses(archive, LICENSE_FILE, "license")
LicenseOf(archive) == ByPath(archive, LICENSE_FILE).content.license

\* opf_path, then manifest_items.
HasManifest(archive) ==
    /\ Parses(archive, CONTAINER_FILE, "container")
    /\ Parses(archive, ByPath(archive, CONTAINER_FILE).content.rootfile, "opf")

Opf(archive) ==
    ByPath(archive, ByPath(archive, CONTAINER_FILE).content.rootfile).content

Manifest(archive) == Opf(archive).manifest

----------------------------------------------------------------------------
(***************************************************************************)
(* The manifest.  href is the resource's path: the directory of the OPF    *)
(* file with the item's href appended, character by character.             *)
(***************************************************************************)
IsCover(opf, item) ==
    \/ opf.cover # Absent /\ opf.cover = item.id
    \/ "cover-image" \in item.properties

IsEncryptionExempt(opf, item) ==
    \/ "nav" \in item.properties
    \/ IsCover(opf, item)
    \/ item.media_type = "application/x-dtbncx+xml"

IsCodec(item) ==
    item.media_type \in {"image/*", "audio/*", "video/*", "application/pdf"}

\* parse_opf_manifest drops an item that lacks a required attribute.
IsParsed(item) == Absent \notin {item.id, item.href, item.media_type}

NeedsEncryption(opf, item) == IsParsed(item) /\ ~ IsEncryptionExempt(opf, item)

\* Mutant: what is skipped when copying is not what is enciphered afterwards.
FilesOfManifest(archive) ==
    {Manifest(archive)[k].href :
        k \in {j \in DOMAIN Manifest(archive) : IsParsed(Manifest(archive)[j])}}

FilesToEncrypt(archive) ==
    {Manifest(archive)[k].href :
        k \in {j \in DOMAIN Manifest(archive) :
                 NeedsEncryption(Opf(archive), Manifest(archive)[j])}}

----------------------------------------------------------------------------
(***************************************************************************)
(* encryption.xml, written and read back.  The parser looks at neither the *)
(* Algorithm nor the KeyInfo of an element; without a Compression child it *)
(* takes the resource for uncompressed and of length 0.                    *)
(***************************************************************************)
\* Mutants: every element says Method "0"; codecs are left out.
WriteEncryptionXmlStored(infos) ==
    [kind |-> "encryption",
     elements |-> [k \in DOMAIN infos |->
                     [uri |-> infos[k].uri, algorithm |-> LCP_ALGORITHM,
                      method |-> "0", original_length |-> infos[k].original_length]]]

WriteEncryptionXmlDeflated(infos) ==
    LET listed == SelectSeq(infos, LAMBDA info : info.is_compressed) IN
    [kind |-> "encryption",
     elements |-> [k \in DOMAIN listed |->
                     [uri |-> listed[k].uri, algorithm |-> LCP_ALGORITHM,
                      method |-> "8", original_length |-> listed[k].original_length]]]

WriteEncryptionXml(infos) ==
    [kind |-> "encryption",
     elements |-> [k \in DOMAIN infos |->
                     [uri |-> infos[k].uri,
                      algorithm |-> LCP_ALGORITHM,
                      method |-> IF infos[k].is_compressed THEN "8" ELSE "0",
                      original_length |-> infos[k].original_length]]]

ParseEncryptedData(element) ==
    [uri |-> element.uri,
     is_compressed |-> element.method = "8",
     original_length |-> IF element.method = "none" THEN 0 ELSE element.original_length]

ParseEncryptionXml(content) ==
    [k \in DOMAIN content.elements |-> ParseEncryptedData(content.elements[k])]

EncryptedResources(archive) ==
    ParseEncryptionXml(ByPath(archive, ENCRYPTION_FILE).content)

----------------------------------------------------------------------------
(***************************************************************************)
(* Enciphering and deciphering.  Every layer makes data Overhead longer:   *)
(* any lengths would do that tell an enciphered resource from its source.  *)
(***************************************************************************)
Overhead == 32
Length(data) ==
    (IF data.content.kind = "text" THEN Size[data.content.text] ELSE 1)
        + Overhead * Len(data.layers)

Encipher(data, key, deflated) ==
    [data EXCEPT !.layers = Append(@, [key |-> key, deflated |-> deflated])]

\* The outermost layer comes off with this key and this compression.
ComesOff(data, key, is_compressed) ==
    /\ data.layers # << >>
    /\ data.layers[Len(data.layers)] = [key |-> key, deflated |-> is_compressed]

Decipher(data) ==
    [data EXCEPT !.layers = SubSeq(@, 1, Len(@) - 1)]

ASSUME EpubAssumption ==
    /\ {CONTAINER_FILE, ENCRYPTION_FILE, LICENSE_FILE, MIMETYPE} \subseteq Names
    /\ Absent \notin Names
    /\ Size \in [Texts -> Nat]
    /\ Normal \in [Names -> Names]
    /\ \A n \in {CONTAINER_FILE, ENCRYPTION_FILE, LICENSE_FILE, MIMETYPE} : Normal[n] = n
=============================================================================
