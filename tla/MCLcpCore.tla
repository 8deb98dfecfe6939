----------------------------- MODULE MCLcpCore -----------------------------
(***************************************************************************)
(* LcpCore for TLC: a handful of small publications that differ in what    *)
(* the code treats differently.                                            *)
(***************************************************************************)
EXTENDS LcpShelf

MCNames ==
    {MIMETYPE, CONTAINER_FILE, ENCRYPTION_FILE, LICENSE_FILE,
     "OEBPS/book.opf", "OEBPS/nav.xhtml", "OEBPS/one.xhtml", "OEBPS/pic.jpg",
     "OEBPS/../one.xhtml", "one.xhtml"}

MCNormal ==
    [n \in MCNames |-> IF n = "OEBPS/../one.xhtml" THEN "one.xhtml" ELSE n]

MCTexts == {"type", "nav", "one", "pic", "blank"}
MCSize == [t \in MCTexts |-> IF t = "blank" THEN 0 ELSE 5]

Basic == "basic-profile"
Other == "profile-1.0"

\* The provider's own pair, a key that is not the certificate's, and bytes that
\* are not DER.
Provider == [loads |-> TRUE, private_key |-> "provider",
             certificate |-> [public |-> "provider", issuer |-> "root"]]
Mismatched == [Provider EXCEPT !.private_key = "stranger"]
Unloadable == [Provider EXCEPT !.loads = FALSE]
OneProvider == {Provider}
MCCredentials == {Provider, Mismatched, Unloadable}

----------------------------------------------------------------------------
Text(name, text) == Entry(name, [kind |-> "text", text |-> text])

Container == Entry(CONTAINER_FILE, [kind |-> "container", rootfile |-> "OEBPS/book.opf"])
Package(items) ==
    Entry("OEBPS/book.opf", [kind |-> "opf", manifest |-> items, cover |-> Absent])

Type == Text(MIMETYPE, "type")
Nav == Text("OEBPS/nav.xhtml", "nav")
One == Text("OEBPS/one.xhtml", "one")
Pic == Text("OEBPS/pic.jpg", "pic")

Item(id, href, media_type) ==
    [id |-> id, href |-> href, media_type |-> media_type, properties |-> {}]

NavItem == [Item("n", "OEBPS/nav.xhtml", "application/xhtml+xml")
                EXCEPT !.properties = {"nav"}]
OneItem == Item("o", "OEBPS/one.xhtml", "application/xhtml+xml")
PicItem == Item("p", "OEBPS/pic.jpg", "image/*")
BareItem == Item(Absent, "OEBPS/nav.xhtml", "application/xhtml+xml")

\* A publication whose mimetype is not first, with an enciphered page, an
\* enciphered picture and an exempt navigation document.
Plain == << Container, One, Type, Package(<< NavItem, OneItem, PicItem >>), Nav, Pic >>

\* The manifest lists a picture that is not there, after a page that is.
Broken == << Type, Container, Package(<< OneItem, PicItem >>), One >>

\* The manifest lists a page twice; and an item without an id, which is dropped.
Doubled == << Type, Container, Package(<< BareItem, OneItem, OneItem >>), Nav, One >>

\* An empty page, a picture that is the cover, and no mimetype.
Cover ==
    << Container,
       [name |-> "OEBPS/book.opf",
        data |-> [Package(<< OneItem, PicItem >>).data EXCEPT !.content.cover = "p"]],
       Text("OEBPS/one.xhtml", "blank"), Pic >>

\* encryption.xml is there already: the picture is obfuscated, which the manifest
\* does not tell.
Obfuscated ==
    << Type, Container, Package(<< NavItem, OneItem >>), Nav, One, Pic,
       Entry(ENCRYPTION_FILE,
             [kind |-> "encryption",
              elements |-> << [uri |-> "OEBPS/pic.jpg", algorithm |-> "obfuscation",
                               method |-> "none", original_length |-> 0] >>]) >>

\* Protected elsewhere, under passphrase "a", with an element that says nothing of
\* compression for a page and an ordinary one for a picture.
ForeignKey == 9
Locked(entry, deflated) ==
    [entry EXCEPT !.data = Encipher(@, ForeignKey, deflated)]
ForeignUser == UserEncryptionKey("a", Basic)
ForeignLicense ==
    Sign(WithEncryption(ForeignKey, ForeignKey, ForeignUser), Provider)
Element(uri, method, length) ==
    [uri |-> uri, algorithm |-> LCP_ALGORITHM,
     method |-> method, original_length |-> length]

ForeignArchive(page) ==
    << Type, Container, Package(<< NavItem, OneItem, PicItem >>), Nav,
       Locked(One, page = "8"), Locked(Pic, FALSE),
       Entry(ENCRYPTION_FILE,
             [kind |-> "encryption",
              elements |-> << Element("OEBPS/one.xhtml", page, 5),
                              Element("OEBPS/pic.jpg", "0", 5) >>]),
       Entry(LICENSE_FILE, [kind |-> "license", license |-> ForeignLicense]) >>
Foreign == ForeignArchive("8")
Unstated == ForeignArchive("none")

\* A page above the package's directory: its path has a ".." in it.
Above ==
    << Type, Container,
       Package(<< Item("o", "OEBPS/../one.xhtml", "application/xhtml+xml") >>),
       Text("one.xhtml", "one") >>

CommonSources == {Plain, Broken, Foreign}
OddSources == {Doubled, Cover, Obfuscated, Unstated}
OnePlain == {Plain}
OddAndPlain == OddSources \cup OnePlain
OneUnstated == {Unstated}
OneAbove == {Above}

\* The theorems about books are about all these publications but the last.
ASSUME OrderlyAssumption == SourcesOrderly <=> Sources # OneAbove

\* Every license among them opens its publication.
ASSUME OpenAssumption == SourcesOpen
=============================================================================
