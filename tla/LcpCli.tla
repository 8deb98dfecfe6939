------------------------------- MODULE LcpCli -------------------------------
(***************************************************************************)
(* lcp-cli decrypt --lcpl (crates/lcp-cli/src/main.rs): the publication a  *)
(* license links to is downloaded into the temporary directory, under the  *)
(* name of the license file, and decrypted from there with that license.   *)
(* Runs are processes: they overlap, fail, and are killed; nothing locks   *)
(* the files they share.                                                   *)
(***************************************************************************)
EXTENDS Naturals

CONSTANTS
    Runs,       \* license files, each of which can be run again and again
    Books,
    Paths,
    BookOf,     \* the publication each license is for
    TempOf,     \* where its publication is downloaded to
    OutputOf,   \* --output, or <stem>.decrypted.epub beside the download
    MaxStarts,  \* bound on the processes there are in all
    None

ASSUME CliAssumption ==
    /\ BookOf \in [Runs -> Books]
    /\ TempOf \in [Runs -> Paths] /\ OutputOf \in [Runs -> Paths]
    /\ \A r \in Runs : TempOf[r] # OutputOf[r]
    /\ MaxStarts \in Nat
    /\ None \notin Books

VARIABLES
    files,      \* what is at each path
    stage,      \* how far each run is
    response,   \* the body the server sent it
    archive,    \* what it opened
    starts,     \* how many processes there have been
    alone       \* no run that shares a path with it has been under way since it began

vars == << files, stage, response, archive, starts, alone >>

(***************************************************************************)
(* A file holds a publication, a page that says why there is none, what    *)
(* truncating left, or what runs have written of their output.             *)
(***************************************************************************)
Pieces ==
    [run: Runs, part: {"resources", "others"}, of: Books \cup {None},
     text: {"clear", "noise"}]

NoFile == [kind |-> "none"]
Emptied == [kind |-> "output", pieces |-> {}]
Page == [kind |-> "page"]
Epub(book) == [kind |-> "epub", of |-> book]

Bodies == {Page} \cup {Epub(b) : b \in Books}
Outputs == [kind: {"output"}, pieces: SUBSET Pieces]
Contents == {NoFile} \cup Bodies \cup Outputs

Stages == {"idle", "fetching", "fetched", "saving", "saved", "opened", "created",
           "deciphered", "copied", "done", "failed"}
UnderWay == Stages \ {"idle", "done", "failed"}

TypeOK ==
    /\ files \in [Paths -> Contents]
    /\ stage \in [Runs -> Stages]
    /\ response \in [Runs -> Bodies \cup {NoFile}]
    /\ archive \in [Runs -> Contents]
    /\ starts \in 0..MaxStarts
    /\ alone \in [Runs -> BOOLEAN]
    /\ \A r \in Runs : stage[r] = "fetched" => response[r] \in Bodies

Init ==
    /\ files = [p \in Paths |-> NoFile]
    /\ stage = [r \in Runs |-> "idle"]
    /\ response = [r \in Runs |-> NoFile]
    /\ archive = [r \in Runs |-> NoFile]
    /\ starts = 0
    /\ alone = [r \in Runs |-> TRUE]

----------------------------------------------------------------------------
PathsOf(r) == {TempOf[r], OutputOf[r]}
Sharing(r) == {q \in Runs \ {r} : PathsOf(q) \cap PathsOf(r) # {}}

Goto(r, next) == stage' = [stage EXCEPT ![r] = next]

\* The license is read and has a link to its publication.
Start(r) ==
    /\ stage[r] \notin UnderWay
    /\ starts < MaxStarts
    /\ Goto(r, "fetching")
    /\ starts' = starts + 1
    /\ alone' = [q \in Runs |-> IF q = r THEN \A s \in Sharing(r) : stage[s] \notin UnderWay
                                ELSE alone[q] /\ q \notin Sharing(r)]
    /\ response' = [response EXCEPT ![r] = NoFile]
    /\ archive' = [archive EXCEPT ![r] = NoFile]
    /\ UNCHANGED files

\* Mutant: a request that fails is taken for an empty body.
DownloadOrNothing(r) ==
    /\ stage[r] = "fetching"
    /\ \E body \in Bodies \cup {NoFile} : response' = [response EXCEPT ![r] = body]
    /\ Goto(r, "fetched")
    /\ UNCHANGED << files, archive, starts, alone >>

\* The body is taken whatever the status says: a page, the publication, or another
\* that has taken its place.
Download(r) ==
    /\ stage[r] = "fetching"
    /\ \E body \in Bodies : response' = [response EXCEPT ![r] = body]
    /\ Goto(r, "fetched")
    /\ UNCHANGED << files, archive, starts, alone >>

\* Mutant: what is there already is not downloaded again.
TruncateUnlessThere(r) ==
    /\ stage[r] = "fetched"
    /\ IF files[TempOf[r]] = NoFile
       THEN Goto(r, "saving") /\ files' = [files EXCEPT ![TempOf[r]] = Emptied]
       ELSE Goto(r, "saved") /\ UNCHANGED files
    /\ UNCHANGED << response, archive, starts, alone >>

\* fs::write truncates, then writes.
Truncate(r) ==
    /\ stage[r] = "fetched"
    /\ files' = [files EXCEPT ![TempOf[r]] = Emptied]
    /\ Goto(r, "saving")
    /\ UNCHANGED << response, archive, starts, alone >>

Save(r) ==
    /\ stage[r] = "saving"
    /\ files' = [files EXCEPT ![TempOf[r]] = response[r]]
    /\ Goto(r, "saved")
    /\ UNCHANGED << response, archive, starts, alone >>

\* Epub::new reads the archive's directory, and what it finds there is taken to stay.
\* The license's checks do not look at the publication.
Open(r) ==
    /\ stage[r] = "saved"
    /\ files[TempOf[r]].kind \in {"epub", "output"}
    /\ archive' = [archive EXCEPT ![r] = files[TempOf[r]]]
    /\ Goto(r, "opened")
    /\ UNCHANGED << files, response, starts, alone >>

Create(r) ==
    /\ stage[r] = "opened"
    /\ files' = [files EXCEPT ![OutputOf[r]] = Emptied]
    /\ Goto(r, "created")
    /\ UNCHANGED << response, archive, starts, alone >>

\* Bytes go into whatever the path holds by now.
Written(contents, piece) ==
    IF contents.kind = "output" THEN [contents EXCEPT !.pieces = @ \cup {piece}]
    ELSE [kind |-> "output", pieces |-> {piece}]

\* What the file holds now, by the archive's directory as it was.
AsOpened(r) == files[TempOf[r]] = archive[r]

\* The license's content key makes sense of its own publication only.
Deciphered(r) ==
    IF AsOpened(r) /\ archive[r].of = BookOf[r]
    THEN [run |-> r, part |-> "resources", of |-> BookOf[r], text |-> "clear"]
    ELSE [run |-> r, part |-> "resources", of |-> None, text |-> "noise"]

Copied(r) ==
    IF AsOpened(r)
    THEN [run |-> r, part |-> "others", of |-> archive[r].of, text |-> "clear"]
    ELSE [run |-> r, part |-> "others", of |-> None, text |-> "noise"]

\* What a run wrote has no encryption.xml and ends the next run here.
WriteResources(r) ==
    /\ stage[r] = "created"
    /\ archive[r].kind = "epub"
    /\ files' = [files EXCEPT ![OutputOf[r]] = Written(@, Deciphered(r))]
    /\ Goto(r, "deciphered")
    /\ UNCHANGED << response, archive, starts, alone >>

CopyOthers(r) ==
    /\ stage[r] = "deciphered"
    /\ files' = [files EXCEPT ![OutputOf[r]] = Written(@, Copied(r))]
    /\ Goto(r, "copied")
    /\ UNCHANGED << response, archive, starts, alone >>

Finish(r) ==
    /\ stage[r] = "copied"
    /\ Goto(r, "done")
    /\ UNCHANGED << files, response, archive, starts, alone >>

\* Every expect and unwrap ends the process, and so does a kill: files stay as they
\* are.
Panic(r) ==
    /\ stage[r] \in UnderWay
    /\ Goto(r, "failed")
    /\ UNCHANGED << files, response, archive, starts, alone >>

Step(r) ==
    \/ Start(r) \/ Download(r) \/ Truncate(r) \/ Save(r) \/ Open(r) \/ Create(r)
    \/ WriteResources(r) \/ CopyOthers(r) \/ Finish(r) \/ Panic(r)

Next == \E r \in Runs : Step(r)

Spec == Init /\ [][Next]_vars

----------------------------------------------------------------------------
(***************************************************************************)
(* Properties.                                                             *)
(***************************************************************************)
\* The whole of book as run r writes it.
Whole(r, book) ==
    {[run |-> r, part |-> "resources", of |-> book, text |-> "clear"],
     [run |-> r, part |-> "others", of |-> book, text |-> "clear"]}

\* A run that ends well, while no run that shares a path with it was under way, leaves
\* the whole of its license's publication and nothing else, if that is what the server
\* sent it: whatever earlier runs, killed anywhere, left in the temporary directory
\* (main.rs:119), and whatever the server sent them.
AloneGetsItsBook ==
    \A r \in Runs :
        stage[r] = "done" /\ alone[r] /\ response[r] = Epub(BookOf[r])
        => files[OutputOf[r]] = [kind |-> "output", pieces |-> Whole(r, BookOf[r])]
=============================================================================
