---------------------------- MODULE LcpCliProofs ----------------------------
(***************************************************************************)
(* What LcpCli promises, for any license files, names and number of        *)
(* processes.                                                              *)
(***************************************************************************)
EXTENDS LcpCli, TLAPS

\* No process that shares a path with one that is alone is under way.
NobodyShares ==
    \A r \in Runs : alone[r] => \A q \in Sharing(r) : stage[q] \notin UnderWay

\* A run that is alone finds its paths as it left them.
Progress(r) ==
    /\ stage[r] \in {"saved", "opened", "created", "deciphered", "copied"}
       => files[TempOf[r]] = response[r]
    /\ stage[r] \in {"opened", "created", "deciphered", "copied"}
       => archive[r] = response[r]
    /\ stage[r] = "created" => files[OutputOf[r]] = Emptied
    /\ response[r] = Epub(BookOf[r])
       => /\ stage[r] = "deciphered"
             => files[OutputOf[r]] =
                    [kind |-> "output",
                     pieces |-> {[run |-> r, part |-> "resources", of |-> BookOf[r],
                                  text |-> "clear"]}]
          /\ stage[r] \in {"copied", "done"}
             => files[OutputOf[r]] = [kind |-> "output", pieces |-> Whole(r, BookOf[r])]

\* Only publications get as far as having their resources deciphered.
PublicationsOnly == \A r \in Runs : stage[r] = "deciphered" => archive[r].kind = "epub"

IInv ==
    /\ TypeOK
    /\ NobodyShares
    /\ PublicationsOnly
    /\ \A r \in Runs : alone[r] => Progress(r)

LEMMA SharingIsMutual ==
    \A q, r \in Runs : q \in Sharing(r) <=> r \in Sharing(q)
BY DEF Sharing

LEMMA InitIInv == Init => IInv
<1>. SUFFICES ASSUME Init PROVE IInv
    OBVIOUS
<1>1. TypeOK
    BY CliAssumption DEF Init, TypeOK, Contents, Stages
<1>. QED  BY <1>1 DEF Init, IInv, NobodyShares, PublicationsOnly, Progress, UnderWay, Sharing

----------------------------------------------------------------------------
LEMMA EpubType ==
    /\ \A b \in Books : Epub(b).kind = "epub" /\ Epub(b).of = b
    /\ Emptied.kind = "output" /\ Emptied.pieces = {}
BY DEF Epub, Emptied

LEMMA PieceType ==
    ASSUME TypeOK, NEW r \in Runs, archive[r].kind = "epub"
    PROVE  Deciphered(r) \in Pieces /\ Copied(r) \in Pieces
<1>1. archive[r] \in Bodies
    BY DEF TypeOK, Contents, Outputs, NoFile
<1>2. archive[r].of \in Books
    BY <1>1, EpubType DEF Bodies, Page
<1>. QED  BY <1>2, CliAssumption DEF Deciphered, Copied, Pieces

LEMMA WrittenType ==
    ASSUME NEW contents \in Contents, NEW piece \in Pieces
    PROVE  Written(contents, piece) \in Contents
<1>1. CASE contents \in Outputs
  <2>1. contents.kind = "output" /\ contents.pieces \in SUBSET Pieces
      BY <1>1 DEF Outputs
  <2>2. contents = [kind |-> "output", pieces |-> contents.pieces]
      BY <1>1 DEF Outputs
  <2>3. Written(contents, piece) = [kind |-> "output", pieces |-> contents.pieces \cup {piece}]
      BY <2>1, <2>2 DEF Written
  <2>. QED  BY <2>1, <2>3 DEF Contents, Outputs
<1>2. CASE contents \notin Outputs
  <2>1. contents.kind # "output"
      BY <1>2 DEF Contents, Bodies, Page, Epub, NoFile
  <2>. QED  BY <2>1 DEF Written, Contents, Outputs
<1>. QED  BY <1>1, <1>2

\* What a step does to the others that are alone: nothing at their paths.
LEMMA OthersKeep ==
    ASSUME IInv, NEW q \in Runs, stage[q] \in UnderWay, NEW next \in Stages, Goto(q, next),
           alone' = alone,
           \A p \in Paths \ PathsOf(q) : files'[p] = files[p],
           \A r \in Runs \ {q} : archive'[r] = archive[r] /\ response'[r] = response[r]
    PROVE  /\ NobodyShares'
           /\ \A r \in Runs \ {q} : alone[r] => Progress(r)'
<1>. USE DEF IInv
<1>1. \A r \in Runs \ {q} : stage'[r] = stage[r]
    BY DEF Goto, TypeOK
<1>2. NobodyShares'
    BY <1>1, SharingIsMutual DEF NobodyShares, Sharing
<1>3. ASSUME NEW r \in Runs \ {q}, alone[r] PROVE Progress(r)'
  <2>1. q \notin Sharing(r)
      BY <1>3 DEF NobodyShares
  <2>2. TempOf[r] \in Paths \ PathsOf(q) /\ OutputOf[r] \in Paths \ PathsOf(q)
      BY <2>1, CliAssumption DEF Sharing, PathsOf
  <2>3. files'[TempOf[r]] = files[TempOf[r]] /\ files'[OutputOf[r]] = files[OutputOf[r]]
      BY <2>2
  <2>. QED  BY <1>1, <1>3, <2>3 DEF Progress, Whole
<1>. QED  BY <1>2, <1>3

\* A step that is typed and keeps what its own run has keeps everything.
LEMMA StepKeeps ==
    ASSUME IInv, NEW q \in Runs, stage[q] \in UnderWay, NEW next \in Stages, Goto(q, next),
           UNCHANGED << alone, starts >>,
           files' \in [Paths -> Contents], archive' \in [Runs -> Contents],
           response' \in [Runs -> Bodies \cup {NoFile}],
           next = "fetched" => response'[q] \in Bodies,
           next = "deciphered" => archive'[q].kind = "epub",
           \A p \in Paths \ PathsOf(q) : files'[p] = files[p],
           \A r \in Runs \ {q} : archive'[r] = archive[r] /\ response'[r] = response[r],
           alone[q] => Progress(q)'
    PROVE  IInv'
<1>1. /\ stage' \in [Runs -> Stages] /\ stage'[q] = next
      /\ \A r \in Runs \ {q} : stage'[r] = stage[r]
    BY DEF Goto, IInv, TypeOK
<1>2. \A r \in Runs : stage'[r] = "fetched" => response'[r] \in Bodies
    BY <1>1 DEF IInv, TypeOK
<1>3. TypeOK'
    BY <1>1, <1>2 DEF IInv, TypeOK
<1>4. NobodyShares' /\ \A r \in Runs \ {q} : alone[r] => Progress(r)'
    BY OthersKeep
<1>5. PublicationsOnly'
    BY <1>1 DEF IInv, PublicationsOnly
<1>. QED  BY <1>3, <1>4, <1>5 DEF IInv

----------------------------------------------------------------------------
(***************************************************************************)
(* One lemma for each action.                                              *)
(***************************************************************************)
LEMMA StagesAre ==
    /\ {"fetching", "fetched", "saving", "saved", "opened", "created", "deciphered",
        "copied"} \subseteq UnderWay
    /\ UnderWay \subseteq Stages /\ {"done", "failed"} \subseteq Stages \ UnderWay
BY DEF UnderWay, Stages

LEMMA BodiesAreContents == Bodies \subseteq Contents /\ Emptied \in Contents /\ NoFile \in Contents
BY DEF Contents, Outputs, Emptied

\* A run that begins is no longer alone unless nothing that shares with it is under way,
\* and what shares with it is not alone any more.
LEMMA StartKeeps ==
    ASSUME IInv, NEW q \in Runs, Start(q)
    PROVE  IInv'
<1>. USE DEF IInv
<1>1. /\ stage' \in [Runs -> Stages] /\ stage'[q] = "fetching"
      /\ \A r \in Runs \ {q} : stage'[r] = stage[r]
    BY StagesAre DEF Start, Goto, TypeOK
<1>2. /\ response' \in [Runs -> Bodies \cup {NoFile}] /\ archive' \in [Runs -> Contents]
      /\ \A r \in Runs \ {q} : response'[r] = response[r] /\ archive'[r] = archive[r]
    BY BodiesAreContents DEF Start, TypeOK
<1>3. /\ alone' \in [Runs -> BOOLEAN]
      /\ alone'[q] = (\A s \in Sharing(q) : stage[s] \notin UnderWay)
      /\ \A r \in Runs \ {q} : alone'[r] = (alone[r] /\ r \notin Sharing(q))
  <2>. DEFINE now(r) == IF r = q THEN \A s \in Sharing(q) : stage[s] \notin UnderWay
                        ELSE alone[r] /\ r \notin Sharing(q)
  <2>1. \A r \in Runs : now(r) \in BOOLEAN
      BY DEF TypeOK
  <2>2. alone' = [r \in Runs |-> now(r)]
      BY DEF Start
  <2>. HIDE DEF now
  <2>3. alone' \in [Runs -> BOOLEAN] /\ \A r \in Runs : alone'[r] = now(r)
      BY <2>1, <2>2
  <2>. QED  BY <2>3 DEF now
<1>4. TypeOK'
  <2>1. \A r \in Runs : stage'[r] = "fetched" => response'[r] \in Bodies
      BY <1>1, <1>2 DEF TypeOK
  <2>2. starts' \in 0..MaxStarts
      BY CliAssumption DEF Start, TypeOK
  <2>. QED  BY <1>1, <1>2, <1>3, <2>1, <2>2 DEF Start, TypeOK
<1>5. NobodyShares'
  <2>. SUFFICES ASSUME NEW r \in Runs, alone'[r], NEW s \in Sharing(r)
                PROVE  stage'[s] \notin UnderWay
      BY DEF NobodyShares, Sharing, PathsOf
  <2>1. s \in Runs \ {r}
      BY DEF Sharing
  <2>2. CASE r = q
      BY <1>1, <1>3, <2>1, <2>2
  <2>3. CASE r # q
    <3>1. alone[r] /\ r \notin Sharing(q)
        BY <1>3, <2>3
    <3>2. s # q
        BY <3>1, SharingIsMutual
    <3>. QED  BY <1>1, <2>1, <3>1, <3>2 DEF NobodyShares
  <2>. QED  BY <2>2, <2>3
<1>6. ASSUME NEW r \in Runs, alone'[r] PROVE Progress(r)'
  <2>1. CASE r = q
      BY <1>1, <2>1 DEF Progress
  <2>2. CASE r # q
    <3>1. alone[r]
        BY <1>3, <1>6, <2>2
    <3>. QED  BY <1>1, <1>2, <2>2, <3>1 DEF Progress, Start, Whole
  <2>. QED  BY <2>1, <2>2
<1>7. PublicationsOnly'
    BY <1>1, <1>2 DEF PublicationsOnly
<1>. QED  BY <1>4, <1>5, <1>6, <1>7

LEMMA DownloadKeeps ==
    ASSUME IInv, NEW q \in Runs, Download(q)
    PROVE  IInv'
<1>1. PICK body \in Bodies : response' = [response EXCEPT ![q] = body]
    BY DEF Download
<1>2. /\ response' \in [Runs -> Bodies \cup {NoFile}] /\ response'[q] \in Bodies
      /\ \A r \in Runs \ {q} : response'[r] = response[r]
    BY <1>1 DEF IInv, TypeOK
<1>3. stage[q] \in UnderWay /\ stage'[q] = "fetched"
    BY StagesAre DEF Download, Goto, IInv, TypeOK
<1>4. Progress(q)'
    BY <1>3 DEF Progress
<1>5. files' \in [Paths -> Contents] /\ archive' \in [Runs -> Contents]
    BY DEF Download, IInv, TypeOK
<1>. QED  BY <1>2, <1>3, <1>4, <1>5, StepKeeps, StagesAre DEF Download

LEMMA TruncateKeeps ==
    ASSUME IInv, NEW q \in Runs, Truncate(q)
    PROVE  IInv'
<1>1. stage[q] \in UnderWay /\ stage'[q] = "saving"
    BY StagesAre DEF Truncate, Goto, IInv, TypeOK
<1>2. Progress(q)'
    BY <1>1 DEF Progress
<1>3. /\ files' \in [Paths -> Contents] /\ archive' \in [Runs -> Contents]
      /\ response' \in [Runs -> Bodies \cup {NoFile}]
    BY BodiesAreContents DEF Truncate, IInv, TypeOK
<1>4. \A p \in Paths \ PathsOf(q) : files'[p] = files[p]
    BY DEF Truncate, PathsOf, IInv, TypeOK
<1>. QED  BY <1>1, <1>2, <1>3, <1>4, StepKeeps, StagesAre DEF Truncate

LEMMA SaveKeeps ==
    ASSUME IInv, NEW q \in Runs, Save(q)
    PROVE  IInv'
<1>1. stage[q] \in UnderWay /\ stage'[q] = "saved"
    BY StagesAre DEF Save, Goto, IInv, TypeOK
<1>2. response[q] \in Contents
    BY BodiesAreContents DEF IInv, TypeOK
<1>3. /\ files' \in [Paths -> Contents] /\ archive' \in [Runs -> Contents]
      /\ response' \in [Runs -> Bodies \cup {NoFile}]
    BY <1>2 DEF Save, IInv, TypeOK
<1>4. \A p \in Paths \ PathsOf(q) : files'[p] = files[p]
    BY DEF Save, PathsOf, IInv, TypeOK
<1>5. files'[TempOf[q]] = response'[q]
    BY CliAssumption DEF Save, IInv, TypeOK
<1>6. Progress(q)'
    BY <1>1, <1>5 DEF Progress
<1>. QED  BY <1>1, <1>3, <1>4, <1>6, StepKeeps, StagesAre DEF Save

LEMMA OpenKeeps ==
    ASSUME IInv, NEW q \in Runs, Open(q)
    PROVE  IInv'
<1>1. stage[q] \in UnderWay /\ stage'[q] = "opened"
    BY StagesAre DEF Open, Goto, IInv, TypeOK
<1>2. files[TempOf[q]] \in Contents
    BY CliAssumption DEF IInv, TypeOK
<1>3. /\ files' \in [Paths -> Contents] /\ archive' \in [Runs -> Contents]
      /\ response' \in [Runs -> Bodies \cup {NoFile}]
      /\ archive'[q] = files[TempOf[q]]
      /\ \A r \in Runs \ {q} : archive'[r] = archive[r]
    BY <1>2 DEF Open, IInv, TypeOK
<1>4. alone[q] => Progress(q)'
    BY <1>1, <1>3 DEF Progress, Open, IInv
<1>. QED  BY <1>1, <1>3, <1>4, StepKeeps, StagesAre DEF Open

LEMMA CreateKeeps ==
    ASSUME IInv, NEW q \in Runs, Create(q)
    PROVE  IInv'
<1>1. stage[q] \in UnderWay /\ stage'[q] = "created"
    BY StagesAre DEF Create, Goto, IInv, TypeOK
<1>2. /\ files' \in [Paths -> Contents] /\ archive' \in [Runs -> Contents]
      /\ response' \in [Runs -> Bodies \cup {NoFile}]
    BY BodiesAreContents DEF Create, IInv, TypeOK
<1>3. /\ \A p \in Paths \ PathsOf(q) : files'[p] = files[p]
      /\ files'[TempOf[q]] = files[TempOf[q]] /\ files'[OutputOf[q]] = Emptied
    BY CliAssumption DEF Create, PathsOf, IInv, TypeOK
<1>4. alone[q] => Progress(q)'
    BY <1>1, <1>3 DEF Progress, Create, IInv
<1>. QED  BY <1>1, <1>2, <1>3, <1>4, StepKeeps, StagesAre DEF Create

LEMMA WriteResourcesKeeps ==
    ASSUME IInv, NEW q \in Runs, WriteResources(q)
    PROVE  IInv'
<1>1. stage[q] \in UnderWay /\ stage'[q] = "deciphered"
    BY StagesAre DEF WriteResources, Goto, IInv, TypeOK
<1>2. Written(files[OutputOf[q]], Deciphered(q)) \in Contents
    BY PieceType, WrittenType, CliAssumption DEF WriteResources, IInv, TypeOK
<1>3. /\ files' \in [Paths -> Contents] /\ archive' \in [Runs -> Contents]
      /\ response' \in [Runs -> Bodies \cup {NoFile}]
    BY <1>2 DEF WriteResources, IInv, TypeOK
<1>4. /\ \A p \in Paths \ PathsOf(q) : files'[p] = files[p]
      /\ files'[TempOf[q]] = files[TempOf[q]]
      /\ files'[OutputOf[q]] = Written(files[OutputOf[q]], Deciphered(q))
    BY CliAssumption DEF WriteResources, PathsOf, IInv, TypeOK
<1>5. ASSUME alone[q] PROVE Progress(q)'
  <2>1. /\ files[TempOf[q]] = response[q] /\ archive[q] = response[q]
        /\ files[OutputOf[q]] = Emptied
      BY <1>5 DEF WriteResources, Progress, IInv
  <2>2. ASSUME response[q] = Epub(BookOf[q])
        PROVE  files'[OutputOf[q]] =
                   [kind |-> "output",
                    pieces |-> {[run |-> q, part |-> "resources", of |-> BookOf[q],
                                 text |-> "clear"]}]
    <3>1. archive[q].of = BookOf[q] /\ AsOpened(q)
        BY <2>1, <2>2, EpubType, CliAssumption DEF AsOpened
    <3>2. Deciphered(q) = [run |-> q, part |-> "resources", of |-> BookOf[q],
                           text |-> "clear"]
        BY <3>1 DEF Deciphered
    <3>. QED  BY <1>4, <2>1, <3>2 DEF Written, Emptied
  <2>3. response' = response /\ archive' = archive
      BY DEF WriteResources
  <2>. QED  BY <1>1, <1>4, <2>1, <2>2, <2>3 DEF Progress
<1>. QED  BY <1>1, <1>3, <1>4, <1>5, StepKeeps, StagesAre DEF WriteResources

LEMMA CopyOthersKeeps ==
    ASSUME IInv, NEW q \in Runs, CopyOthers(q)
    PROVE  IInv'
<1>0. archive[q].kind = "epub"
    BY DEF CopyOthers, IInv, PublicationsOnly
<1>1. stage[q] \in UnderWay /\ stage'[q] = "copied"
    BY StagesAre DEF CopyOthers, Goto, IInv, TypeOK
<1>2. Written(files[OutputOf[q]], Copied(q)) \in Contents
    BY <1>0, PieceType, WrittenType, CliAssumption DEF IInv, TypeOK
<1>3. /\ files' \in [Paths -> Contents] /\ archive' \in [Runs -> Contents]
      /\ response' \in [Runs -> Bodies \cup {NoFile}]
    BY <1>2 DEF CopyOthers, IInv, TypeOK
<1>4. /\ \A p \in Paths \ PathsOf(q) : files'[p] = files[p]
      /\ files'[TempOf[q]] = files[TempOf[q]]
      /\ files'[OutputOf[q]] = Written(files[OutputOf[q]], Copied(q))
    BY CliAssumption DEF CopyOthers, PathsOf, IInv, TypeOK
<1>5. ASSUME alone[q] PROVE Progress(q)'
  <2>1. files[TempOf[q]] = response[q] /\ archive[q] = response[q]
      BY <1>5 DEF CopyOthers, Progress, IInv
  <2>2. ASSUME response[q] = Epub(BookOf[q])
        PROVE  files'[OutputOf[q]] = [kind |-> "output", pieces |-> Whole(q, BookOf[q])]
    <3>1. archive[q].of = BookOf[q] /\ AsOpened(q)
        BY <2>1, <2>2, EpubType, CliAssumption DEF AsOpened
    <3>2. Copied(q) = [run |-> q, part |-> "others", of |-> BookOf[q], text |-> "clear"]
        BY <3>1 DEF Copied
    <3>3. files[OutputOf[q]] =
              [kind |-> "output",
               pieces |-> {[run |-> q, part |-> "resources", of |-> BookOf[q],
                            text |-> "clear"]}]
        BY <1>5, <2>2 DEF CopyOthers, Progress, IInv
    <3>. QED  BY <1>4, <3>2, <3>3 DEF Written, Whole
  <2>3. response' = response /\ archive' = archive
      BY DEF CopyOthers
  <2>. QED  BY <1>1, <1>4, <2>1, <2>2, <2>3 DEF Progress, Whole
<1>. QED  BY <1>1, <1>3, <1>4, <1>5, StepKeeps, StagesAre DEF CopyOthers

LEMMA FinishKeeps ==
    ASSUME IInv, NEW q \in Runs, Finish(q)
    PROVE  IInv'
<1>1. stage[q] \in UnderWay /\ stage'[q] = "done"
    BY StagesAre DEF Finish, Goto, IInv, TypeOK
<1>2. /\ files' \in [Paths -> Contents] /\ archive' \in [Runs -> Contents]
      /\ response' \in [Runs -> Bodies \cup {NoFile}]
    BY DEF Finish, IInv, TypeOK
<1>3. alone[q] => Progress(q)'
    BY <1>1 DEF Progress, Finish, IInv, Whole
<1>. QED  BY <1>1, <1>2, <1>3, StepKeeps, StagesAre DEF Finish

LEMMA PanicKeeps ==
    ASSUME IInv, NEW q \in Runs, Panic(q)
    PROVE  IInv'
<1>1. stage[q] \in UnderWay /\ stage'[q] = "failed"
    BY StagesAre DEF Panic, Goto, IInv, TypeOK
<1>2. /\ files' \in [Paths -> Contents] /\ archive' \in [Runs -> Contents]
      /\ response' \in [Runs -> Bodies \cup {NoFile}]
    BY DEF Panic, IInv, TypeOK
<1>3. Progress(q)'
    BY <1>1 DEF Progress
<1>. QED  BY <1>1, <1>2, <1>3, StepKeeps, StagesAre DEF Panic

LEMMA StutterKeeps == IInv /\ UNCHANGED vars => IInv'
BY DEF vars, IInv, TypeOK, NobodyShares, PublicationsOnly, Progress, Whole

LEMMA NextIInv == IInv /\ [Next]_vars => IInv'
<1>. SUFFICES ASSUME IInv, NEW q \in Runs, Step(q) PROVE IInv'
    BY StutterKeeps DEF Next
<1>. QED
    BY StartKeeps, DownloadKeeps, TruncateKeeps, SaveKeeps, OpenKeeps, CreateKeeps,
       WriteResourcesKeeps, CopyOthersKeeps, FinishKeeps, PanicKeeps
    DEF Step

LEMMA Invariant == Spec => []IInv
<1>1. Init => IInv
    BY InitIInv
<1>2. IInv /\ [Next]_vars => IInv'
    BY NextIInv
<1>. QED  BY <1>1, <1>2, PTL DEF Spec

----------------------------------------------------------------------------
\* Every state the processes reach is well typed (main.rs:92-140).
THEOREM TypeCorrectCli == Spec => []TypeOK
<1>1. IInv => TypeOK
    BY DEF IInv
<1>. QED  BY <1>1, Invariant, PTL

\* For any license files, names, number of processes and failures: a run that ends well
\* and overlapped none that shares a path with it leaves its license's publication
\* whole, if the server sent it (main.rs:104-140).
THEOREM AloneAlwaysGetsItsBook == Spec => []AloneGetsItsBook
<1>1. IInv => AloneGetsItsBook
    BY DEF IInv, Progress, AloneGetsItsBook
<1>. QED  BY <1>1, Invariant, PTL
=============================================================================
