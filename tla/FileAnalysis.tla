---------------------------- MODULE FileAnalysis ----------------------------
(***************************************************************************)
(* assets/js/app.js: the page that analyses files in the browser.  A batch *)
(* of chosen files is read one file after another, but two batches may be  *)
(* under way at once.  A batch shows its progress in the page it began on, *)
(* and the end of any batch draws the page anew, wherever the user is.     *)
(***************************************************************************)
EXTENDS Naturals, Sequences, FiniteSets, Functions

CONSTANTS
    MaxBatches,   \* bound: batches ever begun
    MaxBatchSize  \* bound: files of a batch

ASSUME FilesAssumption == {MaxBatches, MaxBatchSize} \subseteq Nat

\* "large" is over 50 MB; an image is also measured.
FileKinds == {"plain", "image", "large"}

VARIABLES
    batches,    \* [files, at, stage, attached]: attached to the page now drawn
    filesKept,  \* DB.files: <<batch, index>>, in the order they were analysed
    filesPage,  \* [drawn, rows, spinner] of the page of files
    filePicker, \* the browser's dialog of files is open
    fileDetail, \* the file whose details are shown over the page
    notices     \* history: what the user was told of the files of each batch

fileVars == <<batches, filesKept, filesPage, filePicker, fileDetail, notices>>

NoBatch == [files |-> <<>>, at |-> 1, stage |-> "none", attached |-> FALSE]
FilesElsewhere == [drawn |-> FALSE, rows |-> <<>>, spinner |-> {}]

FilesInit ==
    /\ batches = [b \in 1..MaxBatches |-> NoBatch]
    /\ filesKept = <<>> /\ filesPage = FilesElsewhere /\ filePicker = FALSE
    /\ fileDetail = {} /\ notices = [b \in 1..MaxBatches |-> <<>>]

UnderWay(b) == batches[b].stage \in {"reading", "measuring"}

-----------------------------------------------------------------------------
(* renderSection('metadata'): an earlier page leaves with its progress. *)
FilesDrawn(kept) == [drawn |-> TRUE, rows |-> kept, spinner |-> {}]
Detached(all) == [b \in DOMAIN all |-> [all[b] EXCEPT !.attached = FALSE]]

EndsBatch(b, batch, told, kept) ==
    /\ batches' = Detached([batches EXCEPT ![b] = [batch EXCEPT !.stage = "ended"]])
    /\ filesPage' = FilesDrawn(kept)
    /\ notices' = [notices EXCEPT ![b] = told] /\ filesKept' = kept

\* The files from the given one on: large ones are refused, the next begins.
BatchGoes(b, batch, from, told, kept) ==
    LET left == {i \in from..Len(batch.files) : batch.files[i] # "large"}
        next == CHOOSE i \in left : \A j \in left : i <= j
        Refused(n) == [i \in 1..n |-> "large"] IN
    IF left = {} THEN EndsBatch(b, batch, told \o Refused(Len(batch.files) + 1 - from), kept)
    ELSE
        /\ batches' = [batches EXCEPT ![b] = [batch EXCEPT !.at = next, !.stage = "reading"]]
        /\ filesPage' = IF batch.attached THEN [filesPage EXCEPT !.spinner = {<<b, next>>}] ELSE filesPage
        /\ notices' = [notices EXCEPT ![b] = told \o Refused(next - from)] /\ filesKept' = kept

\* A batch begun while another page is drawn finds no place for its progress:
\* it stops at its first file that is not large, or at its end.
Breaks(b, files) ==
    LET small == {i \in DOMAIN files : files[i] # "large"}
        refused == IF small = {} THEN Len(files)
                   ELSE (CHOOSE i \in small : \A j \in small : i <= j) - 1 IN
    /\ batches' = [batches EXCEPT ![b] = [NoBatch EXCEPT !.files = files, !.stage = "broken"]]
    /\ notices' = [notices EXCEPT ![b] = [i \in 1..refused |-> "large"]]
    /\ UNCHANGED <<filesKept, filesPage>>

handleFiles(files) ==
    \E b \in 1..MaxBatches :
        /\ batches[b].stage = "none" /\ \A c \in 1..(b - 1) : batches[c].stage # "none"
        /\ IF filesPage.drawn
           THEN BatchGoes(b, [NoBatch EXCEPT !.files = files, !.attached = TRUE], 1, <<>>, filesKept)
           ELSE Breaks(b, files)

-----------------------------------------------------------------------------
(* The page. *)
OnFilesPage == filesPage.drawn /\ ~filePicker /\ fileDetail = {}

OpenPicker ==
    /\ OnFilesPage /\ \E b \in 1..MaxBatches : batches[b].stage = "none"
    /\ filePicker' = TRUE /\ UNCHANGED <<batches, filesKept, filesPage, fileDetail, notices>>

PickFiles(files) ==
    filePicker /\ filePicker' = FALSE /\ handleFiles(files) /\ UNCHANGED fileDetail

DropFiles(files) == OnFilesPage /\ handleFiles(files) /\ UNCHANGED <<filePicker, fileDetail>>

OpenFilesPage ==
    /\ ~filePicker /\ fileDetail = {} /\ ~filesPage.drawn
    /\ filesPage' = FilesDrawn(filesKept) /\ batches' = Detached(batches)
    /\ UNCHANGED <<filesKept, filePicker, fileDetail, notices>>

\* Another page: the user's choice, or the late answer of another page.
LeaveFilesPage ==
    /\ filesPage.drawn /\ filesPage' = FilesElsewhere /\ batches' = Detached(batches)
    /\ UNCHANGED <<filesKept, filePicker, fileDetail, notices>>

\* The filter of the list by the id of a file: no two files have the same.
Without(kept, file) ==
    IF file \notin Range(kept) THEN kept
    ELSE LET i == CHOOSE i \in DOMAIN kept : kept[i] = file IN
         SubSeq(kept, 1, i - 1) \o SubSeq(kept, i + 1, Len(kept))

RemoveFile(i) ==
    /\ OnFilesPage /\ i \in DOMAIN filesPage.rows
    /\ filesKept' = Without(filesKept, filesPage.rows[i])
    /\ filesPage' = FilesDrawn(filesKept') /\ batches' = Detached(batches)
    /\ UNCHANGED <<filePicker, fileDetail, notices>>

\* Another page may be drawn behind the details; linking to a process is not
\* offered yet and only says so.
showFileDetail(i) ==
    /\ OnFilesPage /\ i \in DOMAIN filesPage.rows /\ fileDetail' = {filesPage.rows[i]}
    /\ UNCHANGED <<batches, filesKept, filesPage, filePicker, notices>>
CloseFileDetail ==
    fileDetail # {} /\ fileDetail' = {} /\ UNCHANGED <<batches, filesKept, filesPage, filePicker, notices>>

-----------------------------------------------------------------------------
(* What a batch waits for. *)
Passed(b, outcome) ==
    BatchGoes(b, batches[b], batches[b].at + 1, Append(notices[b], outcome),
         IF outcome = "done" THEN Append(filesKept, <<b, batches[b].at>>) ELSE filesKept)

\* The bytes and their hash, which an image waits for before it is measured.
FileIsRead(b) ==
    /\ batches[b].stage = "reading" /\ UNCHANGED <<filePicker, fileDetail>>
    /\ IF batches[b].files[batches[b].at] = "image"
       THEN /\ batches' = [batches EXCEPT ![b].stage = "measuring"]
            /\ UNCHANGED <<filesKept, filesPage, notices>>
       ELSE Passed(b, "done")
FileIsUnreadable(b) == batches[b].stage = "reading" /\ Passed(b, "error") /\ UNCHANGED <<filePicker, fileDetail>>

\* readImageDimensions: it loads, fails, or the timer of ten seconds rings.
ImageIsMeasured(b) == batches[b].stage = "measuring" /\ Passed(b, "done") /\ UNCHANGED <<filePicker, fileDetail>>
ImageFails(b) == batches[b].stage = "measuring" /\ Passed(b, "error") /\ UNCHANGED <<filePicker, fileDetail>>

FilesNext ==
    \/ OpenPicker \/ CloseFileDetail \/ OpenFilesPage \/ LeaveFilesPage
    \/ \E n \in 1..MaxBatchSize : \E files \in [1..n -> FileKinds] : PickFiles(files) \/ DropFiles(files)
    \/ \E i \in 1..(MaxBatches * MaxBatchSize) : RemoveFile(i) \/ showFileDetail(i)
    \/ \E b \in 1..MaxBatches :
        FileIsRead(b) \/ FileIsUnreadable(b) \/ ImageIsMeasured(b) \/ ImageFails(b)

\* The browser settles the reading of a file, and the timer ends a measure.
FilesFairness ==
    \A b \in 1..MaxBatches :
        /\ WF_fileVars(FileIsRead(b) \/ FileIsUnreadable(b))
        /\ WF_fileVars(ImageIsMeasured(b) \/ ImageFails(b))

(***************************************************************************)
(* Properties.                                                             *)
(***************************************************************************)
\* A progress that is shown is of a file being analysed, though a batch that
\* ends takes the progress of the other away.
SpinnerMeansWork ==
    \A f \in filesPage.spinner : UnderWay(f[1]) /\ batches[f[1]].at = f[2]

\* Every row of the page, and the details shown, are of a file that is kept; and
\* once no batch is under way the page lists them all.
RowsAreOfFiles ==
    /\ Range(filesPage.rows) \union fileDetail \subseteq Range(filesKept)
    /\ filesPage.drawn /\ (\A b \in 1..MaxBatches : ~UnderWay(b)) => filesPage.rows = filesKept

\* Of the files of a batch that found its page the user is told one by one, and
\* what is kept is what was told to be analysed.
EveryFileIsTold ==
    /\ \A b \in 1..MaxBatches :
        CASE UnderWay(b) -> Len(notices[b]) = batches[b].at - 1
          [] batches[b].stage = "ended" -> Len(notices[b]) = Len(batches[b].files)
          [] OTHER -> TRUE
    /\ \A f \in Range(filesKept) : notices[f[1]][f[2]] = "done"

\* The page of files agrees with the batches and the files it is about.
FilesSafety == SpinnerMeansWork /\ RowsAreOfFiles /\ EveryFileIsTold
=============================================================================
