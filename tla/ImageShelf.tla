------------------------------ MODULE ImageShelf ------------------------------
(***************************************************************************)
(* The uploaded images: components/Upload/UploadZone.tsx, which uploads    *)
(* batches of files one after the other and shows a row for each, and      *)
(* components/ImageGallery/ImageGallery.tsx, which lists the images and    *)
(* deletes them.  Files are numbered as they are dropped; file i becomes   *)
(* image i.                                                                *)
(***************************************************************************)
EXTENDS Requests

CONSTANT MaxFiles  \* files dropped on the zone
ASSUME UploadAssumption == MaxFiles \in Nat \ {0}

VARIABLES
    upload,   \* the zone: its rows and the batches it is working on
    shelfUi,  \* the gallery
    images    \* the server's images
shelfVars == <<upload, shelfUi, images>>

\* A row names its file; loops are the batches, each at one file, in a slot.
\* taken: slots in which batches were at work when the rows were last emptied.
ShelfInit ==
    /\ images = {}
    /\ upload = [rows |-> <<>>, idx |-> 0, dropped |-> 0, loops |-> {}, taken |-> {},
                 ended |-> [f \in 1..MaxFiles |-> "uploading"]]
    /\ shelfUi = [shown |-> {}, preview |-> 0, deleting |-> 0, filter |-> "all"]

-----------------------------------------------------------------------------
(* Uploading. *)

Row(f) == [file |-> f, status |-> "uploading"]
\* A batch at its first file of those left, in the next slot of the rows.
Loop(files, slot) == [files |-> files, slot |-> slot]

\* Files are dropped: rows and index start again, whatever is being uploaded.
\* Those that are not pictures are passed over, maybe all.
handleFiles ==
    /\ \E size \in 0..(MaxFiles - upload.dropped) :
         LET files == [i \in 1..size |-> upload.dropped + i]
         IN  upload' = [upload EXCEPT
               !.dropped = @ + size, !.idx = IF size = 0 THEN 0 ELSE 1,
               !.rows = IF size = 0 THEN <<>> ELSE <<Row(Head(files))>>,
               !.loops = IF size = 0 THEN @ ELSE @ \cup {Loop(files, 1)},
               !.taken = {l.slot : l \in upload.loops}]
    /\ UNCHANGED <<shelfUi, images, reqVars>>

Reported(status) == status

\* The file of a batch is stored, or not, or the answer is lost; its row is
\* found by its slot, and the batch goes on with its next file.
UploadEnds(loop) ==
    LET file == Head(loop.files)
        rest == Tail(loop.files)
    IN  \E status \in {"done", "error"}, stored \in BOOLEAN :
          LET rows == [i \in DOMAIN upload.rows |->
                         IF i = loop.slot THEN [upload.rows[i] EXCEPT !.status = Reported(status)]
                         ELSE upload.rows[i]]
          IN  /\ status = "done" => stored
              /\ images' = IF stored THEN images \cup {file} ELSE images
              /\ upload' = [upload EXCEPT
                   !.ended[file] = status,
                   !.rows = IF rest = <<>> THEN rows ELSE Append(rows, Row(Head(rest))),
                   !.idx = IF rest = <<>> THEN @ ELSE @ + 1,
                   !.loops = (@ \ {loop}) \cup
                               IF rest = <<>> THEN {} ELSE {Loop(rest, upload.idx + 1)}]
              /\ UNCHANGED <<shelfUi, reqVars>>

-----------------------------------------------------------------------------
(* The gallery. *)

\* A filter or an order of the list: which images it shows.
SortAndFilter ==
    /\ \E filter \in {"all", "odd"} : shelfUi' = [shelfUi EXCEPT !.filter = filter]
    /\ UNCHANGED <<upload, images, reqVars>>

Displayed == {i \in shelfUi.shown : shelfUi.filter = "all" \/ i % 2 = 1}

PreviewImage ==
    /\ shelfUi.deleting = 0
    /\ \E i \in IF shelfUi.preview = 0 THEN Displayed ELSE {0} :
         shelfUi' = [shelfUi EXCEPT !.preview = i]
    /\ UNCHANGED <<upload, images, reqVars>>

\* The dialog: asked, cancelled, confirmed; it closes with its request.
DeleteImage ==
    /\ shelfUi.preview = 0
    /\ \/ /\ shelfUi.deleting = 0
          /\ \E i \in Displayed : shelfUi' = [shelfUi EXCEPT !.deleting = i]
          /\ UNCHANGED reqVars
       \/ /\ shelfUi.deleting # 0
          /\ shelfUi' = [shelfUi EXCEPT !.deleting = 0]
          /\ \/ UNCHANGED reqVars
             \/ ~isPending("image") /\ Send("image", shelfUi.deleting, "none")
    /\ UNCHANGED <<upload, images>>

\* images changes with the request; the list by a refetch.
AnswerImage(q) ==
    /\ q.op = "image"
    /\ \/ /\ images' = images \ {q.id}
          /\ \E state \in {"ok", "failed"} : Respond(q, state)
       \/ Respond(q, "failed") /\ UNCHANGED images
       \/ Settle(q) /\ UNCHANGED images
    /\ UNCHANGED <<upload, shelfUi>>

\* After an upload or a deletion, or when the window has come back.
RefetchImages ==
    /\ shelfUi.shown # images
    /\ shelfUi' = [shelfUi EXCEPT !.shown = images]
    /\ UNCHANGED <<upload, images, reqVars>>

ShelfNext ==
    \/ handleFiles \/ SortAndFilter \/ PreviewImage \/ DeleteImage \/ RefetchImages
    \/ \E loop \in upload.loops : UploadEnds(loop)
    \/ \E q \in reqs : AnswerImage(q)

-----------------------------------------------------------------------------
(* Properties. *)

ShelfTypeOK ==
    /\ upload.idx \in 0..MaxFiles
    /\ \A row \in {upload.rows[i] : i \in DOMAIN upload.rows} : row.file \in 1..upload.dropped
    /\ shelfUi.shown \cup images \subseteq 1..MaxFiles

\* Batches may be dropped on top of each other: a row tells what became of its
\* file, unless it is in a slot that an earlier batch was at work in when the
\* rows were emptied for a later one; it has that slot filled in once more.
RowsAreTrue ==
    \A i \in DOMAIN upload.rows \ upload.taken :
        upload.rows[i].status = upload.ended[upload.rows[i].file]
=============================================================================
