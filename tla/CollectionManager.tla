-------------------------- MODULE CollectionManager ---------------------------
(***************************************************************************)
(* Collections and tags: components/GoesData/CollectionsTab.tsx and the    *)
(* two dialogs that put the selected frames into a collection or tag them, *)
(* AddToCollectionModal.tsx and TagModal.tsx.  Collections and tags are    *)
(* numbered as they are created.                                           *)
(***************************************************************************)
EXTENDS Requests

CONSTANT MaxCollections  \* collections, and tags, ever created
ASSUME CollectionsAssumption == MaxCollections \in Nat \ {0}

VARIABLES
    album,   \* the tab and the dialogs
    shelf    \* the server: [collections, tags]
albumVars == <<album, shelf>>

\* A collection has frames or none, or is gone.  dialog is the one that is open;
\* editing is the collection whose name is edited; loading the one whose frames
\* are being read, player the one that is played, lastAsked the last one asked for.
AlbumInit ==
    /\ shelf = [collections |-> <<"filled">>, tags |-> 0]
    /\ album = [dialog |-> "none", editing |-> 0, loading |-> 0, player |-> 0,
                lastAsked |-> 0, shown |-> <<"filled">>, picked |-> {}]

There(collections) == {c \in DOMAIN collections : collections[c] # "gone"}

-----------------------------------------------------------------------------
(* The tab. *)

\* Enter in the field of the name creates, without waiting for the one before.
CreateCollection ==
    /\ album.dialog = "none" /\ album.player = 0
    /\ Send("create", 0, "empty")
    /\ UNCHANGED albumVars

\* Edit and Cancel; Save, or Enter, as often as it is pressed.
EditName(c) ==
    /\ album.dialog = "none" /\ album.player = 0
    /\ \/ album' = [album EXCEPT !.editing = IF @ = c THEN 0 ELSE c] /\ UNCHANGED reqVars
       \/ album.editing = c /\ Send("rename", c, "none") /\ UNCHANGED album
    /\ UNCHANGED shelf

DeleteCollection(c) ==
    /\ album.dialog = "none" /\ album.player = 0 /\ album.editing # c
    /\ Send("delete", c, "gone")
    /\ UNCHANGED albumVars

CanAnimate(c) == album.loading = 0 /\ album.shown[c] # "empty"

handleAnimate(c) ==
    /\ album.dialog = "none" /\ album.player = 0 /\ album.editing # c
    /\ CanAnimate(c)
    /\ Send("frames", c, "none")
    /\ album' = [album EXCEPT !.loading = c, !.lastAsked = c]
    /\ UNCHANGED shelf

ClosePlayer ==
    /\ album.player # 0
    /\ album' = [album EXCEPT !.player = 0]
    /\ UNCHANGED <<shelf, reqVars>>

-----------------------------------------------------------------------------
(* The dialogs, opened over a selection of frames. *)

OpenAlbumDialog ==
    /\ album.player = 0
    /\ \E dialog \in {"none", "collect", "tag"} :
         album' = [album EXCEPT !.dialog = dialog, !.picked = {}]
    /\ UNCHANGED <<shelf, reqVars>>

AddToCollection ==
    /\ album.dialog = "collect"
    /\ \/ ~isPending("createAndAdd") /\ Send("createAndAdd", 0, "none")
       \/ \E c \in There(album.shown) : ~isPending("add") /\ Send("add", c, "none")
    /\ UNCHANGED albumVars

PickTags ==
    /\ album.dialog = "tag"
    /\ \/ \E t \in 1..shelf.tags : album' = [album EXCEPT !.picked = (@ \ {t}) \cup ({t} \ @)]
                                   /\ UNCHANGED reqVars
       \/ ~isPending("createTag") /\ Send("createTag", 0, "none") /\ UNCHANGED album
       \/ album.picked # {} /\ ~isPending("tag") /\ Send("tag", 0, "none") /\ UNCHANGED album
    /\ UNCHANGED shelf

LeaveAlbum ==
    /\ Unmount
    /\ album' = [album EXCEPT !.dialog = "none", !.editing = 0, !.loading = 0, !.player = 0,
                              !.lastAsked = 0, !.picked = {}]
    /\ UNCHANGED shelf

-----------------------------------------------------------------------------
(* The server and its answers. *)

\* Mutant: the two requests of createAndAdd are sent at once.
SecondCallUnawaited(q) == "ok"

\* createAndAdd is two requests: the collection, then, with its id, the frames.
AfterCreate(q) == IF q.op = "createAndAdd" THEN "sent" ELSE "ok"

\* A new collection; the id is what the rest of the request goes on with.
ServeCreate(q) ==
    /\ q.state = "sent" /\ q.op \in {"create", "createAndAdd"} /\ q.id = 0
    /\ Len(shelf.collections) < MaxCollections
    /\ shelf' = [shelf EXCEPT !.collections = Append(@, "empty")]
    /\ \E state \in {AfterCreate(q), "failed"} :
         RespondWith(q, state, Len(shelf'.collections))
    /\ UNCHANGED album

\* The other changes, each of a collection that is still there.
ServeChange(q) ==
    /\ q.op \in {"add", "createAndAdd", "rename", "delete"} /\ q.id \in There(shelf.collections)
    /\ shelf' = CASE q.op \in {"add", "createAndAdd"} ->
                       [shelf EXCEPT !.collections[q.id] = "filled"]
                  [] q.op = "delete" -> [shelf EXCEPT !.collections[q.id] = "gone"]
                  [] OTHER -> shelf
    /\ \E state \in {"ok", "failed"} : Respond(q, state)
    /\ UNCHANGED album

ServeTags(q) ==
    /\ \/ /\ q.op \in {"tag", "frames"}
          /\ \E state \in {"ok", "failed"} : Respond(q, state)
          /\ UNCHANGED shelf
       \/ /\ q.op = "createTag" /\ q.id = 0 /\ shelf.tags < MaxCollections
          /\ shelf' = [shelf EXCEPT !.tags = @ + 1]
          /\ \E state \in {"ok", "failed"} : RespondWith(q, state, shelf'.tags)
    /\ UNCHANGED album

RefuseAlbum(q) == Respond(q, "failed") /\ UNCHANGED albumVars

\* The finally of handleAnimate.
Loaded(q, filled) == 0

AnswerFrames(q) ==
    /\ Settle(q) /\ q.op = "frames"
    /\ LET filled == q.state = "ok" /\ shelf.collections[q.id] = "filled"
       IN  album' = IF q.here THEN [album EXCEPT !.player = IF filled THEN q.id ELSE @,
                                                 !.loading = Loaded(q, filled)]
                    ELSE album
    /\ UNCHANGED shelf

\* A dialog's success closes it; the tab's closes the edited name, whichever
\* it is by now; a new tag is picked.
AnswerAlbum(q) ==
    /\ Settle(q) /\ q.op # "frames"
    /\ album' = IF q.state = "failed" \/ ~q.here THEN album
         ELSE CASE q.op \in {"add", "createAndAdd"} ->
                     [album EXCEPT !.dialog = "none"]
                [] q.op = "tag" -> [album EXCEPT !.dialog = "none", !.picked = {}]
                [] q.op = "createTag" /\ album.dialog = "tag" ->
                     [album EXCEPT !.picked = @ \cup {q.id}]
                [] q.op = "rename" -> [album EXCEPT !.editing = 0]
                [] OTHER -> album
    /\ UNCHANGED shelf

RefetchCollections ==
    /\ album.shown # shelf.collections
    /\ album' = [album EXCEPT !.shown = shelf.collections]
    /\ UNCHANGED <<shelf, reqVars>>

AlbumUser ==
    \/ CreateCollection \/ ClosePlayer \/ OpenAlbumDialog \/ AddToCollection \/ PickTags
    \/ LeaveAlbum
    \/ \E c \in There(album.shown) : EditName(c) \/ DeleteCollection(c) \/ handleAnimate(c)
AlbumServer ==
    \E q \in reqs : \/ ServeCreate(q) \/ ServeChange(q) \/ ServeTags(q) \/ RefuseAlbum(q)
                    \/ AnswerFrames(q) \/ AnswerAlbum(q)
AlbumNext == AlbumUser \/ AlbumServer \/ RefetchCollections

-----------------------------------------------------------------------------
(* Properties. *)

AlbumTypeOK ==
    /\ shelf.collections \in Seq({"empty", "filled", "gone"})
    /\ {album.editing, album.loading, album.player, album.lastAsked} \subseteq 0..MaxCollections
    /\ album.picked \subseteq 1..shelf.tags

\* The player shows the collection that was asked for last: the frames of an
\* earlier one cannot arrive after them.
PlayerOfLastAsked == album.player # 0 => album.player = album.lastAsked

\* A dialog that reports frames as added has them in the collection, also when
\* it first had to create it (unless the collection has been deleted since).
AddedMeansAdded ==
    \A q \in reqs : q.op \in {"add", "createAndAdd"} /\ q.state = "ok"
                      => shelf.collections[q.id] # "empty"

\* The Animate buttons come back after every load: of frames, of none, or failed.
AnimateComesBack == album.loading # 0 ~> album.loading = 0
=============================================================================
