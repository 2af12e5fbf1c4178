-------------------------------- MODULE Images --------------------------------
(***************************************************************************)
(* The images of the items: imageController, the upload middleware, the    *)
(* parts of itemController that create and delete items, and the admin     *)
(* pages that call them (M_PhotoesModal, M_ItemModal, M_itemCard).         *)
(*                                                                         *)
(* A request is a record that goes from step to step; between two steps    *)
(* anything may happen, and at any step it may fail.  An image goes by the *)
(* file that was uploaded for it: file names carry a uuid, and a row keeps *)
(* the url of its file.  Each operation of the pages ends by loading the   *)
(* items again; what a page shows may be old by the time of a click, but a *)
(* request for a row that is gone by then fails without doing anything, so *)
(* the admin picks from the rows that exist.                               *)
(***************************************************************************)
EXTENDS Naturals, FiniteSets, FiniteSetsExt, Functions

CONSTANTS
  MaxItems,      \* items at the same time (a bound)
  MaxFiles,      \* files at the same time, those left behind included (a bound)
  MaxPosition,   \* position of an image (a bound)
  MaxRequests    \* requests under way at the same time (a bound)

\* There is an item to begin with.
ASSUME ImagesAssumption ==
  {MaxItems, MaxFiles, MaxPosition, MaxRequests} \subseteq Nat /\ MaxItems # 0

VARIABLES
  items,       \* Item rows
  image,       \* ItemImage rows, by file: the item and the position
  files,       \* what lies in static/uploads
  requests,    \* operations of the admin under way
  submitting,  \* the modals whose isSubmitting is set
  overlapped   \* two operations that write positions of one item overlapped

imagesVars == <<items, image, files, requests, submitting, overlapped>>

-------------------------------------------------------------------------------
ItemId == 1 .. MaxItems
File   == 1 .. MaxFiles

Row  == [item : ItemId, position : Nat]

ImagesOf(i)    == {f \in DOMAIN image : image[f].item = i}
PositionsOf(i) == {image[f].position : f \in ImagesOf(i)}

\* What a request carries; only what its step needs is set.
ImageRequest ==
  [step   : {"item", "read", "insert", "remove", "unlink", "first", "second",
             "write", "drop", "list"},
   item   : ItemId,
   file   : File \cup {0}, other : File \cup {0},
   at     : Nat, otherAt : Nat,
   modal  : {"photos", "item", "none"},
   preview : BOOLEAN]

NewRequest(step, i, f, g, modal, preview) ==
  [step |-> step, item |-> i, file |-> f, other |-> g, at |-> 0, otherAt |-> 0,
   modal |-> modal, preview |-> preview]

\* All that is left of an operation is to load the items again.
Loading(r) == NewRequest("list", r.item, 0, 0, r.modal, FALSE)

\* Names and ids are never given twice: one that nothing refers to any more
\* stands for a new one.
NewFile == File \ (files \cup DOMAIN image \cup UNION {{r.file, r.other} : r \in requests})
NewItem == ItemId \ (items \cup {r.item : r \in requests})

ImagesInit ==
  /\ items = {1} /\ image = <<>> /\ files = {}
  /\ requests = {} /\ submitting = {} /\ overlapped = FALSE

Start(r) ==
  /\ Cardinality(requests) < MaxRequests
  /\ requests' = requests \cup {r}

Advance(r, next) == requests' = (requests \ {r}) \cup {next}

\* finally: setIsSubmitting(false), which a modal that was closed does not see.
End(r) ==
  /\ requests' = requests \ {r}
  /\ submitting' = submitting \ {r.modal}

\* Positions of item i are being read and written by somebody.
Positioning(i) ==
  \E r \in requests :
    r.item = i /\ r.step \in {"read", "insert", "first", "second", "write"}

\* The first step in which positions of item i matter.
Overlap(i) == overlapped' = (overlapped \/ Positioning(i))

Database == <<items, image>>

-------------------------------------------------------------------------------
\* Uploads

\* multer has stored the file when uploadFile begins.  addImage of M_PhotoesModal.
AddImage(i) ==
  /\ i \in items /\ "photos" \notin submitting /\ NewFile # {}
  /\ files' = files \cup {Min(NewFile)}
  /\ Start(NewRequest("read", i, Min(NewFile), 0, "photos", FALSE))
  /\ submitting' = submitting \cup {"photos"}
  /\ Overlap(i)
  /\ UNCHANGED <<Database>>

\* Mutant: images are counted, so that a gap left by a deletion is not seen.
nextPositionCounted(i) == Cardinality(ImagesOf(i)) + 1

nextPosition(i) ==
  IF ImagesOf(i) = {} THEN 1 ELSE Max(PositionsOf(i)) + 1

ReadLast(r) ==
  /\ r.step = "read" /\ nextPosition(r.item) <= MaxPosition
  /\ Advance(r, [r EXCEPT !.step = "insert", !.at = nextPosition(r.item)])
  /\ UNCHANGED <<Database, files, submitting, overlapped>>

\* itemImage.create; without its item the foreign key refuses the row, which is
\* one of the failures.
InsertImage(r) ==
  /\ r.step = "insert" /\ r.item \in items
  /\ image' = [f \in DOMAIN image \cup {r.file} |->
               IF f = r.file THEN [item |-> r.item, position |-> r.at] ELSE image[f]]
  /\ Advance(r, Loading(r))
  /\ UNCHANGED <<items, files, submitting, overlapped>>

-------------------------------------------------------------------------------
\* Deletion and swap

\* deleteImage of M_PhotoesModal: its button is not disabled while submitting.
DeleteImage(f) ==
  /\ f \in DOMAIN image
  /\ Start(NewRequest("remove", image[f].item, f, 0, "photos", FALSE))
  /\ submitting' = submitting \cup {"photos"}
  /\ UNCHANGED <<Database, files, overlapped>>

\* findUnique and delete of deleteFile: a row that is gone by either of them is
\* not found, which is one of the failures.  Mutant: the file goes first.
RemoveFileFirst(r) ==
  /\ r.step = "remove" /\ r.file \in DOMAIN image
  /\ files' = files \ {r.file}
  /\ Advance(r, [r EXCEPT !.step = "unlink"])
  /\ UNCHANGED <<Database, submitting, overlapped>>
RemoveImage(r) ==
  /\ r.step = "remove" /\ r.file \in DOMAIN image
  /\ image' = Restrict(image, DOMAIN image \ {r.file})
  /\ Advance(r, [r EXCEPT !.step = "unlink"])
  /\ UNCHANGED <<items, files, submitting, overlapped>>

\* A failing unlink is only logged.
UnlinkFile(r, unlinked) ==
  /\ r.step = "unlink"
  /\ files' = IF unlinked THEN files \ {r.file} ELSE files
  /\ Advance(r, Loading(r))
  /\ UNCHANGED <<Database, submitting, overlapped>>

\* swapImage of M_PhotoesModal: two images of the item, neighbours in its list.
SwapImages(f, g) ==
  /\ "photos" \notin submitting
  /\ {f, g} \subseteq DOMAIN image /\ f # g /\ image[f].item = image[g].item
  /\ Start(NewRequest("first", image[f].item, f, g, "photos", FALSE))
  /\ submitting' = submitting \cup {"photos"}
  /\ Overlap(image[f].item)
  /\ UNCHANGED <<Database, files>>

\* The two findUnique of swapFiles.
ReadFirst(r) ==
  /\ r.step = "first" /\ r.file \in DOMAIN image
  /\ Advance(r, [r EXCEPT !.step = "second", !.at = image[r.file].position])
  /\ UNCHANGED <<Database, files, submitting, overlapped>>

ReadSecond(r) ==
  /\ r.step = "second" /\ r.other \in DOMAIN image
  /\ Advance(r, [r EXCEPT !.step = "write", !.otherAt = image[r.other].position])
  /\ UNCHANGED <<Database, files, submitting, overlapped>>

\* The transaction: both rows, or neither.
WriteSwap(r) ==
  /\ r.step = "write" /\ {r.file, r.other} \subseteq DOMAIN image
  /\ image' = [image EXCEPT ![r.file].position = r.otherAt, ![r.other].position = r.at]
  /\ Advance(r, Loading(r))
  /\ UNCHANGED <<items, files, submitting, overlapped>>

-------------------------------------------------------------------------------
\* Items

\* handleSubmit of M_ItemModal, for a new item, up to createItem.
SubmitItem(preview) ==
  /\ "item" \notin submitting /\ NewItem # {}
  /\ Start(NewRequest("item", Min(NewItem), 0, 0, "item", preview))
  /\ submitting' = submitting \cup {"item"}
  /\ UNCHANGED <<Database, files, overlapped>>

\* The transaction of createItem; then createItemWithPreview uploads the preview,
\* if one was chosen.
CreateItem(r) ==
  /\ r.step = "item"
  /\ items' = items \cup {r.item}
  /\ \/ /\ r.preview /\ NewFile # {}
        /\ files' = files \cup {Min(NewFile)}
        /\ Advance(r, [r EXCEPT !.step = "read", !.file = Min(NewFile)])
     \/ /\ ~r.preview
        /\ Advance(r, Loading(r))
        /\ UNCHANGED files
  /\ UNCHANGED <<image, submitting, overlapped>>

\* The delete button of M_itemCard.
ClickDeleteItem(i) ==
  /\ i \in items
  /\ Start(NewRequest("drop", i, 0, 0, "none", FALSE))
  /\ UNCHANGED <<Database, files, submitting, overlapped>>

\* The transaction of deleteItem: the rows go, the files stay.
DropItem(r) ==
  /\ r.step = "drop" /\ r.item \in items
  /\ items' = items \ {r.item}
  /\ image' = Restrict(image, DOMAIN image \ ImagesOf(r.item))
  /\ Advance(r, Loading(r))
  /\ UNCHANGED <<files, submitting, overlapped>>

-------------------------------------------------------------------------------
\* The end of every operation: getItems is answered.
ItemsLoaded(r) ==
  /\ r.step = "list"
  /\ End(r)
  /\ UNCHANGED <<Database, files, overlapped>>

\* A statement or the connection fails, or the backend dies.  A failed preview
\* is the one failure after which the items are loaded all the same.
RequestFails(r) ==
  /\ IF r.preview /\ r.step \in {"read", "insert"}
     THEN Advance(r, Loading(r)) /\ UNCHANGED submitting
     ELSE End(r)
  /\ UNCHANGED <<Database, files, overlapped>>

\* Closing unmounts a modal; its isSubmitting is gone, its operations go on.
ReopenModal(modal) ==
  /\ modal \in submitting
  /\ submitting' = submitting \ {modal}
  /\ requests' = {IF r.modal = modal THEN [r EXCEPT !.modal = "none"] ELSE r : r \in requests}
  /\ UNCHANGED <<Database, files, overlapped>>

ImagesNext ==
  \/ \E i \in ItemId : AddImage(i) \/ ClickDeleteItem(i)
  \/ \E f \in File : DeleteImage(f) \/ \E g \in File : SwapImages(f, g)
  \/ \E preview \in BOOLEAN : SubmitItem(preview)
  \/ \E modal \in {"photos", "item"} : ReopenModal(modal)
  \/ \E r \in requests :
       \/ ReadLast(r) \/ InsertImage(r) \/ RemoveImage(r)
       \/ ReadFirst(r) \/ ReadSecond(r) \/ WriteSwap(r)
       \/ \E unlinked \in BOOLEAN : UnlinkFile(r, unlinked)
       \/ CreateItem(r) \/ DropItem(r) \/ ItemsLoaded(r) \/ RequestFails(r)

ImagesSpec == ImagesInit /\ [][ImagesNext]_imagesVars

-------------------------------------------------------------------------------
\* Properties

ImagesTypeOK ==
  /\ items \subseteq ItemId
  /\ DOMAIN image \subseteq File /\ \A f \in DOMAIN image : image[f] \in Row
  /\ files \subseteq File
  /\ requests \subseteq ImageRequest
  /\ submitting \subseteq {"photos", "item"} /\ overlapped \in BOOLEAN

\* An image the shop shows can be loaded: whatever fails half-way, a row always
\* has its file (uploadMiddleware stores it before uploadFile inserts the row,
\* deleteFile deletes the row before it unlinks the file).
RowHasItsFile == \A f \in DOMAIN image : f \in files

\* As long as no two uploads or swaps of an item overlapped, its images have
\* positions of their own, whatever was deleted meanwhile and whatever failed
\* (uploadFile, swapFiles, deleteFile).
PositionsDistinct ==
  ~overlapped =>
    \A i \in ItemId :
      \A f, g \in ImagesOf(i) : image[f].position = image[g].position => f = g

-------------------------------------------------------------------------------
\* The inductive invariant behind RowHasItsFile and PositionsDistinct

\* A row belongs to an item that is there and has its file.
RowInv(f) ==
  image[f].item \in items /\ image[f].position <= MaxPosition /\ f \in files

\* The file of an upload waits for its row; the row of a file that is about to go
\* is gone; a swap is of two images of its item, as far as they are still there.
RequestInv(r) ==
  /\ r.at <= MaxPosition /\ r.otherAt <= MaxPosition
  /\ r.step = "item" => r.item \notin items
  /\ r.step \in {"read", "insert"} => r.file \in files
  /\ r.step \in {"read", "insert", "unlink"} => r.file \notin DOMAIN image
  /\ r.step \in {"first", "second", "write"} =>
       /\ r.file # r.other
       /\ \A f \in {r.file, r.other} \cap DOMAIN image : image[f].item = r.item

\* No other request knows the file of an upload, or the item being made.
PairInv(r, s) ==
  r # s => /\ r.step \in {"read", "insert"} => r.file \notin {s.file, s.other}
           /\ r.step = "item" => r.item # s.item

MovesPositions(r) == r.step \in {"read", "insert", "first", "second", "write"}

\* What a request that writes positions has read of them is still so.
ReadInv(r) ==
  /\ r.step = "insert" => r.at \notin PositionsOf(r.item)
  /\ r.step \in {"second", "write"} /\ r.file \in DOMAIN image =>
       image[r.file].position = r.at
  /\ r.step = "write" /\ r.other \in DOMAIN image =>
       image[r.other].position = r.otherAt

InOrder ==
  /\ \A f, g \in DOMAIN image : image[f] = image[g] => f = g
  /\ \A r, s \in requests :
       MovesPositions(r) /\ MovesPositions(s) /\ r.item = s.item => r = s
  /\ \A r \in requests : ReadInv(r)

\* Uploads, swaps and deletions that know of each other only by what they read of
\* the rows leave every row with its file and, one at a time, with its own
\* position (imageController).
ImagesInv ==
  /\ ImagesTypeOK
  /\ \A f \in DOMAIN image : RowInv(f)
  /\ \A r \in requests : RequestInv(r)
  /\ \A r, s \in requests : PairInv(r, s)
  /\ ~overlapped => InOrder
===============================================================================
