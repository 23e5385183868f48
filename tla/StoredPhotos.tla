----------------------------- MODULE StoredPhotos -----------------------------
(***************************************************************************)
(* A row that names files of the uploads directory: the profile photo of   *)
(* an associado, the two photos of an oficina, the image of a slider, a    *)
(* template photo of the reinspection, a document.  FileUploadService      *)
(* writes each file under a new name and never says that an unlink failed; *)
(* the services around it read the row, remove, upload and write in an     *)
(* order of their own, without a transaction.                              *)
(*                                                                         *)
(* One row is followed from its creation on.  A url that a request gives   *)
(* instead of a file points outside of the uploads directory.              *)
(***************************************************************************)
EXTENDS Naturals, Sequences

CONSTANT Requests   \* the requests made about the row

Slots == {"front", "back"}
Kinds == {"perfil", "oficina", "slider", "template", "documento"}
Files == Requests \X Slots   \* the request that uploaded it, and for which photo
None  == <<"none">>          \* no url
Link  == <<"link">>

VARIABLES
  kind,    \* what the row is
  exists,  \* the row is in the database
  url,     \* its urls
  disk,    \* the files of the uploads directory
  op,      \* what each request asks for, with the row it read and what it removed
  todo,    \* the awaits each request has before it
  state,   \* "new", "running", "done", "failed"
  calm     \* history: no request met another, failed, or gave a link

vars == <<kind, exists, url, disk, op, todo, state, calm>>

SlotsOf(k) == IF k = "oficina" THEN Slots ELSE {"front"}
Nothing    == [s \in Slots |-> None]
Running    == {r \in Requests : state[r] = "running"}

Init ==
  /\ kind \in Kinds
  /\ exists = (kind = "perfil")
  /\ url = Nothing
  /\ disk = {}
  /\ op = [r \in Requests |-> [does |-> "none", photos |-> {}, links |-> {},
                               read |-> Nothing, removed |-> {}]]
  /\ todo = [r \in Requests |-> <<>>]
  /\ state = [r \in Requests |-> "new"]
  /\ calm = TRUE

-----------------------------------------------------------------------------
(* The awaits of each request, in the order of its code *)

Each(photos, awaits) ==
  (IF "front" \in photos THEN awaits["front"] ELSE <<>>) \o
  (IF "back" \in photos THEN awaits["back"] ELSE <<>>)

Upload(s)  == <<"upload", s>>
Unlink(s)  == <<"unlink", s>>
Only(verb) == << <<verb, "row">> >>

\* updateAssociado and updateWorkshop: each photo makes way for its successor.
Replace(photos) ==
  Only("find") \o Each(photos, [s \in Slots |-> <<Unlink(s), Upload(s)>>]) \o Only("update")

\* createWorkshop, createSlider and the create of documentos.
Create(photos) == Each(photos, [s \in Slots |-> <<Upload(s)>>]) \o Only("create")

\* updateSlider uploads before it removes.
UpdateSlider(photos) ==
  Only("find") \o Each(photos, [s \in Slots |-> <<Upload(s), Unlink(s)>>]) \o Only("update")

\* Mutant: removeWorkshop forgets the second photo.
RemoveWorkshopFront == Only("find") \o <<Unlink("front")>> \o Only("delete")
RemoveWorkshop == Only("find") \o <<Unlink("front"), Unlink("back")>> \o Only("delete")

DeleteSlider == Only("find") \o Only("delete") \o <<Unlink("front")>>

\* remove of documentos leaves the file.
RemoveDocument == Only("find") \o Only("delete")

\* upsertTemplatePhoto looks for the row after its upload.
UpsertTemplatePhoto == <<Upload("front")>> \o Only("look") \o <<Unlink("front")>> \o Only("upsert")

\* What a request of each kind may ask for, and carry.
Asks(k) ==
  CASE k = "perfil"    -> {"update"}
    [] k = "template"  -> {"upsert"}
    [] OTHER           -> {"create", "update", "delete"}

Carries(k, does, photos, links) ==
  /\ (photos \cup links) \subseteq SlotsOf(k)
  /\ photos \cap links = {}   \* a photo goes before the link of its slot
  /\ does = "delete" => photos = {} /\ links = {}
  /\ k = "template" => photos = {"front"} /\ links = {}
  /\ k = "documento" /\ does = "update" => photos = {}
  \* a slider needs an image, a document its file
  /\ k \in {"slider", "documento"} /\ does = "create" => photos \cup links # {}

Plan(k, does, photos) ==
  CASE does = "create"                     -> Create(photos)
    [] does = "upsert"                     -> UpsertTemplatePhoto
    [] does = "update" /\ k = "slider"     -> UpdateSlider(photos)
    [] does = "update" /\ k # "slider"     -> Replace(photos)
    [] does = "delete" /\ k = "oficina"    -> RemoveWorkshop
    [] does = "delete" /\ k = "slider"     -> DeleteSlider
    [] does = "delete" /\ k = "documento"  -> RemoveDocument

Receive(r, does, photos, links) ==
  /\ state[r] = "new"
  /\ does \in Asks(kind) /\ Carries(kind, does, photos, links)
  /\ does = "create" => ~exists /\ \A q \in Requests : op[q].does # "create"
  /\ state' = [state EXCEPT ![r] = "running"]
  /\ op' = [op EXCEPT ![r].does = does, ![r].photos = photos, ![r].links = links]
  /\ todo' = [todo EXCEPT ![r] = Plan(kind, does, photos)]
  /\ calm' = (calm /\ Running = {} /\ links = {})
  /\ UNCHANGED <<kind, exists, url, disk>>

-----------------------------------------------------------------------------
(* One await of a request *)

At(r, verb) == state[r] = "running" /\ Head(todo[r])[1] = verb
Slot(r)     == Head(todo[r])[2]

\* The await was the last one, or the request goes on to the next.
GoesOn(r) ==
  /\ todo' = [todo EXCEPT ![r] = Tail(@)]
  /\ state' = [state EXCEPT ![r] = IF Len(todo[r]) = 1 THEN "done" ELSE "running"]

\* findUnique: without the row the request is answered 404.
Find(r) ==
  /\ At(r, "find") \/ At(r, "look")
  /\ IF exists \/ At(r, "look")
     THEN GoesOn(r) /\ op' = [op EXCEPT ![r].read = IF exists THEN url ELSE Nothing]
     ELSE /\ state' = [state EXCEPT ![r] = "done"]
          /\ todo' = [todo EXCEPT ![r] = <<>>]
          /\ UNCHANGED op
  /\ UNCHANGED <<kind, exists, url, disk, calm>>

\* upload...Photo and uploadDocumentFile.
Store(r) ==
  /\ At(r, "upload")
  /\ disk' = disk \cup {<<r, Slot(r)>>}
  /\ GoesOn(r)
  /\ UNCHANGED <<kind, exists, url, op, calm>>

\* delete...Photo of the url that was read; there may be none, and the file of it may
\* be gone by now.
Remove(r) ==
  /\ At(r, "unlink")
  /\ LET gone == {op[r].read[Slot(r)]} \cap Files
     IN  /\ disk' = disk \ gone
         /\ op' = [op EXCEPT ![r].removed = @ \cup gone]
  /\ GoesOn(r)
  /\ UNCHANGED <<kind, exists, url, calm>>

\* The unlink fails, which is logged only.
RemoveFails(r) ==
  /\ At(r, "unlink")
  /\ op[r].read[Slot(r)] \in disk
  /\ GoesOn(r)
  /\ calm' = FALSE
  /\ UNCHANGED <<kind, exists, url, disk, op>>

Written(r) ==
  [s \in Slots |-> IF s \in op[r].photos THEN <<r, s>>
                   ELSE IF s \in op[r].links THEN Link
                   ELSE IF exists THEN url[s] ELSE None]

Write(r) ==
  /\ At(r, "create") \/ At(r, "upsert") \/ (At(r, "update") /\ exists)
  /\ exists' = TRUE
  /\ url' = Written(r)
  /\ GoesOn(r)
  /\ UNCHANGED <<kind, disk, op, calm>>

Delete(r) ==
  /\ At(r, "delete") /\ exists
  /\ exists' = FALSE
  /\ GoesOn(r)
  /\ UNCHANGED <<kind, url, disk, op, calm>>

\* An await rejects, as update and delete do when the row is gone, or the process stops.
Fail(r) ==
  /\ state[r] = "running"
  /\ state' = [state EXCEPT ![r] = "failed"]
  /\ todo' = [todo EXCEPT ![r] = <<>>]
  /\ calm' = FALSE
  /\ UNCHANGED <<kind, exists, url, disk, op>>

Next ==
  \/ \E r \in Requests, does \in {"create", "update", "delete", "upsert"},
       photos, links \in SUBSET Slots : Receive(r, does, photos, links)
  \/ \E r \in Requests :
       \/ Find(r) \/ Store(r) \/ Remove(r) \/ RemoveFails(r)
       \/ Write(r) \/ Delete(r) \/ Fail(r)

Spec == Init /\ [][Next]_vars

-----------------------------------------------------------------------------
Named == IF exists THEN {url[s] : s \in Slots} \cap Files ELSE {}

\* A file that the row names is missing only by a request that removed it and is still
\* on its way to the write, or failed before it; requests that all come to their end
\* leave the row with its files, however they overlapped.
MissingHasCulprit ==
  \A f \in Named \ disk :
    \E r \in Requests : f \in op[r].removed /\ state[r] \in {"running", "failed"}

\* Requests one after another, without a failure or a link, leave no file that the row
\* does not name; documents are never removed.
NothingIsLeftOver ==
  calm /\ Running = {} /\ kind # "documento" => disk = Named

\* The uploads directory and the row agree, as far as the order of the awaits allows.
FilesMatchRows == MissingHasCulprit /\ NothingIsLeftOver

-----------------------------------------------------------------------------
(* The inductive invariant behind FilesMatchRows *)

Urls   == Files \cup {None, Link}
Verbs  == {"find", "look", "upload", "unlink", "create", "update", "upsert", "delete"}
Awaits == Verbs \X (Slots \cup {"row"})

Operation ==
  [does : {"none", "create", "update", "delete", "upsert"}, photos : SUBSET Slots,
   links : SUBSET Slots, read : [Slots -> Urls], removed : SUBSET Files]

TypeOK ==
  /\ kind \in Kinds /\ exists \in BOOLEAN /\ calm \in BOOLEAN
  /\ url \in [Slots -> Urls]
  /\ disk \in SUBSET Files
  /\ op \in [Requests -> Operation]
  /\ todo \in [Requests -> Seq(Awaits)]
  /\ state \in [Requests -> {"new", "running", "done", "failed"}]

\* What a request has before it: the look at the row, and the write or the delete.
Ahead(r)    == {todo[r][i] : i \in 1..Len(todo[r])}
Reads       == {<<"find", "row">>, <<"look", "row">>}
ToRead(r)   == Ahead(r) \cap Reads # {}
Final(r)    == <<op[r].does, "row">>
ToUnlink(r) ==
  IF op[r].does # "delete" THEN op[r].photos
  ELSE IF kind = "documento" THEN {} ELSE SlotsOf(kind)

\* The order of the awaits: a find comes first, a look after the uploads only, and
\* the write last, but for the unlink of deleteSlider.
InTurn(r) ==
  \A i, j \in 1..Len(todo[r]) : i < j =>
    /\ todo[r][i] # todo[r][j]
    /\ todo[r][j][1] # "find"
    /\ todo[r][j][1] = "look" => todo[r][i][1] = "upload"
    /\ todo[r][i] = Final(r) => kind = "slider" /\ op[r].does = "delete"

TodoOK(r) ==
  /\ todo[r] # <<>>
  /\ InTurn(r)
  /\ Ahead(r) \subseteq Reads \cup {Final(r)} \cup {Upload(s) : s \in op[r].photos}
                              \cup {Unlink(s) : s \in ToUnlink(r)}
  /\ Final(r) \in Ahead(r) \/ (kind = "slider" /\ op[r].does = "delete" /\ ~exists)
  /\ op[r].does = "create" => ~ToRead(r)

\* What a request asks for, what it has read, and what it removed since.
OpOK(r) ==
  /\ op[r].does \in Asks(kind)
  /\ op[r].photos \cup op[r].links \subseteq SlotsOf(kind)
  /\ op[r].does = "delete" => op[r].photos = {}
  /\ op[r].removed \subseteq
       {op[r].read[s] : s \in {t \in ToUnlink(r) : Unlink(t) \notin Ahead(r)}}
  /\ ToRead(r) =>
       /\ Final(r) \in Ahead(r)
       /\ op[r].read = Nothing /\ op[r].removed = {}
       /\ \A s \in ToUnlink(r) : Unlink(s) \in Ahead(r)
  /\ <<"find", "row">> \in Ahead(r) =>
       \A s \in op[r].photos : Upload(s) \in Ahead(r)

\* The photos a request has uploaded so far are there.
UploadedIsThere(r) ==
  \A s \in op[r].photos : Upload(s) \in Ahead(r) \/ <<r, s>> \in disk

\* A url of the uploads directory names the file of its own slot, uploaded by a request
\* that has come to its end.
NamesOK(names) ==
  \A s \in Slots : names[s] \in Files =>
    names[s][2] = s /\ s \in SlotsOf(kind) /\ state[names[s][1]] = "done"

\* One request creates the row, while the others have not found it.
CreatorOK(r) ==
  op[r].does = "create" =>
    /\ \A q \in Requests : op[q].does = "create" => q = r
    /\ state[r] = "running" =>
         /\ ~exists
         /\ \A q \in Running \ {r} : <<"find", "row">> \in Ahead(q)

\* What was found has been created.
Founded ==
  "create" \in Asks(kind) /\ (exists \/ \E r \in Running : <<"find", "row">> \notin Ahead(r)) =>
    \E r \in Requests : op[r].does = "create"

Row          == IF exists THEN url ELSE Nothing
FilesOf(row) == {row[s] : s \in Slots} \cap Files
Uploaded(r)  == {<<r, s>> : s \in {t \in op[r].photos : Upload(t) \notin Ahead(r)}}
Names(r)     == FilesOf(IF ToRead(r) THEN Row ELSE op[r].read)

\* While requests come one after another and nothing fails, the directory is the row's,
\* but for what the one request has removed and uploaded.
CalmOK ==
  calm =>
    /\ \A r, q \in Running : r = q
    /\ \A r \in Running :
         /\ op[r].links = {}
         /\ ~ToRead(r) /\ Final(r) \in Ahead(r) => op[r].read = Row
         /\ kind # "documento" =>
              /\ op[r].removed =
                   {op[r].read[s] : s \in {t \in ToUnlink(r) : Unlink(t) \notin Ahead(r)}}
                   \cap Files
              /\ disk = (Names(r) \ op[r].removed) \cup Uploaded(r)
    /\ Running = {} /\ kind # "documento" => disk = Named

Inductive ==
  /\ TypeOK
  /\ NamesOK(url)
  /\ \A r \in Requests :
       /\ NamesOK(op[r].read) /\ CreatorOK(r)
       /\ state[r] = "new" =>
            op[r].does = "none" /\ op[r].read = Nothing /\ op[r].removed = {}
  /\ \A r \in Running : TodoOK(r) /\ OpOK(r) /\ UploadedIsThere(r)
  /\ kind = "perfil" => exists
  /\ Founded
  /\ CalmOK
  /\ MissingHasCulprit
=============================================================================
