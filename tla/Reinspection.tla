----------------------------- MODULE Reinspection -----------------------------
(***************************************************************************)
(* The reinspection workflow of ReinspectionService, for one vehicle.      *)
(*                                                                         *)
(* A reinspection is a row with a status; its photos are rows with a       *)
(* status, an image on disk and what Hinova answered about them.  The app  *)
(* creates a reinspection, adds photos and resends the rejected ones; the  *)
(* admin panel approves or rejects photos and closes the reinspection.     *)
(*                                                                         *)
(* Every request runs in a slot of the Node process.  A handler is cut     *)
(* into one action per database statement, transaction or external call    *)
(* whose position between other requests matters: what it has read so far  *)
(* is kept in req[s], and other slots run between two of its actions.      *)
(* Reads of rows that never change (the vehicle, a photo's owner) are      *)
(* folded into the next statement, and mails and template lookups, which   *)
(* change no state of the workflow, are left out.                          *)
(***************************************************************************)
EXTENDS Integers, Sequences

CONSTANTS
  Slots,             \* concurrent requests in flight
  Serves,            \* which handlers each slot may run: who is calling
  Names,             \* values of nomeArquivo
  MaxReinspections,  \* bound: reinspections ever created for the vehicle
  MaxPhotos,         \* bound: photo rows ever created
  MaxImages,         \* bound: files ever written
  MaxBatch,          \* bound: photos in one POST /:id/photos
  MaxFailures        \* bound: awaits that reject and abort their request

AppHandlers   == {"create", "addPhotos", "updateStatus", "resendPhoto"}
PanelHandlers == {"finalize", "approve", "reprovePhoto", "approvePhoto"}
Handlers      == AppHandlers \cup PanelHandlers

ASSUME ReinspectionAssumption ==
  /\ Serves \in [Slots -> SUBSET Handlers]
  /\ MaxReinspections \in Nat
  /\ MaxPhotos \in Nat
  /\ MaxImages \in Nat
  /\ MaxBatch \in Nat
  /\ MaxFailures \in Nat

ReinspectionIds == 1..MaxReinspections
PhotoIds        == 1..MaxPhotos
Images          == 1..MaxImages
Batches         == UNION {[1..k -> Names] : k \in 1..MaxBatch}

ReinspectionStatus ==
  {"PENDENTE", "EM_ANALISE", "FINALIZADA", "APROVADA", "REPROVADA"}
PhotoStatus == {"PENDENTE", "APROVADA", "REPROVADA"}

NoRow == [row |-> "none"]

\* hinova is hinovaSituacao; sentToHinova is (hinova = "Inserido").
Photo == [reinspection : ReinspectionIds, name : Names, status : PhotoStatus,
          hinova : {"null", "Inserido", "Recusado"}, image : Images]

Phases == {"idle", "addUpload", "addInsert", "statusWrite", "approveCheck",
           "approveWrite", "hinovaRead", "hinovaPost", "hinovaMark",
           "boleto", "resendUpload", "resendWrite", "resendMail",
           "approvePhotoWrite"}

VARIABLES
  status,       \* Reinspection.status per id, "absent" before the insert
  photo,        \* the ReinspectionPhoto table
  nextPhoto,    \* autoincrement of that table
  uploads,      \* files written so far: the files on disk are 1..uploads
  accepted,     \* <<photo, image>> pairs Hinova inserted
  boletoCalls,  \* reinspections tryCreateReinspectionBoleto was called for
  failures,     \* aborted awaits so far
  req           \* the request in each slot

vars == <<status, photo, nextPhoto, uploads, accepted, boletoCalls,
          failures, req>>

\* A request at the given await, with what its handler has read so far.
At(phase, target, batch, verdict) ==
  [phase |-> phase, target |-> target, batch |-> batch, verdict |-> verdict,
   image |-> 0, payload |-> {}, answers |-> {}]

Idle == At("idle", 0, << >>, "none")

Init ==
  /\ status = [r \in ReinspectionIds |-> "absent"]
  /\ photo = [p \in PhotoIds |-> NoRow]
  /\ nextPhoto = 1
  /\ uploads = 0
  /\ accepted = {}
  /\ boletoCalls = {}
  /\ failures = 0
  /\ req = [s \in Slots |-> Idle]

-----------------------------------------------------------------------------
(* Reads *)

PhotoRows    == {p \in PhotoIds : photo[p] # NoRow}
PhotosOf(r)  == {p \in PhotoRows : photo[p].reinspection = r}
Rejected(r)  == {p \in PhotosOf(r) : photo[p].status = "REPROVADA"}
Created      == {r \in ReinspectionIds : status[r] # "absent"}

\* findFirst({where: {userVehicleId}, orderBy: {createdAt: 'desc'}})
IsLatest(r) == r \in Created /\ \A q \in Created : q <= r

Receives(s, h) == req[s].phase = "idle" /\ h \in Serves[s]

\* The next await of the handler in slot s starts with these local values.
Await(s, r) == req' = [req EXCEPT ![s] = r]
Done(s)     == Await(s, Idle)

\* The step reads rows, or waits: it moves its own request only.
ReadOnly == UNCHANGED <<status, photo, nextPhoto, uploads, accepted,
                        boletoCalls, failures>>

-----------------------------------------------------------------------------
(* POST /reinspection *)

Create(s) ==
  /\ Receives(s, "create")
  /\ \E r \in ReinspectionIds :
       /\ r \notin Created
       /\ \A q \in ReinspectionIds : q < r => q \in Created
       /\ status' = [status EXCEPT ![r] = "PENDENTE"]
  /\ UNCHANGED <<photo, nextPhoto, uploads, accepted, boletoCalls,
                 failures, req>>

-----------------------------------------------------------------------------
(* POST /reinspection/:id/photos: check, upload every file, createMany.    *)

AddPhotosCheck(s, r, batch) ==
  /\ Receives(s, "addPhotos")
  /\ r \in Created
  /\ status[r] = "PENDENTE"
  /\ Await(s, At("addUpload", r, batch, "none"))
  /\ ReadOnly

\* Promise.all over the batch: each file gets a name of its own.
AddPhotosUpload(s) ==
  LET k == Len(req[s].batch) IN
  /\ req[s].phase = "addUpload"
  /\ uploads + k <= MaxImages
  /\ uploads' = uploads + k
  /\ Await(s, [req[s] EXCEPT !.phase = "addInsert", !.image = uploads + 1])
  /\ UNCHANGED <<status, photo, nextPhoto, accepted, boletoCalls,
                 failures>>

NewPhotoRow(s, i, img) ==
  [reinspection |-> req[s].target, name |-> req[s].batch[i],
   status |-> "PENDENTE", hinova |-> "null", image |-> img]

NewPhoto(s, i) == NewPhotoRow(s, i, req[s].image + i - 1)

AddPhotosInsert(s) ==
  LET k == Len(req[s].batch) IN
  /\ req[s].phase = "addInsert"
  /\ nextPhoto + k <= MaxPhotos + 1
  /\ photo' = [p \in PhotoIds |-> IF p \in nextPhoto..(nextPhoto + k - 1)
                                  THEN NewPhoto(s, p - nextPhoto + 1)
                                  ELSE photo[p]]
  /\ nextPhoto' = nextPhoto + k
  /\ Done(s)
  /\ UNCHANGED <<status, uploads, accepted, boletoCalls, failures>>

-----------------------------------------------------------------------------
(* PATCH /reinspection/status and /finalizar: both read the latest         *)
(* reinspection, then write a fixed status to it.                          *)

StatusRead(s, handler, value) ==
  /\ Receives(s, handler)
  /\ \E r \in Created :
       /\ IsLatest(r)
       /\ Await(s, At("statusWrite", r, << >>, value))
  /\ ReadOnly

UpdateStatusRead(s) == StatusRead(s, "updateStatus", "EM_ANALISE")
FinalizeRead(s)     == StatusRead(s, "finalize", "FINALIZADA")

StatusWrite(s) ==
  /\ req[s].phase = "statusWrite"
  /\ status' = [status EXCEPT ![req[s].target] = req[s].verdict]
  /\ Done(s)
  /\ UNCHANGED <<photo, nextPhoto, uploads, accepted, boletoCalls,
                 failures>>

-----------------------------------------------------------------------------
(* PATCH /reinspection/aprovar: latest reinspection, then a look for a     *)
(* rejected photo, then the update; then Hinova and the boleto.            *)

ApproveRead(s) ==
  /\ Receives(s, "approve")
  /\ \E r \in Created :
       /\ IsLatest(r)
       /\ Await(s, At("approveCheck", r, << >>, "none"))
  /\ ReadOnly

\* Mutant: rejected photos do not stop the approval.
ApproveUnchecked(s) ==
  /\ req[s].phase = "approveCheck"
  /\ Await(s, [req[s] EXCEPT !.phase = "approveWrite"])
  /\ ReadOnly

ApproveCheck(s) ==
  /\ req[s].phase = "approveCheck"
  /\ IF Rejected(req[s].target) # {}
     THEN Done(s)
     ELSE Await(s, [req[s] EXCEPT !.phase = "approveWrite"])
  /\ ReadOnly

ApproveWrite(s) ==
  /\ req[s].phase = "approveWrite"
  /\ status' = [status EXCEPT ![req[s].target] = "APROVADA"]
  /\ Await(s, [req[s] EXCEPT !.phase = "hinovaRead"])
  /\ UNCHANGED <<photo, nextPhoto, uploads, accepted, boletoCalls,
                 failures>>

-----------------------------------------------------------------------------
(* sendReinspectionToHinova: photos and files are read, posted in one      *)
(* call, and the answer is written back photo by photo.                    *)

HinovaRead(s) ==
  /\ req[s].phase = "hinovaRead"
  /\ Await(s, [req[s] EXCEPT
       !.phase = "hinovaPost",
       !.payload = {<<p, photo[p].image>> : p \in PhotosOf(req[s].target)}])
  /\ ReadOnly

\* Hinova inserts some photos of the payload and answers for some of them.
\* validateStatus accepts every status, so only a lost call throws.
HinovaPost(s) ==
  /\ req[s].phase = "hinovaPost"
  /\ \E inserted \in SUBSET req[s].payload, answered \in SUBSET req[s].payload :
       /\ accepted' = accepted \cup inserted
       /\ Await(s, [req[s] EXCEPT
            !.phase = "hinovaMark",
            !.answers = {<<e[1], IF e \in inserted THEN "Inserido"
                                 ELSE "Recusado">> : e \in answered}])
  /\ UNCHANGED <<status, photo, nextPhoto, uploads, boletoCalls, failures>>

\* Mutant: the answers are not matched by name.
LastOfPayload(s, p, q) ==
  LET sent == {e[1] : e \in req[s].payload}
  IN q \in sent /\ \A o \in sent : o <= q

\* photosByNomeArquivo: of the photos sent under one name, the last one.
LastOfName(s, p, q) ==
  LET sameName == {e[1] : e \in {f \in req[s].payload :
                                  photo[f[1]].name = photo[p].name}}
  IN q \in sameName /\ \A o \in sameName : o <= q

HinovaMark(s) ==
  /\ req[s].phase = "hinovaMark"
  /\ \E a \in req[s].answers, q \in PhotoIds :
       /\ LastOfName(s, a[1], q)
       /\ photo' = [photo EXCEPT ![q] = [@ EXCEPT !.hinova = a[2]]]
       /\ Await(s, [req[s] EXCEPT !.answers = @ \ {a}])
  /\ UNCHANGED <<status, nextPhoto, uploads, accepted, boletoCalls,
                 failures>>

HinovaEnd(s) ==
  /\ req[s].phase = "hinovaMark"
  /\ req[s].answers = {}
  /\ Await(s, [req[s] EXCEPT !.phase = "boleto"])
  /\ ReadOnly

\* Any error inside sendReinspectionToHinova is caught and approval goes on;
\* a POST whose answer is lost may still have been processed.
HinovaError(s) ==
  /\ req[s].phase \in {"hinovaRead", "hinovaPost", "hinovaMark"}
  /\ failures < MaxFailures
  /\ failures' = failures + 1
  /\ \/ UNCHANGED accepted
     \/ /\ req[s].phase = "hinovaPost"
        /\ \E inserted \in SUBSET req[s].payload :
             accepted' = accepted \cup inserted
  /\ Await(s, [req[s] EXCEPT !.phase = "boleto"])
  /\ UNCHANGED <<status, photo, nextPhoto, uploads, boletoCalls>>

\* The approval ends by calling tryCreateReinspectionBoleto, whose steps are
\* those of module BoletoReativacao.
ApproveBoleto(s) ==
  /\ req[s].phase = "boleto"
  /\ boletoCalls' = boletoCalls \cup {req[s].target}
  /\ Done(s)
  /\ UNCHANGED <<status, photo, nextPhoto, uploads, accepted,
                 failures>>

-----------------------------------------------------------------------------
(* PATCH /reinspection/photos/:photoId/resend: check, upload, one          *)
(* transaction over photo and reinspection, mail.                          *)

ResendRead(s, p) ==
  /\ Receives(s, "resendPhoto")
  /\ p \in PhotoRows
  /\ photo[p].status = "REPROVADA"
  /\ Await(s, At("resendUpload", p, << >>, "none"))
  /\ ReadOnly

ResendUpload(s) ==
  /\ req[s].phase = "resendUpload"
  /\ uploads < MaxImages
  /\ uploads' = uploads + 1
  /\ Await(s, [req[s] EXCEPT !.phase = "resendWrite", !.image = uploads + 1])
  /\ UNCHANGED <<status, photo, nextPhoto, accepted, boletoCalls,
                 failures>>

\* Mutant: what Hinova said of the replaced image is kept.
ResentKeepsSituacao(s) ==
  [photo[req[s].target] EXCEPT !.image = req[s].image, !.status = "PENDENTE"]

ResentPhoto(s) ==
  [photo[req[s].target] EXCEPT !.image = req[s].image, !.status = "PENDENTE",
                               !.hinova = "null"]

\* Mutant: the reinspection is not taken back to EM_ANALISE.
ResendPhotoOnly(s) ==
  /\ req[s].phase = "resendWrite"
  /\ photo' = [photo EXCEPT ![req[s].target] = ResentPhoto(s)]
  /\ Await(s, [req[s] EXCEPT !.phase = "resendMail"])
  /\ UNCHANGED <<status, nextPhoto, uploads, accepted, boletoCalls,
                 failures>>

ResendWrite(s) ==
  LET p == req[s].target IN
  /\ req[s].phase = "resendWrite"
  /\ photo' = [photo EXCEPT ![p] = ResentPhoto(s)]
  /\ status' = [status EXCEPT ![photo[p].reinspection] = "EM_ANALISE"]
  /\ Await(s, [req[s] EXCEPT !.phase = "resendMail"])
  /\ UNCHANGED <<nextPhoto, uploads, accepted, boletoCalls, failures>>

ResendMail(s) ==
  /\ req[s].phase = "resendMail"
  /\ Done(s)
  /\ ReadOnly

-----------------------------------------------------------------------------
(* PATCH /reinspection/photos/:photoId/reprove: one transaction.           *)

ReprovePhoto(s, p) ==
  /\ Receives(s, "reprovePhoto")
  /\ p \in PhotoRows
  /\ photo' = [photo EXCEPT ![p] = [@ EXCEPT !.status = "REPROVADA"]]
  /\ status' = [status EXCEPT ![photo[p].reinspection] = "REPROVADA"]
  /\ UNCHANGED <<nextPhoto, uploads, accepted, boletoCalls, failures,
                 req>>

(* PATCH /reinspection/photos/:photoId/approve: a transaction that         *)
(* approves the photo and looks for another rejected one, then a separate  *)
(* update of the reinspection.                                             *)

ApprovePhoto(s, p) ==
  /\ Receives(s, "approvePhoto")
  /\ p \in PhotoRows
  /\ photo' = [photo EXCEPT ![p] = [@ EXCEPT !.status = "APROVADA"]]
  /\ Await(s, At("approvePhotoWrite", photo[p].reinspection, << >>,
                 IF Rejected(photo[p].reinspection) \ {p} # {}
                 THEN "REPROVADA" ELSE "EM_ANALISE"))
  /\ UNCHANGED <<status, nextPhoto, uploads, accepted, boletoCalls,
                 failures>>

ApprovePhotoWrite(s) ==
  /\ req[s].phase = "approvePhotoWrite"
  /\ status' = [status EXCEPT ![req[s].target] = req[s].verdict]
  /\ Done(s)
  /\ UNCHANGED <<photo, nextPhoto, uploads, accepted, boletoCalls,
                 failures>>

-----------------------------------------------------------------------------
\* The pending await rejects (database, disk) or the process restarts: the
\* request ends where it stands and nothing written so far is undone.
Abort(s) ==
  /\ req[s].phase # "idle"
  /\ failures < MaxFailures
  /\ failures' = failures + 1
  /\ Done(s)
  /\ UNCHANGED <<status, photo, nextPhoto, uploads, accepted,
                 boletoCalls>>

\* Bound: a createMany beyond MaxPhotos rows counts as rejected.
InsertBeyondBound(s) ==
  /\ req[s].phase = "addInsert"
  /\ nextPhoto + Len(req[s].batch) > MaxPhotos + 1
  /\ Done(s)
  /\ ReadOnly

\* Mutant: the failed upload is swallowed and the rows are inserted.
UploadFailureIgnored(s) ==
  /\ req[s].phase \in {"addUpload", "resendUpload"}
  /\ Await(s, [req[s] EXCEPT !.image = uploads + 1,
       !.phase = IF @ = "addUpload" THEN "addInsert" ELSE "resendWrite"])
  /\ ReadOnly

\* An upload fails: the files of the batch written before it stay on disk.
UploadFails(s) ==
  /\ req[s].phase \in {"addUpload", "resendUpload"}
  /\ \E written \in 0..Len(req[s].batch) :
       /\ uploads + written <= MaxImages
       /\ uploads' = uploads + written
  /\ Done(s)
  /\ UNCHANGED <<status, photo, nextPhoto, accepted, boletoCalls,
                 failures>>

Next ==
  \E s \in Slots :
    \/ Create(s)
    \/ \E r \in ReinspectionIds, b \in Batches : AddPhotosCheck(s, r, b)
    \/ AddPhotosUpload(s) \/ AddPhotosInsert(s)
    \/ UpdateStatusRead(s) \/ FinalizeRead(s) \/ StatusWrite(s)
    \/ ApproveRead(s) \/ ApproveCheck(s) \/ ApproveWrite(s)
    \/ HinovaRead(s) \/ HinovaPost(s) \/ HinovaMark(s) \/ HinovaEnd(s)
    \/ HinovaError(s) \/ ApproveBoleto(s)
    \/ \E p \in PhotoIds : ResendRead(s, p)
    \/ ResendUpload(s) \/ ResendWrite(s) \/ ResendMail(s)
    \/ \E p \in PhotoIds : ReprovePhoto(s, p)
    \/ \E p \in PhotoIds : ApprovePhoto(s, p)
    \/ ApprovePhotoWrite(s)
    \/ Abort(s)
    \/ UploadFails(s) \/ InsertBeyondBound(s)

Spec == Init /\ [][Next]_vars

-----------------------------------------------------------------------------
(* Properties *)

Request == [phase : Phases, target : Nat, image : Nat, batch : Seq(Names),
            verdict : ReinspectionStatus \cup {"none"},
            payload : SUBSET (PhotoIds \X Images),
            answers : SUBSET (PhotoIds \X {"Inserido", "Recusado"})]

\* Every variable keeps its type.
TypeOK ==
  /\ status \in [ReinspectionIds -> ReinspectionStatus \cup {"absent"}]
  /\ photo \in [PhotoIds -> Photo \cup {NoRow}]
  /\ nextPhoto \in 1..(MaxPhotos + 1)
  /\ uploads \in 0..MaxImages
  /\ accepted \in SUBSET (PhotoIds \X Images)
  /\ boletoCalls \in SUBSET ReinspectionIds
  /\ failures \in 0..MaxFailures
  /\ req \in [Slots -> Request]

\* No row of ReinspectionPhoto ever names a file that is not on disk, whatever
\* requests overlap or die: readPhotoAsBase64 always finds the image.
ImagesOnDisk == \A p \in PhotoRows : photo[p].image <= uploads

\* 'Não é possível aprovar uma revistoria com foto reprovada': an approved
\* reinspection holds no rejected photo.
ApprovedHasNoRejectedPhoto ==
  \A r \in ReinspectionIds : status[r] = "APROVADA" => Rejected(r) = {}

\* A reinspection stays REPROVADA only while the associado has a rejected
\* photo to resend; otherwise GET /rejected-photos is empty and nothing the
\* app offers moves it on.
RejectedHasPhotoToResend ==
  \A r \in ReinspectionIds :
    status[r] = "REPROVADA" =>
      \/ Rejected(r) # {}
      \/ \E s \in Slots : /\ req[s].phase = "approvePhotoWrite"
                          /\ req[s].target = r

\* Hinova inserted an image under the name of photo p, in its reinspection.
InsertedName(p) ==
  \E e \in accepted : /\ photo[e[1]].name = photo[p].name
                      /\ photo[e[1]].reinspection = photo[p].reinspection

\* sentToHinova is only set on a photo of whose name, in its reinspection,
\* Hinova inserted some image.
SentNameWasInserted ==
  \A p \in PhotoRows : photo[p].hinova = "Inserido" => InsertedName(p)

\* sentToHinova on a photo whose name is unique in its reinspection means
\* that Hinova inserted the very image the row shows.
SentImageWasInserted ==
  \A p \in PhotoRows :
    /\ photo[p].hinova = "Inserido"
    /\ \A q \in PhotosOf(photo[p].reinspection) :
         photo[q].name = photo[p].name => q = p
    => <<p, photo[p].image>> \in accepted

-----------------------------------------------------------------------------
(* The inductive invariant behind them: what the local values of a request *)
(* in flight still guarantee when its next step runs.                      *)

OnReinspection == {"addUpload", "addInsert", "statusWrite", "approveCheck",
                   "approveWrite", "hinovaRead", "hinovaPost", "hinovaMark",
                   "boleto", "approvePhotoWrite"}
OnPhoto == {"resendUpload", "resendWrite", "resendMail"}

LocalOK(r, rows, files) ==
  /\ r.phase \in OnReinspection => r.target \in ReinspectionIds
  /\ r.phase \in OnPhoto => r.target \in rows
  /\ r.phase = "addInsert" =>
       r.image >= 1 /\ r.image + Len(r.batch) - 1 <= files
  /\ r.phase = "resendWrite" => r.image \in 1..files
  /\ r.phase \in {"statusWrite", "approvePhotoWrite"} =>
       r.verdict \in ReinspectionStatus \ {"APROVADA"}
  /\ \A e \in r.payload : e[1] \in rows

RequestOK(s) == LocalOK(req[s], PhotoRows, uploads)

\* An approval past its check still sees no rejected photo, and only a slot
\* that serves "approve" can be there.
ApprovalOK(s) ==
  /\ req[s].phase \in {"approveCheck", "approveWrite"} => "approve" \in Serves[s]
  /\ req[s].phase = "approveWrite" => Rejected(req[s].target) = {}

\* At most one slot approves reinspections or rejects photos.
OneAnalyst ==
  \A s, t \in Slots :
    "approve" \in Serves[s] /\ "reprovePhoto" \in Serves[t] => s = t

Inductive == TypeOK /\ ImagesOnDisk /\ \A s \in Slots : RequestOK(s)

\* Photos are numbered in the order they are inserted.
RowsAreNumbered == \A p \in PhotoRows : p < nextPhoto

\* What a request holds of Hinova is about photos of its own reinspection, and
\* an "Inserido" it still has to write back is one Hinova gave.
AnswersOK(s) ==
  /\ \A e \in req[s].payload : photo[e[1]].reinspection = req[s].target
  /\ req[s].phase = "hinovaMark" => \A a \in req[s].answers :
       /\ \E e \in req[s].payload : e[1] = a[1]
       /\ a[2] = "Inserido" => InsertedName(a[1])

AnswersAreReal ==
  /\ RowsAreNumbered
  /\ \A e \in accepted : e[1] \in PhotoRows
  /\ SentNameWasInserted
  /\ \A s \in Slots : AnswersOK(s)

\* A handler is past its first await only in a slot that serves it.
ServesOK(s) ==
  /\ req[s].phase \in {"approveCheck", "approveWrite", "hinovaRead",
                       "hinovaPost", "hinovaMark"} => "approve" \in Serves[s]
  /\ req[s].phase \in {"resendUpload", "resendWrite"} =>
       "resendPhoto" \in Serves[s]
  /\ req[s].phase = "approvePhotoWrite" => "approvePhoto" \in Serves[s]

\* No photo is resent while another slot approves a reinspection.
NoResendBesideApproval ==
  \A s, t \in Slots :
    "approve" \in Serves[s] /\ "resendPhoto" \in Serves[t] => s = t

\* The images a request sends are the ones the rows still show, and so are
\* the ones the answers it has to write back are about.
PayloadIsFresh(s) ==
  /\ req[s].phase = "hinovaPost" =>
       \A e \in req[s].payload : photo[e[1]].image = e[2]
  /\ req[s].phase = "hinovaMark" =>
       \A a \in req[s].answers :
         a[2] = "Inserido" => <<a[1], photo[a[1]].image>> \in accepted

ImagesAreReal ==
  SentImageWasInserted /\ \A s \in Slots : ServesOK(s) /\ PayloadIsFresh(s)

\* Photos are approved in one slot only, and resent in no other.
OneReviewer ==
  \A s, t \in Slots :
    /\ "approvePhoto" \in Serves[s]
    /\ "approvePhoto" \in Serves[t] \/ "resendPhoto" \in Serves[t]
    => s = t

\* A status about to be written as REPROVADA is still right.
VerdictOK(s) ==
  /\ req[s].phase = "statusWrite" => req[s].verdict # "REPROVADA"
  /\ req[s].phase = "approvePhotoWrite" /\ req[s].verdict = "REPROVADA" =>
       Rejected(req[s].target) # {}

RejectionsAreOpen ==
  RejectedHasPhotoToResend /\ \A s \in Slots : ServesOK(s) /\ VerdictOK(s)
=============================================================================
