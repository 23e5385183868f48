-------------------------- MODULE Reinspection_proofs --------------------------
(***************************************************************************)
(* Proofs about Reinspection, for every set of slots, every assignment of  *)
(* handlers to them and every bound.                                       *)
(***************************************************************************)
EXTENDS Reinspection, TLAPS

\* A batch is a sequence of names.
LEMMA BatchIsSeq == \A b \in Batches : b \in Seq(Names) /\ DOMAIN b = 1..Len(b)
<1> SUFFICES ASSUME NEW b \in Batches
             PROVE  b \in Seq(Names) /\ DOMAIN b = 1..Len(b)
  OBVIOUS
<1>1. PICK k \in 1..MaxBatch : b \in [1..k -> Names]
  BY DEF Batches
<1>2. k \in Nat
  BY <1>1, ReinspectionAssumption
<1> QED
  BY <1>1, <1>2

\* The value of an empty slot is a request with nothing to guarantee.
LEMMA IdleOK ==
  Idle \in Request /\ \A rows, files : LocalOK(Idle, rows, files)
BY DEF Idle, At, Request, Phases, LocalOK, OnReinspection, OnPhoto

\* The guarantees of a request survive new photo rows and new files.
LEMMA LocalOKMonotone ==
  ASSUME NEW r \in Request, NEW rows, NEW more,
         NEW files \in Nat, NEW filesMore \in Nat,
         LocalOK(r, rows, files), rows \subseteq more, files <= filesMore
  PROVE  LocalOK(r, more, filesMore)
BY DEF LocalOK, Request

\* What is left to show of a step that moves slot s to r: the new request is
\* well typed and sound, and the step removes neither rows nor files.
LEMMA AwaitOK ==
  ASSUME NEW s \in Slots, NEW r \in Request,
         req \in [Slots -> Request], \A t \in Slots : RequestOK(t),
         uploads \in Nat, uploads' \in Nat,
         Await(s, r), LocalOK(r, PhotoRows', uploads'),
         PhotoRows \subseteq PhotoRows', uploads <= uploads'
  PROVE  req' \in [Slots -> Request] /\ \A t \in Slots : RequestOK(t)'
<1>1. req' \in [Slots -> Request]
  BY DEF Await
<1>2. ASSUME NEW t \in Slots PROVE RequestOK(t)'
  <2>1. CASE t = s
    BY <2>1 DEF Await, RequestOK
  <2>2. CASE t # s
    <3>1. req'[t] = req[t] /\ req[t] \in Request
      BY <2>2 DEF Await
    <3>2. LocalOK(req[t], PhotoRows, uploads)
      BY DEF RequestOK
    <3> QED
      BY <3>1, <3>2, LocalOKMonotone DEF RequestOK
  <2> QED
    BY <2>1, <2>2
<1> QED
  BY <1>1, <1>2

\* A step that only moves a request.
LEMMA ReadOnlyOK ==
  ASSUME Inductive, NEW s \in Slots, NEW r \in Request, Await(s, r), ReadOnly,
         LocalOK(r, PhotoRows, uploads)
  PROVE  Inductive'
<1>1. PhotoRows' = PhotoRows /\ uploads' = uploads /\ uploads \in Nat
  BY DEF PhotoRows, ReadOnly, Inductive, TypeOK
<1>2. req' \in [Slots -> Request] /\ \A t \in Slots : RequestOK(t)'
  BY <1>1, AwaitOK DEF Inductive, TypeOK
<1>3. TypeOK' /\ ImagesOnDisk'
  BY <1>1, <1>2 DEF Inductive, TypeOK, ImagesOnDisk, ReadOnly
<1> QED
  BY <1>2, <1>3 DEF Inductive

-----------------------------------------------------------------------------
\* The initial state satisfies the inductive invariant.
LEMMA InitInductive == Init => Inductive
<1> SUFFICES ASSUME Init PROVE Inductive
  OBVIOUS
<1>1. TypeOK
  BY IdleOK, ReinspectionAssumption
  DEF Init, TypeOK, ReinspectionIds, PhotoIds, Images
<1>2. ImagesOnDisk
  BY DEF Init, ImagesOnDisk, PhotoRows
<1>3. \A s \in Slots : RequestOK(s)
  BY IdleOK DEF Init, RequestOK
<1> QED
  BY <1>1, <1>2, <1>3 DEF Inductive

\* The steps that read, wait or end a request preserve it.
LEMMA RequestStepInductive ==
  ASSUME Inductive, NEW s \in Slots,
         \/ \E r \in ReinspectionIds, b \in Batches : AddPhotosCheck(s, r, b)
         \/ UpdateStatusRead(s) \/ FinalizeRead(s) \/ ApproveRead(s)
         \/ ApproveCheck(s) \/ HinovaRead(s) \/ HinovaEnd(s)
         \/ \E p \in PhotoIds : ResendRead(s, p)
         \/ ResendMail(s) \/ InsertBeyondBound(s)
  PROVE  Inductive'
<1>0. req[s] \in Request /\ LocalOK(req[s], PhotoRows, uploads)
  BY DEF Inductive, TypeOK, RequestOK
<1> USE DEF Phases, OnReinspection, OnPhoto
<1>1. ASSUME NEW r \in ReinspectionIds, NEW b \in Batches,
             AddPhotosCheck(s, r, b)
      PROVE  Inductive'
  <2> DEFINE q == At("addUpload", r, b, "none")
  <2>1. q \in Request /\ LocalOK(q, PhotoRows, uploads)
    BY BatchIsSeq DEF At, Request, LocalOK, ReinspectionIds
  <2>2. Await(s, q) /\ ReadOnly
    BY <1>1 DEF AddPhotosCheck
  <2> HIDE DEF q
  <2> QED
    BY <2>1, <2>2, ReadOnlyOK
<1>2. ASSUME NEW h, NEW v \in ReinspectionStatus \ {"APROVADA"},
             StatusRead(s, h, v)
      PROVE  Inductive'
  <2>1. PICK r \in ReinspectionIds : Await(s, At("statusWrite", r, << >>, v))
    BY <1>2 DEF StatusRead, Created
  <2> DEFINE q == At("statusWrite", r, << >>, v)
  <2>2. q \in Request /\ LocalOK(q, PhotoRows, uploads)
    BY DEF At, Request, LocalOK, ReinspectionIds
  <2>3. Await(s, q) /\ ReadOnly
    BY <1>2, <2>1 DEF StatusRead
  <2> HIDE DEF q
  <2> QED
    BY <2>2, <2>3, ReadOnlyOK
<1>3. ASSUME ApproveRead(s) PROVE Inductive'
  <2>1. PICK r \in ReinspectionIds :
          Await(s, At("approveCheck", r, << >>, "none"))
    BY <1>3 DEF ApproveRead, Created
  <2> DEFINE q == At("approveCheck", r, << >>, "none")
  <2>2. q \in Request /\ LocalOK(q, PhotoRows, uploads)
    BY DEF At, Request, LocalOK, ReinspectionIds
  <2>3. Await(s, q) /\ ReadOnly
    BY <1>3, <2>1 DEF ApproveRead
  <2> HIDE DEF q
  <2> QED
    BY <2>2, <2>3, ReadOnlyOK
<1>4. ASSUME ApproveCheck(s) PROVE Inductive'
  <2>1. PICK q : q = [req[s] EXCEPT !.phase = "approveWrite"]
    OBVIOUS
  <2>2. /\ q \in Request /\ q.phase = "approveWrite"
        /\ q.target = req[s].target /\ q.payload = req[s].payload
    BY <1>0, <2>1 DEF Request
  <2>3. LocalOK(q, PhotoRows, uploads)
    BY <1>0, <1>4, <2>2 DEF ApproveCheck, LocalOK
  <2>4. (Await(s, q) \/ Await(s, Idle)) /\ ReadOnly
    BY <1>4, <2>1 DEF ApproveCheck, Done
  <2> QED
    BY <2>2, <2>3, <2>4, IdleOK, ReadOnlyOK
<1>5. ASSUME HinovaRead(s) PROVE Inductive'
  <2> DEFINE sent == {<<p, photo[p].image>> : p \in PhotosOf(req[s].target)}
  <2>1. \A p \in PhotosOf(req[s].target) :
          p \in PhotoRows /\ p \in PhotoIds /\ photo[p].image \in Images
    BY DEF PhotosOf, PhotoRows, Inductive, TypeOK, Photo
  <2>2. sent \in SUBSET (PhotoIds \X Images) /\ \A e \in sent : e[1] \in PhotoRows
    BY <2>1
  <2> HIDE DEF sent
  <2>3. PICK q : q = [req[s] EXCEPT !.phase = "hinovaPost", !.payload = sent]
    OBVIOUS
  <2>4. /\ q \in Request /\ q.phase = "hinovaPost"
        /\ q.target = req[s].target /\ q.payload = sent
    BY <1>0, <2>2, <2>3 DEF Request
  <2>5. LocalOK(q, PhotoRows, uploads)
    BY <1>0, <1>5, <2>2, <2>4 DEF HinovaRead, LocalOK
  <2>6. Await(s, q) /\ ReadOnly
    BY <1>5, <2>3 DEF HinovaRead, sent
  <2> QED
    BY <2>4, <2>5, <2>6, ReadOnlyOK
<1>6. ASSUME HinovaEnd(s) PROVE Inductive'
  <2>1. PICK q : q = [req[s] EXCEPT !.phase = "boleto"]
    OBVIOUS
  <2>2. /\ q \in Request /\ q.phase = "boleto"
        /\ q.target = req[s].target /\ q.payload = req[s].payload
    BY <1>0, <2>1 DEF Request
  <2>3. LocalOK(q, PhotoRows, uploads)
    BY <1>0, <1>6, <2>2 DEF HinovaEnd, LocalOK
  <2>4. Await(s, q) /\ ReadOnly
    BY <1>6, <2>1 DEF HinovaEnd
  <2> QED
    BY <2>2, <2>3, <2>4, ReadOnlyOK
<1>7. ASSUME NEW p \in PhotoIds, ResendRead(s, p) PROVE Inductive'
  <2> DEFINE q == At("resendUpload", p, << >>, "none")
  <2>1. q \in Request /\ LocalOK(q, PhotoRows, uploads)
    BY <1>7 DEF ResendRead, At, Request, LocalOK, PhotoIds
  <2>2. Await(s, q) /\ ReadOnly
    BY <1>7 DEF ResendRead
  <2> HIDE DEF q
  <2> QED
    BY <2>1, <2>2, ReadOnlyOK
<1>8. ASSUME ResendMail(s) \/ InsertBeyondBound(s) PROVE Inductive'
  BY <1>8, IdleOK, ReadOnlyOK DEF ResendMail, InsertBeyondBound, Done
<1>9. {"EM_ANALISE", "FINALIZADA"} \subseteq ReinspectionStatus \ {"APROVADA"}
  BY DEF ReinspectionStatus
<1> QED
  BY <1>1, <1>2, <1>3, <1>4, <1>5, <1>6, <1>7, <1>8, <1>9
  DEF UpdateStatusRead, FinalizeRead

\* TypeOK and ImagesOnDisk, leaving the requests aside.
RowsOK ==
  /\ status \in [ReinspectionIds -> ReinspectionStatus \cup {"absent"}]
  /\ photo \in [PhotoIds -> Photo \cup {NoRow}]
  /\ nextPhoto \in 1..(MaxPhotos + 1)
  /\ uploads \in 0..MaxImages
  /\ accepted \in SUBSET (PhotoIds \X Images)
  /\ boletoCalls \in SUBSET ReinspectionIds
  /\ failures \in 0..MaxFailures
  /\ ImagesOnDisk

LEMMA InductiveParts ==
  Inductive <=> /\ RowsOK /\ req \in [Slots -> Request]
                /\ \A s \in Slots : RequestOK(s)
BY DEF Inductive, TypeOK, RowsOK

\* A step that writes rows or files and moves slot s to r.
LEMMA WriteOK ==
  ASSUME Inductive, NEW s \in Slots, NEW r \in Request, Await(s, r),
         RowsOK', PhotoRows \subseteq PhotoRows', uploads <= uploads',
         LocalOK(r, PhotoRows', uploads')
  PROVE  Inductive'
<1>1. uploads \in Nat /\ uploads' \in Nat
  BY ReinspectionAssumption, InductiveParts DEF RowsOK
<1>2. req' \in [Slots -> Request] /\ \A t \in Slots : RequestOK(t)'
  BY <1>1, InductiveParts, AwaitOK
<1> QED
  BY <1>2 DEF Inductive, TypeOK, RowsOK

\* The steps that write the status of a reinspection, call Hinova or abort.
LEMMA StatusStepInductive ==
  ASSUME Inductive, NEW s \in Slots,
         \/ StatusWrite(s) \/ ApproveWrite(s) \/ HinovaPost(s)
         \/ HinovaError(s) \/ ApproveBoleto(s) \/ ApprovePhotoWrite(s)
         \/ Abort(s)
  PROVE  Inductive'
<1>0. /\ req[s] \in Request /\ LocalOK(req[s], PhotoRows, uploads)
      /\ RowsOK /\ uploads \in Nat
  BY ReinspectionAssumption DEF Inductive, TypeOK, RequestOK, RowsOK
<1> USE DEF Phases, OnReinspection, OnPhoto
<1>1. ASSUME UNCHANGED <<photo, uploads>>
      PROVE  /\ PhotoRows' = PhotoRows /\ uploads' = uploads
             /\ ImagesOnDisk' = ImagesOnDisk
  BY <1>1 DEF PhotoRows, ImagesOnDisk
<1>2. ASSUME StatusWrite(s) \/ ApprovePhotoWrite(s) PROVE Inductive'
  <2>1. req[s].target \in ReinspectionIds /\ req[s].verdict \in ReinspectionStatus
    BY <1>0, <1>2 DEF StatusWrite, ApprovePhotoWrite, LocalOK
  <2>2. RowsOK' /\ PhotoRows' = PhotoRows /\ uploads' = uploads
    BY <1>0, <1>1, <1>2, <2>1 DEF StatusWrite, ApprovePhotoWrite, RowsOK
  <2>3. Await(s, Idle)
    BY <1>2 DEF StatusWrite, ApprovePhotoWrite, Done
  <2> QED
    BY <1>0, <2>2, <2>3, IdleOK, WriteOK
<1>3. ASSUME ApproveWrite(s) PROVE Inductive'
  <2>1. PICK q : q = [req[s] EXCEPT !.phase = "hinovaRead"]
    OBVIOUS
  <2>2. /\ q \in Request /\ q.phase = "hinovaRead"
        /\ q.target = req[s].target /\ q.payload = req[s].payload
    BY <1>0, <2>1 DEF Request
  <2>3. LocalOK(q, PhotoRows, uploads)
    BY <1>0, <1>3, <2>2 DEF ApproveWrite, LocalOK
  <2>4. RowsOK' /\ PhotoRows' = PhotoRows /\ uploads' = uploads
    BY <1>0, <1>1, <1>3 DEF ApproveWrite, RowsOK, ReinspectionStatus
  <2>5. Await(s, q)
    BY <1>3, <2>1 DEF ApproveWrite
  <2> QED
    BY <1>0, <2>2, <2>3, <2>4, <2>5, WriteOK
<1>4. ASSUME HinovaPost(s) PROVE Inductive'
  <2>1. PICK inserted \in SUBSET req[s].payload,
             answered \in SUBSET req[s].payload :
          /\ accepted' = accepted \cup inserted
          /\ Await(s, [req[s] EXCEPT
               !.phase = "hinovaMark",
               !.answers = {<<e[1], IF e \in inserted THEN "Inserido"
                                    ELSE "Recusado">> : e \in answered}])
    BY <1>4 DEF HinovaPost
  <2> DEFINE said == {<<e[1], IF e \in inserted THEN "Inserido"
                              ELSE "Recusado">> : e \in answered}
  <2>2. req[s].payload \in SUBSET (PhotoIds \X Images)
    BY <1>0 DEF Request
  <2>3. said \in SUBSET (PhotoIds \X {"Inserido", "Recusado"})
    BY <2>2
  <2> HIDE DEF said
  <2>4. PICK q : q = [req[s] EXCEPT !.phase = "hinovaMark", !.answers = said]
    OBVIOUS
  <2>5. /\ q \in Request /\ q.phase = "hinovaMark"
        /\ q.target = req[s].target /\ q.payload = req[s].payload
    BY <1>0, <2>3, <2>4 DEF Request
  <2>6. LocalOK(q, PhotoRows, uploads)
    BY <1>0, <1>4, <2>5 DEF HinovaPost, LocalOK
  <2>7. RowsOK' /\ PhotoRows' = PhotoRows /\ uploads' = uploads
    BY <1>0, <1>1, <1>4, <2>1, <2>2 DEF HinovaPost, RowsOK
  <2>8. Await(s, q)
    BY <2>1, <2>4 DEF said
  <2> QED
    BY <1>0, <2>5, <2>6, <2>7, <2>8, WriteOK
<1>5. ASSUME HinovaError(s) PROVE Inductive'
  <2>1. PICK q : q = [req[s] EXCEPT !.phase = "boleto"]
    OBVIOUS
  <2>2. /\ q \in Request /\ q.phase = "boleto"
        /\ q.target = req[s].target /\ q.payload = req[s].payload
    BY <1>0, <2>1 DEF Request
  <2>3. LocalOK(q, PhotoRows, uploads)
    BY <1>0, <1>5, <2>2 DEF HinovaError, LocalOK
  <2>4. req[s].payload \in SUBSET (PhotoIds \X Images)
    BY <1>0 DEF Request
  <2>5. failures' \in 0..MaxFailures
    BY <1>0, <1>5, ReinspectionAssumption DEF HinovaError, RowsOK
  <2>6. accepted' \in SUBSET (PhotoIds \X Images)
    BY <1>0, <1>5, <2>4 DEF HinovaError, RowsOK
  <2>7. RowsOK' /\ PhotoRows' = PhotoRows /\ uploads' = uploads
    BY <1>0, <1>1, <1>5, <2>5, <2>6 DEF HinovaError, RowsOK
  <2>8. Await(s, q)
    BY <1>5, <2>1 DEF HinovaError
  <2> QED
    BY <1>0, <2>2, <2>3, <2>7, <2>8, WriteOK
<1>6. ASSUME ApproveBoleto(s) PROVE Inductive'
  <2>1. req[s].target \in ReinspectionIds
    BY <1>0, <1>6 DEF ApproveBoleto, LocalOK
  <2>2. RowsOK' /\ PhotoRows' = PhotoRows /\ uploads' = uploads /\ Await(s, Idle)
    BY <1>0, <1>1, <1>6, <2>1 DEF ApproveBoleto, RowsOK, Done
  <2> QED
    BY <1>0, <2>2, IdleOK, WriteOK
<1>7. ASSUME Abort(s) PROVE Inductive'
  <2>1. failures' \in 0..MaxFailures
    BY <1>0, <1>7, ReinspectionAssumption DEF Abort, RowsOK
  <2>2. RowsOK' /\ PhotoRows' = PhotoRows /\ uploads' = uploads /\ Await(s, Idle)
    BY <1>0, <1>1, <1>7, <2>1 DEF Abort, RowsOK, Done
  <2> QED
    BY <1>0, <2>2, IdleOK, WriteOK
<1> QED
  BY <1>2, <1>3, <1>4, <1>5, <1>6, <1>7

\* The steps that write files.
LEMMA UploadStepInductive ==
  ASSUME Inductive, NEW s \in Slots,
         AddPhotosUpload(s) \/ ResendUpload(s) \/ UploadFails(s)
  PROVE  Inductive'
<1>0. /\ req[s] \in Request /\ LocalOK(req[s], PhotoRows, uploads)
      /\ RowsOK /\ uploads \in Nat
  BY ReinspectionAssumption DEF Inductive, TypeOK, RequestOK, RowsOK
<1> USE DEF Phases, OnReinspection, OnPhoto
<1>1. ASSUME UNCHANGED photo, uploads' \in 0..MaxImages, uploads <= uploads'
      PROVE  PhotoRows' = PhotoRows /\ ImagesOnDisk'
  <2>1. \A p \in PhotoRows : photo[p].image \in Nat
    BY <1>0, ReinspectionAssumption DEF RowsOK, PhotoRows, Photo, Images
  <2> QED
    BY <1>0, <1>1, <2>1, ReinspectionAssumption
    DEF PhotoRows, ImagesOnDisk, RowsOK
<1>2. ASSUME AddPhotosUpload(s) PROVE Inductive'
  <2>1. Len(req[s].batch) \in Nat
    BY <1>0 DEF Request
  <2>2. uploads' \in 0..MaxImages /\ uploads <= uploads'
    BY SMTT(30), <1>0, <1>2, <2>1, ReinspectionAssumption DEF AddPhotosUpload
  <2>8. PICK first \in Nat : first = uploads + 1
    BY <1>0
  <2>3. PICK q : q = [req[s] EXCEPT !.phase = "addInsert", !.image = first]
    OBVIOUS
  <2>4. /\ q \in Request /\ q.phase = "addInsert" /\ q.image = first
        /\ q.target = req[s].target /\ q.payload = req[s].payload
        /\ q.batch = req[s].batch
    BY <1>0, <2>3 DEF Request
  <2>5. LocalOK(q, PhotoRows, uploads')
    BY <1>0, <1>2, <2>1, <2>4, <2>8 DEF AddPhotosUpload, LocalOK
  <2>6. RowsOK' /\ PhotoRows' = PhotoRows
    BY <1>0, <1>1, <1>2, <2>2 DEF AddPhotosUpload, RowsOK
  <2>7. Await(s, q)
    BY <1>2, <2>3, <2>8 DEF AddPhotosUpload
  <2> QED
    BY <2>2, <2>4, <2>5, <2>6, <2>7, WriteOK
<1>3. ASSUME ResendUpload(s) PROVE Inductive'
  <2>1. uploads' \in 0..MaxImages /\ uploads <= uploads'
    BY <1>0, <1>3, ReinspectionAssumption DEF ResendUpload
  <2>7. PICK new \in Nat : new = uploads + 1
    BY <1>0
  <2>2. PICK q : q = [req[s] EXCEPT !.phase = "resendWrite", !.image = new]
    OBVIOUS
  <2>3. /\ q \in Request /\ q.phase = "resendWrite" /\ q.image = new
        /\ q.target = req[s].target /\ q.payload = req[s].payload
    BY <1>0, <2>2 DEF Request
  <2>4. LocalOK(q, PhotoRows, uploads')
    BY <1>0, <1>3, <2>3, <2>7 DEF ResendUpload, LocalOK
  <2>5. RowsOK' /\ PhotoRows' = PhotoRows
    BY <1>0, <1>1, <1>3, <2>1 DEF ResendUpload, RowsOK
  <2>6. Await(s, q)
    BY <1>3, <2>2, <2>7 DEF ResendUpload
  <2> QED
    BY <2>1, <2>3, <2>4, <2>5, <2>6, WriteOK
<1>4. ASSUME UploadFails(s) PROVE Inductive'
  <2>1. Len(req[s].batch) \in Nat
    BY <1>0 DEF Request
  <2>2. uploads' \in 0..MaxImages /\ uploads <= uploads'
    BY <1>0, <1>4, <2>1, ReinspectionAssumption DEF UploadFails
  <2>3. RowsOK' /\ PhotoRows' = PhotoRows /\ Await(s, Idle)
    BY <1>0, <1>1, <1>4, <2>2 DEF UploadFails, RowsOK, Done
  <2> QED
    BY <2>2, <2>3, IdleOK, WriteOK
<1> QED
  BY <1>2, <1>3, <1>4

-----------------------------------------------------------------------------
\* Replacing the row of one existing photo.
LEMMA PhotoUpdateOK ==
  ASSUME RowsOK, NEW p \in PhotoRows, NEW row \in Photo, row.image <= uploads,
         photo' = [photo EXCEPT ![p] = row], uploads' = uploads
  PROVE  /\ photo' \in [PhotoIds -> Photo \cup {NoRow}]
         /\ PhotoRows' = PhotoRows /\ ImagesOnDisk'
<1>1. row # NoRow
  BY DEF Photo, NoRow
<1>2. photo' \in [PhotoIds -> Photo \cup {NoRow}]
  BY DEF RowsOK
<1>3. \A q \in PhotoIds : photo'[q] = IF q = p THEN row ELSE photo[q]
  BY DEF RowsOK, PhotoRows
<1>4. PhotoRows' = PhotoRows
  BY <1>1, <1>3 DEF PhotoRows
<1> QED
  BY <1>2, <1>3, <1>4 DEF ImagesOnDisk, RowsOK, PhotoRows

\* An existing row, typed.
LEMMA PhotoRowTyped ==
  ASSUME RowsOK, NEW p \in PhotoRows
  PROVE  p \in PhotoIds /\ photo[p] \in Photo /\ photo[p].image <= uploads
BY DEF RowsOK, PhotoRows, ImagesOnDisk

\* The steps that write photo rows.
LEMMA PhotoStepInductive ==
  ASSUME Inductive, NEW s \in Slots,
         \/ HinovaMark(s) \/ ResendWrite(s)
         \/ \E p \in PhotoIds : ReprovePhoto(s, p) \/ ApprovePhoto(s, p)
  PROVE  Inductive'
<1>0. /\ req[s] \in Request /\ LocalOK(req[s], PhotoRows, uploads)
      /\ RowsOK /\ uploads \in Nat
  BY ReinspectionAssumption DEF Inductive, TypeOK, RequestOK, RowsOK
<1> USE DEF Phases, OnReinspection, OnPhoto
<1>1. ASSUME HinovaMark(s) PROVE Inductive'
  <2>1. PICK a \in req[s].answers, p \in PhotoIds :
          /\ LastOfName(s, a[1], p)
          /\ photo' = [photo EXCEPT ![p] = [@ EXCEPT !.hinova = a[2]]]
          /\ Await(s, [req[s] EXCEPT !.answers = @ \ {a}])
    BY <1>1 DEF HinovaMark
  <2>2. p \in PhotoRows
    BY <1>0, <2>1 DEF LastOfName, LocalOK
  <2>3. a[2] \in {"Inserido", "Recusado"}
    BY <1>0 DEF Request
  <2>4. PICK row : row = [photo[p] EXCEPT !.hinova = a[2]]
    OBVIOUS
  <2>5. row \in Photo /\ row.image <= uploads
    BY <1>0, <2>2, <2>3, <2>4, PhotoRowTyped DEF Photo
  <2>6. photo' = [photo EXCEPT ![p] = row] /\ uploads' = uploads
    BY <1>1, <2>1, <2>4 DEF HinovaMark
  <2>7. /\ photo' \in [PhotoIds -> Photo \cup {NoRow}]
        /\ PhotoRows' = PhotoRows /\ ImagesOnDisk'
    BY <1>0, <2>2, <2>5, <2>6, PhotoUpdateOK
  <2>8. RowsOK'
    BY <1>0, <1>1, <2>6, <2>7 DEF HinovaMark, RowsOK
  <2>9. PICK q : q = [req[s] EXCEPT !.answers = @ \ {a}]
    OBVIOUS
  <2>10. /\ q \in Request /\ q.phase = req[s].phase
         /\ q.target = req[s].target /\ q.payload = req[s].payload
    BY <1>0, <2>9 DEF Request
  <2>11. LocalOK(q, PhotoRows, uploads)
    BY <1>0, <1>1, <2>10 DEF HinovaMark, LocalOK
  <2> QED
    BY <1>0, <2>1, <2>6, <2>7, <2>8, <2>9, <2>10, <2>11, WriteOK
<1>2. ASSUME ResendWrite(s) PROVE Inductive'
  <2>1. PICK p : p = req[s].target
    OBVIOUS
  <2>2. p \in PhotoRows /\ req[s].image \in 1..uploads
    BY <1>0, <1>2, <2>1 DEF ResendWrite, LocalOK
  <2>3. p \in PhotoIds /\ photo[p] \in Photo
    BY <1>0, <2>2, PhotoRowTyped
  <2>13. PICK new \in Images : new = req[s].image /\ new <= uploads
    BY <1>0, <2>2, ReinspectionAssumption DEF Images, RowsOK
  <2>4. PICK row : row = [photo[p] EXCEPT !.image = new, !.status = "PENDENTE",
                                          !.hinova = "null"]
    OBVIOUS
  <2>5. row \in Photo /\ row.image <= uploads
    BY <2>3, <2>4, <2>13 DEF Photo, PhotoStatus
  <2>6. photo' = [photo EXCEPT ![p] = row] /\ uploads' = uploads
    BY <1>2, <2>1, <2>4, <2>13 DEF ResendWrite, ResentPhoto
  <2>7. /\ photo' \in [PhotoIds -> Photo \cup {NoRow}]
        /\ PhotoRows' = PhotoRows /\ ImagesOnDisk'
    BY <1>0, <2>2, <2>5, <2>6, PhotoUpdateOK
  <2>8. RowsOK'
    BY <1>0, <1>2, <2>6, <2>7 DEF ResendWrite, RowsOK, ReinspectionStatus
  <2>9. PICK q : q = [req[s] EXCEPT !.phase = "resendMail"]
    OBVIOUS
  <2>10. /\ q \in Request /\ q.phase = "resendMail"
         /\ q.target = req[s].target /\ q.payload = req[s].payload
    BY <1>0, <2>9 DEF Request
  <2>11. LocalOK(q, PhotoRows, uploads)
    BY <1>0, <2>1, <2>2, <2>10 DEF LocalOK
  <2>12. Await(s, q)
    BY <1>2, <2>9 DEF ResendWrite
  <2> QED
    BY <1>0, <2>6, <2>7, <2>8, <2>10, <2>11, <2>12, WriteOK
<1>3. ASSUME NEW p \in PhotoIds, ReprovePhoto(s, p) PROVE Inductive'
  <2>1. p \in PhotoRows /\ photo[p] \in Photo
    BY <1>0, <1>3, PhotoRowTyped DEF ReprovePhoto
  <2>2. PICK row : row = [photo[p] EXCEPT !.status = "REPROVADA"]
    OBVIOUS
  <2>3. row \in Photo /\ row.image <= uploads
    BY <1>0, <2>1, <2>2, PhotoRowTyped DEF Photo, PhotoStatus
  <2>4. photo' = [photo EXCEPT ![p] = row] /\ uploads' = uploads
    BY <1>3, <2>2 DEF ReprovePhoto
  <2>5. /\ photo' \in [PhotoIds -> Photo \cup {NoRow}]
        /\ PhotoRows' = PhotoRows /\ ImagesOnDisk'
    BY <1>0, <2>1, <2>3, <2>4, PhotoUpdateOK
  <2>6. RowsOK'
    BY <1>0, <1>3, <2>4, <2>5 DEF ReprovePhoto, RowsOK, ReinspectionStatus
  <2>7. req' = req
    BY <1>3 DEF ReprovePhoto
  <2> QED
    BY <2>4, <2>5, <2>6, <2>7 DEF Inductive, TypeOK, RowsOK, RequestOK
<1>4. ASSUME NEW p \in PhotoIds, ApprovePhoto(s, p) PROVE Inductive'
  <2>1. p \in PhotoRows /\ photo[p] \in Photo
    BY <1>0, <1>4, PhotoRowTyped DEF ApprovePhoto
  <2>2. PICK row : row = [photo[p] EXCEPT !.status = "APROVADA"]
    OBVIOUS
  <2>3. row \in Photo /\ row.image <= uploads
    BY <1>0, <2>1, <2>2, PhotoRowTyped DEF Photo, PhotoStatus
  <2>4. photo' = [photo EXCEPT ![p] = row] /\ uploads' = uploads
    BY <1>4, <2>2 DEF ApprovePhoto
  <2>5. /\ photo' \in [PhotoIds -> Photo \cup {NoRow}]
        /\ PhotoRows' = PhotoRows /\ ImagesOnDisk'
    BY <1>0, <2>1, <2>3, <2>4, PhotoUpdateOK
  <2>6. RowsOK'
    BY <1>0, <1>4, <2>4, <2>5 DEF ApprovePhoto, RowsOK
  <2>7. PICK v \in {"REPROVADA", "EM_ANALISE"} :
          Await(s, At("approvePhotoWrite", photo[p].reinspection, << >>, v))
    BY <1>4 DEF ApprovePhoto
  <2> DEFINE q == At("approvePhotoWrite", photo[p].reinspection, << >>, v)
  <2>8. q \in Request /\ LocalOK(q, PhotoRows', uploads')
    BY <2>1 DEF At, Request, LocalOK, Photo, ReinspectionIds,
                ReinspectionStatus
  <2> HIDE DEF q
  <2>9. Await(s, q)
    BY <2>7 DEF q
  <2> QED
    BY <1>0, <2>4, <2>5, <2>6, <2>8, <2>9, WriteOK
<1> QED
  BY <1>1, <1>2, <1>3, <1>4

\* createMany fills the next rows with the files its request has written.
LEMMA AddPhotosInsertInductive ==
  ASSUME Inductive, NEW s \in Slots, AddPhotosInsert(s) PROVE Inductive'
<1>0. /\ req[s] \in Request /\ LocalOK(req[s], PhotoRows, uploads)
      /\ RowsOK /\ uploads \in Nat
  BY ReinspectionAssumption DEF Inductive, TypeOK, RequestOK, RowsOK
<1>1. PICK k \in Nat : k = Len(req[s].batch)
  BY <1>0 DEF Request
<1>2. /\ req[s].target \in ReinspectionIds /\ req[s].image \in Nat
      /\ req[s].image >= 1 /\ req[s].image + k - 1 <= uploads
  BY <1>0, <1>1 DEF AddPhotosInsert, LocalOK, OnReinspection, Request
<1>3. ASSUME NEW i \in 1..k
      PROVE  NewPhoto(s, i) \in Photo /\ NewPhoto(s, i).image <= uploads
  <2>1. req[s].batch[i] \in Names
    BY <1>0, <1>1 DEF Request
  <2>2. req[s].image + i - 1 \in Images /\ req[s].image + i - 1 <= uploads
    BY <1>0, <1>2, ReinspectionAssumption DEF Images, RowsOK
  <2> QED
    BY <1>2, <2>1, <2>2 DEF NewPhoto, NewPhotoRow, Photo, PhotoStatus
<1>4. nextPhoto \in Nat /\ nextPhoto' = nextPhoto + k
      /\ nextPhoto' \in 1..(MaxPhotos + 1)
  BY <1>0, <1>1, ReinspectionAssumption DEF AddPhotosInsert, RowsOK
<1>5. ASSUME NEW p \in PhotoIds
      PROVE  \/ photo'[p] = photo[p]
             \/ photo'[p] \in Photo /\ photo'[p].image <= uploads
  <2>1. photo'[p] = IF p \in nextPhoto..(nextPhoto + k - 1)
                    THEN NewPhoto(s, p - nextPhoto + 1) ELSE photo[p]
    BY <1>1 DEF AddPhotosInsert
  <2>2. CASE p \in nextPhoto..(nextPhoto + k - 1)
    <3>1. p - nextPhoto + 1 \in 1..k
      BY <1>4, <2>2
    <3> QED
      BY <1>3, <2>1, <2>2, <3>1
  <2> QED
    BY <2>1, <2>2
<1>6. photo' = [p \in PhotoIds |-> photo'[p]]
  BY DEF AddPhotosInsert
<1>7. photo' \in [PhotoIds -> Photo \cup {NoRow}]
  <2>1. \A p \in PhotoIds : photo'[p] \in Photo \cup {NoRow}
    BY <1>0, <1>5 DEF RowsOK
  <2> QED
    BY <1>6, <2>1
<1>8. \A row \in Photo : row # NoRow
  BY DEF Photo, NoRow
<1>9. PhotoRows \subseteq PhotoRows'
  BY <1>5, <1>8 DEF PhotoRows
<1>10. uploads' = uploads /\ ImagesOnDisk'
  BY <1>0, <1>5 DEF AddPhotosInsert, RowsOK, ImagesOnDisk, PhotoRows
<1>11. RowsOK'
  BY <1>0, <1>4, <1>7, <1>10 DEF AddPhotosInsert, RowsOK
<1>12. Await(s, Idle)
  BY DEF AddPhotosInsert, Done
<1> QED
  BY <1>0, <1>9, <1>10, <1>11, <1>12, IdleOK, WriteOK

\* A new reinspection.
LEMMA CreateInductive ==
  ASSUME Inductive, NEW s \in Slots, Create(s) PROVE Inductive'
<1>1. /\ status' \in [ReinspectionIds -> ReinspectionStatus \cup {"absent"}]
      /\ UNCHANGED <<photo, nextPhoto, uploads, accepted, boletoCalls,
                     failures, req>>
  BY DEF Create, Inductive, TypeOK, ReinspectionStatus
<1>2. PhotoRows' = PhotoRows
  BY <1>1 DEF PhotoRows
<1> QED
  BY <1>1, <1>2 DEF Inductive, TypeOK, ImagesOnDisk, RequestOK

\* Every step preserves the invariant, whichever slots run which handlers.
LEMMA StepInductive == Inductive /\ [Next]_vars => Inductive'
<1> SUFFICES ASSUME Inductive, [Next]_vars PROVE Inductive'
  OBVIOUS
<1>1. ASSUME UNCHANGED vars PROVE Inductive'
  <2>1. PhotoRows' = PhotoRows
    BY <1>1 DEF vars, PhotoRows
  <2> QED
    BY <1>1, <2>1 DEF vars, Inductive, TypeOK, ImagesOnDisk, RequestOK
<1>2. CASE Next
  <2>1. PICK s \in Slots :
          \/ Create(s)
          \/ \E r \in ReinspectionIds, b \in Batches : AddPhotosCheck(s, r, b)
          \/ AddPhotosUpload(s) \/ AddPhotosInsert(s)
          \/ UpdateStatusRead(s) \/ FinalizeRead(s) \/ StatusWrite(s)
          \/ ApproveRead(s) \/ ApproveCheck(s) \/ ApproveWrite(s)
          \/ HinovaRead(s) \/ HinovaPost(s) \/ HinovaMark(s) \/ HinovaEnd(s)
          \/ HinovaError(s) \/ ApproveBoleto(s)
          \/ \E p \in PhotoIds : ResendRead(s, p)
          \/ ResendUpload(s) \/ ResendWrite(s) \/ ResendMail(s)
          \/ \E p \in PhotoIds : ReprovePhoto(s, p)
          \/ \E p \in PhotoIds : ApprovePhoto(s, p)
          \/ ApprovePhotoWrite(s)
          \/ Abort(s)
          \/ UploadFails(s) \/ InsertBeyondBound(s)
    BY <1>2 DEF Next
  <2> QED
    BY <2>1, RequestStepInductive, StatusStepInductive, UploadStepInductive,
       PhotoStepInductive, AddPhotosInsertInductive, CreateInductive
<1> QED
  BY <1>1, <1>2

\* Type correctness, for all constants.
THEOREM TypeCorrect == Spec => []TypeOK
<1>1. Inductive => TypeOK
  BY DEF Inductive
<1> QED
  BY <1>1, InitInductive, StepInductive, PTL DEF Spec

\* A photo row never names a file that is not on disk, however requests
\* interleave and wherever they die.
THEOREM PhotosAreOnDisk == Spec => []ImagesOnDisk
<1>1. Inductive => ImagesOnDisk
  BY DEF Inductive
<1> QED
  BY <1>1, InitInductive, StepInductive, PTL DEF Spec

-----------------------------------------------------------------------------
(* With one analyst at a time, approval is sound.                          *)

\* Only ReprovePhoto adds to the rejected photos of a reinspection.
LEMMA RejectedShrinks ==
  ASSUME Inductive, [Next]_vars,
         ~ \E s \in Slots, p \in PhotoIds : ReprovePhoto(s, p),
         NEW r \in ReinspectionIds
  PROVE  Rejected(r)' \subseteq Rejected(r)
<1>1. SUFFICES ASSUME NEW p \in PhotoIds
               PROVE  \/ photo'[p] = photo[p]
                      \/ photo'[p].status # "REPROVADA"
                      \/ /\ photo[p] # NoRow /\ photo[p].status = "REPROVADA"
                         /\ photo'[p].reinspection = photo[p].reinspection
  BY DEF Rejected, PhotosOf, PhotoRows
<1>2. RowsOK /\ req \in [Slots -> Request]
  BY InductiveParts
<1>3. photo[p] \in Photo \cup {NoRow}
  BY <1>2 DEF RowsOK
<1>4. ASSUME NEW s \in Slots, AddPhotosInsert(s)
      PROVE  photo'[p] = photo[p] \/ photo'[p].status # "REPROVADA"
  BY <1>4 DEF AddPhotosInsert, NewPhoto, NewPhotoRow
<1>5. ASSUME NEW s \in Slots, HinovaMark(s)
      PROVE  \/ photo'[p] = photo[p]
             \/ /\ photo'[p].status = photo[p].status
                /\ photo'[p].reinspection = photo[p].reinspection
                /\ photo[p] # NoRow
  <2>1. PICK a \in req[s].answers, q \in PhotoIds :
          /\ LastOfName(s, a[1], q)
          /\ photo' = [photo EXCEPT ![q] = [@ EXCEPT !.hinova = a[2]]]
    BY <1>5 DEF HinovaMark
  <2>2. LocalOK(req[s], PhotoRows, uploads)
    BY DEF Inductive, RequestOK
  <2>3. q \in PhotoRows
    BY <2>1, <2>2 DEF LastOfName, LocalOK
  <2>4. CASE p = q
    <3>1. photo'[p] = [photo[p] EXCEPT !.hinova = a[2]]
      BY <1>2, <2>1, <2>4 DEF RowsOK
    <3> QED
      BY <1>3, <2>3, <2>4, <3>1 DEF PhotoRows, Photo
  <2>5. CASE p # q
    BY <1>2, <2>1, <2>5 DEF RowsOK
  <2> QED
    BY <2>4, <2>5
<1>6. ASSUME NEW s \in Slots, ResendWrite(s)
      PROVE  photo'[p] = photo[p] \/ photo'[p].status # "REPROVADA"
  <2>1. LocalOK(req[s], PhotoRows, uploads)
    BY DEF Inductive, RequestOK
  <2>2. req[s].target \in PhotoRows
    BY <1>6, <2>1 DEF ResendWrite, LocalOK, OnPhoto
  <2>3. CASE p = req[s].target
    <3>1. photo'[p] = [photo[p] EXCEPT !.image = req[s].image,
                                       !.status = "PENDENTE", !.hinova = "null"]
      BY <1>2, <1>6, <2>3 DEF ResendWrite, ResentPhoto, RowsOK
    <3> QED
      BY <1>3, <2>2, <2>3, <3>1 DEF PhotoRows, Photo
  <2>4. CASE p # req[s].target
    BY <1>2, <1>6, <2>4 DEF ResendWrite, RowsOK
  <2> QED
    BY <2>3, <2>4
<1>7. ASSUME NEW s \in Slots, NEW q \in PhotoIds, ApprovePhoto(s, q)
      PROVE  photo'[p] = photo[p] \/ photo'[p].status # "REPROVADA"
  <2>1. q \in PhotoRows
    BY <1>7 DEF ApprovePhoto
  <2>2. CASE p = q
    <3>1. photo'[p] = [photo[p] EXCEPT !.status = "APROVADA"]
      BY <1>2, <1>7, <2>2 DEF ApprovePhoto, RowsOK
    <3> QED
      BY <1>3, <2>1, <2>2, <3>1 DEF PhotoRows, Photo
  <2>3. CASE p # q
    BY <1>2, <1>7, <2>3 DEF ApprovePhoto, RowsOK
  <2> QED
    BY <2>2, <2>3
<1>8. \/ \E s \in Slots : \/ AddPhotosInsert(s) \/ HinovaMark(s)
                          \/ ResendWrite(s)
                          \/ \E q \in PhotoIds : ApprovePhoto(s, q)
      \/ photo' = photo
  BY DEF Next, vars, ReadOnly, Create, AddPhotosCheck, AddPhotosUpload,
         UpdateStatusRead, FinalizeRead, StatusRead, StatusWrite, ApproveRead,
         ApproveCheck, ApproveWrite, HinovaRead, HinovaPost, HinovaEnd,
         HinovaError, ApproveBoleto, ResendRead, ResendUpload, ResendMail,
         ApprovePhotoWrite, Abort, UploadFails, InsertBeyondBound
<1> QED
  BY <1>4, <1>5, <1>6, <1>7, <1>8

\* A request only enters the approval's check or write through ApproveRead
\* and ApproveCheck.
LEMMA ApprovalPhases ==
  ASSUME req \in [Slots -> Request], [Next]_vars, NEW t \in Slots
  PROVE  \/ req'[t] = req[t]
         \/ req'[t].phase \notin {"approveCheck", "approveWrite"}
         \/ ApproveRead(t) \/ ApproveCheck(t)
<1> DEFINE Quiet(s) ==
      \E r : Await(s, r) /\ r.phase \notin {"approveCheck", "approveWrite"}
<1>1. ASSUME NEW s \in Slots, Done(s) PROVE Quiet(s)
  BY <1>1 DEF Done, Idle, At
<1>2. ASSUME NEW s \in Slots,
             \/ AddPhotosInsert(s) \/ StatusWrite(s) \/ ApproveBoleto(s)
             \/ ResendMail(s) \/ ApprovePhotoWrite(s) \/ Abort(s)
             \/ UploadFails(s) \/ InsertBeyondBound(s)
      PROVE  Quiet(s)
  <2>1. Done(s)
    BY <1>2 DEF AddPhotosInsert, StatusWrite, ApproveBoleto, ResendMail,
                ApprovePhotoWrite, Abort, UploadFails, InsertBeyondBound
  <2> QED
    BY <1>1, <2>1
<1>3. ASSUME NEW s \in Slots,
             \/ \E r \in ReinspectionIds, b \in Batches :
                  AddPhotosCheck(s, r, b)
             \/ UpdateStatusRead(s) \/ FinalizeRead(s)
             \/ \E p \in PhotoIds : ResendRead(s, p)
             \/ \E p \in PhotoIds : ApprovePhoto(s, p)
      PROVE  Quiet(s)
  <2>1. PICK f, x, b, v :
             /\ f \in {"addUpload", "statusWrite", "resendUpload",
                       "approvePhotoWrite"}
             /\ Await(s, At(f, x, b, v))
    <3>1. ASSUME NEW p \in PhotoIds, ApprovePhoto(s, p)
          PROVE  \E v : Await(s, At("approvePhotoWrite",
                                    photo[p].reinspection, << >>, v))
      BY <3>1 DEF ApprovePhoto
    <3>2. ASSUME NEW r \in ReinspectionIds, NEW b \in Batches,
                 AddPhotosCheck(s, r, b)
          PROVE  Await(s, At("addUpload", r, b, "none"))
      BY <3>2 DEF AddPhotosCheck
    <3>3. ASSUME UpdateStatusRead(s) \/ FinalizeRead(s)
          PROVE  \E r, v : Await(s, At("statusWrite", r, << >>, v))
      BY <3>3 DEF UpdateStatusRead, FinalizeRead, StatusRead
    <3>4. ASSUME NEW p \in PhotoIds, ResendRead(s, p)
          PROVE  Await(s, At("resendUpload", p, << >>, "none"))
      BY <3>4 DEF ResendRead
    <3> QED
      BY <1>3, <3>1, <3>2, <3>3, <3>4
  <2>2. At(f, x, b, v).phase = f
    BY DEF At
  <2> QED
    BY <2>1, <2>2
<1>4. ASSUME NEW s \in Slots, NEW q, Await(s, q), q.phase \in {"addInsert",
               "hinovaRead", "hinovaPost", "hinovaMark", "boleto",
               "resendWrite", "resendMail"}
      PROVE  Quiet(s)
  BY <1>4
<1>5. ASSUME NEW s \in Slots, AddPhotosUpload(s) \/ ResendUpload(s)
      PROVE  Quiet(s)
  <2>1. PICK f \in {"addInsert", "resendWrite"}, i \in {uploads + 1} :
          Await(s, [req[s] EXCEPT !.phase = f, !.image = i])
    <3>1. CASE AddPhotosUpload(s)
      <4>1. Await(s, [req[s] EXCEPT !.phase = "addInsert",
                                    !.image = uploads + 1])
        BY <3>1, Zenon DEF AddPhotosUpload
      <4> QED
        BY <4>1, Zenon
    <3>2. CASE ResendUpload(s)
      <4>1. Await(s, [req[s] EXCEPT !.phase = "resendWrite",
                                    !.image = uploads + 1])
        BY <3>2, Zenon DEF ResendUpload
      <4> QED
        BY <4>1, Zenon
    <3> QED
      BY <1>5, <3>1, <3>2
  <2>2. PICK q : q = [req[s] EXCEPT !.phase = f, !.image = i]
    OBVIOUS
  <2>3. q.phase = f
    BY <2>2 DEF Request
  <2> QED
    BY <1>4, <2>1, <2>2, <2>3
<1>6. ASSUME NEW s \in Slots, HinovaRead(s) PROVE Quiet(s)
  <2>1. PICK x : Await(s, [req[s] EXCEPT !.phase = "hinovaPost", !.payload = x])
    BY <1>6 DEF HinovaRead
  <2>2. PICK q : q = [req[s] EXCEPT !.phase = "hinovaPost", !.payload = x]
    OBVIOUS
  <2>3. q.phase = "hinovaPost"
    BY <2>2 DEF Request
  <2> QED
    BY <1>4, <2>1, <2>2, <2>3
<1>7. ASSUME NEW s \in Slots, HinovaPost(s) PROVE Quiet(s)
  <2>1. PICK x : Await(s, [req[s] EXCEPT !.phase = "hinovaMark", !.answers = x])
    BY <1>7 DEF HinovaPost
  <2>2. PICK q : q = [req[s] EXCEPT !.phase = "hinovaMark", !.answers = x]
    OBVIOUS
  <2>3. q.phase = "hinovaMark"
    BY <2>2 DEF Request
  <2> QED
    BY <1>4, <2>1, <2>2, <2>3
<1>8. ASSUME NEW s \in Slots, HinovaMark(s) PROVE Quiet(s)
  <2>1. PICK x : Await(s, [req[s] EXCEPT !.answers = x])
    BY <1>8 DEF HinovaMark
  <2>2. PICK q : q = [req[s] EXCEPT !.answers = x]
    OBVIOUS
  <2>3. q.phase = "hinovaMark"
    BY <1>8, <2>2 DEF HinovaMark, Request
  <2> QED
    BY <1>4, <2>1, <2>2, <2>3
<1>9. ASSUME NEW s \in Slots,
             \/ ApproveWrite(s) \/ HinovaEnd(s) \/ HinovaError(s)
             \/ ResendWrite(s)
      PROVE  Quiet(s)
  <2>1. PICK f \in {"hinovaRead", "boleto", "resendMail"} :
          Await(s, [req[s] EXCEPT !.phase = f])
    BY <1>9 DEF ApproveWrite, HinovaEnd, HinovaError, ResendWrite
  <2>2. PICK q : q = [req[s] EXCEPT !.phase = f]
    OBVIOUS
  <2>3. q.phase = f
    BY <2>2 DEF Request
  <2> QED
    BY <1>4, <2>1, <2>2, <2>3
<1>10. ASSUME NEW s \in Slots,
              Create(s) \/ \E p \in PhotoIds : ReprovePhoto(s, p)
       PROVE  req' = req
  BY <1>10 DEF Create, ReprovePhoto
<1>11. \/ req' = req
       \/ \E s \in Slots : Quiet(s) \/ ApproveRead(s) \/ ApproveCheck(s)
  <2> HIDE DEF Quiet
  <2> QED
    BY <1>2, <1>3, <1>5, <1>6, <1>7, <1>8, <1>9, <1>10 DEF Next, vars
<1>12. ASSUME NEW s \in Slots, NEW r, Await(s, r)
       PROVE  (t = s /\ req'[t] = r) \/ (t # s /\ req'[t] = req[t])
  BY <1>12 DEF Await
<1>13. ASSUME NEW s \in Slots, ApproveRead(s) \/ ApproveCheck(s)
       PROVE  \E r : Await(s, r)
  BY <1>13 DEF ApproveRead, ApproveCheck, Done
<1> QED
  BY <1>11, <1>12, <1>13

\* Only ApproveWrite makes a reinspection APROVADA.
LEMMA OnlyApproveWriteApproves ==
  ASSUME Inductive, [Next]_vars, NEW r \in ReinspectionIds,
         status'[r] = "APROVADA"
  PROVE  \/ status[r] = "APROVADA"
         \/ \E s \in Slots : ApproveWrite(s) /\ req[s].target = r
<1>1. /\ status \in [ReinspectionIds -> ReinspectionStatus \cup {"absent"}]
      /\ \A s \in Slots : LocalOK(req[s], PhotoRows, uploads)
  BY DEF Inductive, TypeOK, RequestOK
<1>2. ASSUME NEW s \in Slots, StatusWrite(s) \/ ApprovePhotoWrite(s)
      PROVE  status[r] = "APROVADA"
  <2>1. /\ status' = [status EXCEPT ![req[s].target] = req[s].verdict]
        /\ req[s].verdict # "APROVADA"
    BY <1>1, <1>2 DEF StatusWrite, ApprovePhotoWrite, LocalOK
  <2> QED
    BY <1>1, <2>1
<1>3. ASSUME NEW s \in Slots, ApproveWrite(s)
      PROVE  status[r] = "APROVADA" \/ req[s].target = r
  BY <1>1, <1>3 DEF ApproveWrite
<1>4. ASSUME NEW s \in Slots,
             \/ Create(s) \/ ResendWrite(s)
             \/ \E p \in PhotoIds : ReprovePhoto(s, p)
      PROVE  status[r] = "APROVADA"
  BY <1>1, <1>4 DEF Create, ResendWrite, ReprovePhoto
<1>5. \/ status' = status
      \/ \E s \in Slots : \/ StatusWrite(s) \/ ApprovePhotoWrite(s)
                          \/ ApproveWrite(s) \/ Create(s) \/ ResendWrite(s)
                          \/ \E p \in PhotoIds : ReprovePhoto(s, p)
  BY DEF Next, vars, ReadOnly, AddPhotosCheck, AddPhotosUpload,
         AddPhotosInsert, UpdateStatusRead, FinalizeRead, StatusRead,
         ApproveRead, ApproveCheck, HinovaRead, HinovaPost, HinovaMark,
         HinovaEnd, HinovaError, ApproveBoleto, ResendRead, ResendUpload,
         ResendMail, ApprovePhoto, Abort, UploadFails, InsertBeyondBound
<1> QED
  BY <1>2, <1>3, <1>4, <1>5

Approvals == ApprovedHasNoRejectedPhoto /\ \A s \in Slots : ApprovalOK(s)

\* Every step but a rejection preserves what approvals rely on.
LEMMA OtherStepApprovals ==
  ASSUME Inductive, Approvals, [Next]_vars,
         ~ \E s \in Slots, p \in PhotoIds : ReprovePhoto(s, p)
  PROVE  Approvals'
<1>1. \A r \in ReinspectionIds : Rejected(r)' \subseteq Rejected(r)
  BY RejectedShrinks
<1>2. /\ req \in [Slots -> Request]
      /\ \A s \in Slots : LocalOK(req[s], PhotoRows, uploads)
  BY DEF Inductive, TypeOK, RequestOK
<1>3. ApprovedHasNoRejectedPhoto'
  <2> SUFFICES ASSUME NEW r \in ReinspectionIds, status'[r] = "APROVADA"
               PROVE  Rejected(r)' = {}
    BY DEF ApprovedHasNoRejectedPhoto
  <2>1. Rejected(r) = {}
    BY OnlyApproveWriteApproves
    DEF Approvals, ApprovedHasNoRejectedPhoto, ApprovalOK, ApproveWrite
  <2> QED
    BY <1>1, <2>1
<1>4. ASSUME NEW t \in Slots PROVE ApprovalOK(t)'
  <2>1. ApprovalOK(t)
    BY DEF Approvals
  <2>2. CASE req'[t] = req[t]
    <3>1. CASE req[t].phase = "approveWrite"
      <4>1. PICK r \in ReinspectionIds : r = req[t].target
        BY <1>2, <3>1 DEF LocalOK, OnReinspection
      <4>2. Rejected(r)' \subseteq {}
        BY <1>1, <2>1, <3>1, <4>1 DEF ApprovalOK
      <4>3. req'[t].target = r
        BY <2>2, <4>1
      <4> QED
        BY <2>1, <2>2, <4>2, <4>3
        DEF ApprovalOK, Rejected, PhotosOf, PhotoRows
    <3>2. CASE req[t].phase # "approveWrite"
      BY <2>1, <2>2, <3>2 DEF ApprovalOK
    <3> QED
      BY <3>1, <3>2
  <2>3. CASE req'[t].phase \notin {"approveCheck", "approveWrite"}
    BY <2>3 DEF ApprovalOK
  <2>4. CASE ApproveRead(t)
    <3>1. PICK r \in ReinspectionIds :
            Await(t, At("approveCheck", r, << >>, "none"))
      BY <2>4 DEF ApproveRead, Created
    <3>2. req'[t].phase = "approveCheck"
      BY <1>2, <3>1 DEF Await, At
    <3> QED
      BY <2>4, <3>2 DEF ApprovalOK, ApproveRead, Receives
  <2>5. CASE ApproveCheck(t)
    <3>1. CASE Rejected(req[t].target) # {}
      <4>1. req'[t].phase = "idle"
        BY <1>2, <2>5, <3>1 DEF ApproveCheck, Done, Await, Idle, At
      <4> QED
        BY <4>1 DEF ApprovalOK
    <3>2. CASE Rejected(req[t].target) = {}
      <4>1. PICK q : q = [req[t] EXCEPT !.phase = "approveWrite"]
        OBVIOUS
      <4>2. q.target = req[t].target /\ req[t].target \in ReinspectionIds
        BY <1>2, <2>5, <4>1 DEF ApproveCheck, Request, LocalOK, OnReinspection
      <4>3. req'[t] = q
        BY <1>2, <2>5, <3>2, <4>1 DEF ApproveCheck, Await
      <4>4. Rejected(req[t].target)' \subseteq {}
        <5>1. PICK r \in ReinspectionIds : r = req[t].target
          BY <4>2
        <5>2. Rejected(r)' \subseteq {}
          BY <1>1, <3>2, <5>1
        <5>3. req'[t].target = r
          BY <4>2, <4>3, <5>1
        <5> QED
          BY <5>2, <5>3 DEF Rejected, PhotosOf, PhotoRows
      <4> QED
        BY <2>1, <2>5, <4>2, <4>3, <4>4
        DEF ApprovalOK, ApproveCheck, Rejected, PhotosOf, PhotoRows
    <3> QED
      BY <3>1, <3>2
  <2> QED
    BY <1>2, <2>2, <2>3, <2>4, <2>5, ApprovalPhases
<1> QED
  BY <1>3, <1>4 DEF Approvals

\* A rejection withdraws the approval of its reinspection, and with a single
\* analyst no approval is between its check and its write.
LEMMA ReproveApprovals ==
  ASSUME OneAnalyst, Inductive, Approvals, NEW s \in Slots,
         NEW p \in PhotoIds, ReprovePhoto(s, p)
  PROVE  Approvals'
<1>1. RowsOK /\ p \in PhotoRows /\ photo[p] \in Photo
  BY InductiveParts, PhotoRowTyped DEF ReprovePhoto
<1>2. photo' = [photo EXCEPT ![p] = [photo[p] EXCEPT !.status = "REPROVADA"]]
  BY DEF ReprovePhoto
<1>3. photo'[p].reinspection = photo[p].reinspection
  BY <1>1, <1>2 DEF RowsOK, Photo
<1>4. ASSUME NEW r \in ReinspectionIds, status'[r] = "APROVADA"
      PROVE  Rejected(r)' = {}
  <2>1. r # photo[p].reinspection /\ status[r] = "APROVADA"
    BY <1>1, <1>4 DEF ReprovePhoto, RowsOK
  <2>2. Rejected(r) = {}
    BY <2>1 DEF Approvals, ApprovedHasNoRejectedPhoto
  <2>3. \A q \in PhotoIds : q # p => photo'[q] = photo[q]
    BY <1>1, <1>2 DEF RowsOK
  <2> QED
    BY <1>3, <2>1, <2>2, <2>3 DEF Rejected, PhotosOf, PhotoRows
<1>5. ASSUME NEW t \in Slots PROVE ApprovalOK(t)'
  <2>1. ApprovalOK(t) /\ req' = req
    BY DEF Approvals, ReprovePhoto
  <2>2. req[t].phase # "approveWrite"
    BY <2>1 DEF ApprovalOK, OneAnalyst, ReprovePhoto, Receives
  <2> QED
    BY <2>1, <2>2 DEF ApprovalOK
<1> QED
  BY <1>4, <1>5 DEF Approvals, ApprovedHasNoRejectedPhoto

\* When at most one slot approves reinspections or rejects photos, an approved
\* reinspection never holds a rejected photo; the app, any number of slots of
\* it, may run whatever it likes meanwhile.
THEOREM ApprovalIsSound ==
  ASSUME OneAnalyst
  PROVE  Spec => []ApprovedHasNoRejectedPhoto
<1>1. Init => Approvals
  BY DEF Init, Approvals, ApprovedHasNoRejectedPhoto, ApprovalOK, Idle, At
<1>2. Inductive /\ Approvals /\ [Next]_vars => Approvals'
  BY OtherStepApprovals, ReproveApprovals
<1>3. Approvals => ApprovedHasNoRejectedPhoto
  BY DEF Approvals
<1> QED
  BY <1>1, <1>2, <1>3, InitInductive, StepInductive, PTL DEF Spec

-----------------------------------------------------------------------------
(* What a step may do to a photo, to a status and to a request: the three   *)
(* lemmas the remaining invariants are read off.                           *)

\* The row is created, or Hinova's answer is written to it, or it is resent, or
\* an analyst judges it; its name and its reinspection stay.
Inserted(p) ==
  /\ photo[p] = NoRow /\ photo'[p] \in Photo
  /\ photo'[p].hinova = "null" /\ photo'[p].status = "PENDENTE"

Marked(p) ==
  /\ photo'[p].image = photo[p].image /\ photo'[p].status = photo[p].status
  /\ \E s \in Slots : \E a \in req[s].answers :
       /\ HinovaMark(s) /\ LastOfName(s, a[1], p)
       /\ photo'[p].hinova = a[2]

Resent(p) ==
  /\ photo'[p].hinova = "null"
  /\ \E s \in Slots : ResendWrite(s) /\ req[s].target = p

Judged(p) ==
  /\ photo'[p].image = photo[p].image /\ photo'[p].hinova = photo[p].hinova
  /\ \E s \in Slots : \/ ReprovePhoto(s, p) /\ photo'[p].status = "REPROVADA"
                      \/ ApprovePhoto(s, p) /\ photo'[p].status = "APROVADA"

Rewritten(p) ==
  /\ photo[p] \in Photo /\ photo'[p] \in Photo
  /\ photo'[p].name = photo[p].name
  /\ photo'[p].reinspection = photo[p].reinspection
  /\ Marked(p) \/ Resent(p) \/ Judged(p)

\* A createMany touches no row that exists, and numbers its rows in sequence.
LEMMA InsertMoves ==
  ASSUME Inductive, RowsAreNumbered, NEW s \in Slots, AddPhotosInsert(s)
  PROVE  /\ \A p \in PhotoIds : photo'[p] = photo[p] \/ Inserted(p)
         /\ RowsAreNumbered'
<1>0. /\ req[s] \in Request /\ LocalOK(req[s], PhotoRows, uploads) /\ RowsOK
      /\ uploads \in Nat
  BY InductiveParts, ReinspectionAssumption DEF RequestOK, RowsOK
<1>1. PICK k \in Nat : k = Len(req[s].batch)
  BY <1>0 DEF Request
<1>2. /\ req[s].target \in ReinspectionIds /\ req[s].image \in Nat
      /\ req[s].image >= 1 /\ req[s].image + k - 1 <= uploads
  BY <1>0, <1>1 DEF AddPhotosInsert, LocalOK, OnReinspection, Request
<1>3. ASSUME NEW i \in 1..k
      PROVE  /\ NewPhoto(s, i) \in Photo /\ NewPhoto(s, i).hinova = "null"
             /\ NewPhoto(s, i).status = "PENDENTE"
  <2>1. req[s].batch[i] \in Names
    BY <1>0, <1>1 DEF Request
  <2>2. req[s].image + i - 1 \in Images
    BY <1>0, <1>2, ReinspectionAssumption DEF Images, RowsOK
  <2> QED
    BY <1>2, <2>1, <2>2 DEF NewPhoto, NewPhotoRow, Photo, PhotoStatus
<1>4. nextPhoto \in Nat /\ nextPhoto' = nextPhoto + k
  BY <1>0, <1>1, ReinspectionAssumption DEF AddPhotosInsert, RowsOK
<1>5. ASSUME NEW p \in PhotoIds
      PROVE  photo'[p] = IF p \in nextPhoto..(nextPhoto + k - 1)
                         THEN NewPhoto(s, p - nextPhoto + 1) ELSE photo[p]
  BY <1>1 DEF AddPhotosInsert
<1>6. ASSUME NEW p \in PhotoIds
      PROVE  photo'[p] = photo[p] \/ Inserted(p)
  <2>1. CASE p \in nextPhoto..(nextPhoto + k - 1)
    <3>1. p - nextPhoto + 1 \in 1..k /\ ~(p < nextPhoto)
      BY <1>4, <2>1
    <3>2. photo[p] = NoRow
      BY <3>1 DEF RowsAreNumbered, PhotoRows
    <3> QED
      BY <1>3, <1>5, <2>1, <3>1, <3>2 DEF Inserted
  <2> QED
    BY <1>5, <2>1
<1>7. ASSUME NEW p \in PhotoRows' PROVE p < nextPhoto'
  <2>1. p \in PhotoIds /\ photo'[p] # NoRow /\ p \in Nat
    BY ReinspectionAssumption DEF PhotoRows, PhotoIds
  <2>2. CASE p \in nextPhoto..(nextPhoto + k - 1)
    BY <1>4, <2>1, <2>2
  <2>3. CASE p \notin nextPhoto..(nextPhoto + k - 1)
    <3>1. p \in PhotoRows
      BY <1>5, <2>1, <2>3 DEF PhotoRows
    <3> QED
      BY <1>4, <2>1, <3>1 DEF RowsAreNumbered
  <2> QED
    BY <2>2, <2>3
<1> QED
  BY <1>6, <1>7 DEF RowsAreNumbered

\* The steps that write one existing row.
LEMMA RewriteMoves ==
  ASSUME Inductive, NEW s \in Slots,
         \/ HinovaMark(s) \/ ResendWrite(s)
         \/ \E p \in PhotoIds : ReprovePhoto(s, p)
         \/ \E p \in PhotoIds : ApprovePhoto(s, p),
         NEW p \in PhotoIds
  PROVE  photo'[p] = photo[p] \/ Rewritten(p)
<1>1. /\ RowsOK /\ photo \in [PhotoIds -> Photo \cup {NoRow}]
      /\ LocalOK(req[s], PhotoRows, uploads)
      /\ req[s] \in Request
  BY InductiveParts DEF RowsOK, RequestOK
<1>2. CASE HinovaMark(s)
  <2>1. PICK a \in req[s].answers, q \in PhotoIds :
          /\ LastOfName(s, a[1], q)
          /\ photo' = [photo EXCEPT ![q] = [@ EXCEPT !.hinova = a[2]]]
    BY <1>2 DEF HinovaMark
  <2>2. q \in PhotoRows /\ photo[q] \in Photo
    BY <1>1, <2>1, PhotoRowTyped DEF LastOfName, LocalOK
  <2>3. a[2] \in {"Inserido", "Recusado"}
    BY <1>1 DEF Request
  <2>4. CASE p = q
    <3>1. photo'[p] = [photo[p] EXCEPT !.hinova = a[2]]
      BY <1>1, <2>1, <2>4
    <3>2. /\ photo'[p] \in Photo /\ photo'[p].name = photo[p].name
          /\ photo'[p].reinspection = photo[p].reinspection
          /\ photo'[p].image = photo[p].image
          /\ photo'[p].status = photo[p].status /\ photo'[p].hinova = a[2]
      BY <2>2, <2>3, <2>4, <3>1 DEF Photo
    <3> QED
      BY <1>2, <2>1, <2>2, <2>4, <3>2 DEF Rewritten, Marked
  <2> QED
    BY <1>1, <2>1, <2>4
<1>3. CASE ResendWrite(s)
  <2>1. req[s].target \in PhotoRows /\ req[s].image \in 1..uploads
    BY <1>1, <1>3 DEF ResendWrite, LocalOK, OnPhoto
  <2>2. photo[req[s].target] \in Photo
    BY <1>1, <2>1, PhotoRowTyped
  <2>3. PICK new \in Images : new = req[s].image
    BY <1>1, <2>1, ReinspectionAssumption DEF Images, RowsOK
  <2>4. CASE p = req[s].target
    <3>1. photo'[p] = [photo[p] EXCEPT !.image = new, !.status = "PENDENTE",
                                       !.hinova = "null"]
      BY <1>1, <1>3, <2>3, <2>4 DEF ResendWrite, ResentPhoto
    <3>2. /\ photo'[p] \in Photo /\ photo'[p].name = photo[p].name
          /\ photo'[p].reinspection = photo[p].reinspection
          /\ photo'[p].hinova = "null"
      BY <2>2, <2>3, <2>4, <3>1 DEF Photo, PhotoStatus
    <3> QED
      BY <1>3, <2>2, <2>4, <3>2 DEF Rewritten, Resent
  <2>5. CASE p # req[s].target
    BY <1>1, <1>3, <2>5 DEF ResendWrite
  <2> QED
    BY <2>4, <2>5
<1>4. ASSUME NEW q \in PhotoIds, ReprovePhoto(s, q) \/ ApprovePhoto(s, q)
      PROVE  photo'[p] = photo[p] \/ Rewritten(p)
  <2>1. q \in PhotoRows /\ photo[q] \in Photo
    BY <1>1, <1>4, PhotoRowTyped DEF ReprovePhoto, ApprovePhoto
  <2>2. PICK v \in PhotoStatus :
          /\ photo' = [photo EXCEPT ![q] = [@ EXCEPT !.status = v]]
          /\ \/ ReprovePhoto(s, q) /\ v = "REPROVADA"
             \/ ApprovePhoto(s, q) /\ v = "APROVADA"
    BY <1>4 DEF ReprovePhoto, ApprovePhoto, PhotoStatus
  <2>3. CASE p = q
    <3>1. photo'[p] = [photo[p] EXCEPT !.status = v]
      BY <1>1, <2>2, <2>3
    <3>2. /\ photo'[p] \in Photo /\ photo'[p].name = photo[p].name
          /\ photo'[p].reinspection = photo[p].reinspection
          /\ photo'[p].image = photo[p].image
          /\ photo'[p].hinova = photo[p].hinova /\ photo'[p].status = v
      BY <2>1, <2>3, <3>1 DEF Photo
    <3> QED
      BY <2>1, <2>2, <2>3, <3>2 DEF Rewritten, Judged
  <2> QED
    BY <1>1, <2>2, <2>3
<1> QED
  BY <1>2, <1>3, <1>4

\* Every step, photo by photo; rows stay numbered in sequence.
LEMMA PhotoMoves ==
  ASSUME Inductive, RowsAreNumbered, [Next]_vars
  PROVE  /\ \A p \in PhotoIds :
              photo'[p] = photo[p] \/ Inserted(p) \/ Rewritten(p)
         /\ RowsAreNumbered'
<1>1. ASSUME NEW s \in Slots,
             \/ HinovaMark(s) \/ ResendWrite(s)
             \/ \E p \in PhotoIds : ReprovePhoto(s, p)
             \/ \E p \in PhotoIds : ApprovePhoto(s, p)
      PROVE  /\ \A p \in PhotoIds : photo'[p] = photo[p] \/ Rewritten(p)
             /\ nextPhoto' = nextPhoto
  BY <1>1, RewriteMoves
  DEF HinovaMark, ResendWrite, ReprovePhoto, ApprovePhoto
<1>2. ASSUME nextPhoto' = nextPhoto,
             \A p \in PhotoIds : photo'[p] = photo[p] \/ Rewritten(p)
      PROVE  RowsAreNumbered'
  <2>1. \A p \in PhotoIds : Rewritten(p) => photo[p] # NoRow
    BY DEF Rewritten, Photo, NoRow
  <2> QED
    BY <1>2, <2>1 DEF RowsAreNumbered, PhotoRows
<1>3. \/ \E s \in Slots : \/ HinovaMark(s) \/ ResendWrite(s)
                          \/ \E p \in PhotoIds : ReprovePhoto(s, p)
                          \/ \E p \in PhotoIds : ApprovePhoto(s, p)
      \/ \E s \in Slots : AddPhotosInsert(s)
      \/ UNCHANGED <<photo, nextPhoto>>
  BY ZenonT(40) DEF Next, vars, ReadOnly, Create, AddPhotosCheck, AddPhotosUpload,
         UpdateStatusRead, FinalizeRead, StatusRead, StatusWrite, ApproveRead,
         ApproveCheck, ApproveWrite, HinovaRead, HinovaPost, HinovaEnd,
         HinovaError, ApproveBoleto, ResendRead, ResendUpload, ResendMail,
         ApprovePhotoWrite, Abort, UploadFails, InsertBeyondBound
<1>4. ASSUME UNCHANGED <<photo, nextPhoto>>
      PROVE  \A p \in PhotoIds : photo'[p] = photo[p]
  BY <1>4
<1> QED
  BY <1>1, <1>2, <1>3, <1>4, InsertMoves

\* What a step makes of the request in slot t: it ends, or a handler the slot
\* serves enters its first await, or it goes on with what it has read, or it is
\* in the middle of the call to Hinova.
Entries == {<<"addPhotos", "addUpload">>, <<"updateStatus", "statusWrite">>,
            <<"finalize", "statusWrite">>, <<"approve", "approveCheck">>,
            <<"resendPhoto", "resendUpload">>,
            <<"approvePhoto", "approvePhotoWrite">>}

Edges == {<<"addUpload", "addInsert">>, <<"approveCheck", "approveWrite">>,
          <<"approveWrite", "hinovaRead">>, <<"hinovaRead", "boleto">>,
          <<"hinovaPost", "boleto">>, <<"hinovaMark", "boleto">>,
          <<"resendUpload", "resendWrite">>, <<"resendWrite", "resendMail">>}

Enters(t) ==
  /\ \E h \in Serves[t] : <<h, req'[t].phase>> \in Entries
  /\ req'[t].payload = {}
  /\ req'[t].phase = "statusWrite" => req'[t].verdict # "REPROVADA"
  /\ req'[t].phase = "approvePhotoWrite" =>
       \E p \in PhotoIds :
         /\ ApprovePhoto(t, p)
         /\ req'[t].target = photo[p].reinspection
         /\ req'[t].verdict = "REPROVADA" =>
              Rejected(photo[p].reinspection) \ {p} # {}

GoesOn(t) ==
  /\ <<req[t].phase, req'[t].phase>> \in Edges
  /\ req'[t].target = req[t].target /\ req'[t].verdict = req[t].verdict
  /\ req'[t].payload = req[t].payload

CallsHinova(t) ==
  /\ req'[t].target = req[t].target
  /\ \/ /\ HinovaRead(t) /\ req'[t].phase = "hinovaPost"
        /\ req'[t].payload =
             {<<p, photo[p].image>> : p \in PhotosOf(req[t].target)}
     \/ /\ HinovaPost(t) /\ req'[t].phase = "hinovaMark"
        /\ req'[t].payload = req[t].payload
        /\ \E inserted \in SUBSET req[t].payload,
              answered \in SUBSET req[t].payload :
             /\ accepted' = accepted \cup inserted
             /\ req'[t].answers = {<<e[1], IF e \in inserted THEN "Inserido"
                                           ELSE "Recusado">> : e \in answered}
     \/ /\ HinovaMark(t) /\ req'[t].phase = "hinovaMark"
        /\ req'[t].payload = req[t].payload
        /\ req'[t].answers \subseteq req[t].answers

Moves(t) == req'[t] = Idle \/ Enters(t) \/ GoesOn(t) \/ CallsHinova(t)

\* A handler that begins.
LEMMA EntryMoves ==
  ASSUME req \in [Slots -> Request], NEW s \in Slots,
         \/ \E r \in ReinspectionIds, b \in Batches : AddPhotosCheck(s, r, b)
         \/ UpdateStatusRead(s) \/ FinalizeRead(s) \/ ApproveRead(s)
         \/ \E p \in PhotoIds : ResendRead(s, p)
         \/ \E p \in PhotoIds : ApprovePhoto(s, p)
  PROVE  Enters(s)
<1>1. ASSUME NEW f, NEW x, NEW b, NEW v, Await(s, At(f, x, b, v))
      PROVE  /\ req'[s].phase = f /\ req'[s].target = x
             /\ req'[s].verdict = v /\ req'[s].payload = {}
  BY <1>1 DEF Await, At
<1>2. ASSUME NEW r \in ReinspectionIds, NEW b \in Batches,
             AddPhotosCheck(s, r, b)
      PROVE  Enters(s)
  <2>1. "addPhotos" \in Serves[s] /\ Await(s, At("addUpload", r, b, "none"))
    BY <1>2 DEF AddPhotosCheck, Receives
  <2> QED
    BY <1>1, <2>1 DEF Enters, Entries
<1>3. ASSUME UpdateStatusRead(s) \/ FinalizeRead(s) PROVE Enters(s)
  <2>1. PICK h \in {"updateStatus", "finalize"}, r \in ReinspectionIds,
             v \in {"EM_ANALISE", "FINALIZADA"} :
          h \in Serves[s] /\ Await(s, At("statusWrite", r, << >>, v))
    BY <1>3
    DEF UpdateStatusRead, FinalizeRead, StatusRead, Receives, Created
  <2> QED
    BY <1>1, <2>1 DEF Enters, Entries
<1>4. ASSUME ApproveRead(s) PROVE Enters(s)
  <2>1. PICK r \in ReinspectionIds :
          "approve" \in Serves[s] /\ Await(s, At("approveCheck", r, << >>, "none"))
    BY <1>4 DEF ApproveRead, Receives, Created
  <2> QED
    BY <1>1, <2>1 DEF Enters, Entries
<1>5. ASSUME NEW p \in PhotoIds, ResendRead(s, p) PROVE Enters(s)
  <2>1. "resendPhoto" \in Serves[s] /\ Await(s, At("resendUpload", p, << >>, "none"))
    BY <1>5 DEF ResendRead, Receives
  <2> QED
    BY <1>1, <2>1 DEF Enters, Entries
<1>6. ASSUME NEW p \in PhotoIds, ApprovePhoto(s, p) PROVE Enters(s)
  <2>1. PICK v :
          /\ v = IF Rejected(photo[p].reinspection) \ {p} # {}
                 THEN "REPROVADA" ELSE "EM_ANALISE"
          /\ Await(s, At("approvePhotoWrite", photo[p].reinspection, << >>, v))
    BY <1>6 DEF ApprovePhoto
  <2>2. "approvePhoto" \in Serves[s]
    BY <1>6 DEF ApprovePhoto, Receives
  <2>3. v = "REPROVADA" => Rejected(photo[p].reinspection) \ {p} # {}
    BY <2>1
  <2> QED
    BY <1>1, <1>6, <2>1, <2>2, <2>3 DEF Enters, Entries
<1> QED
  BY <1>2, <1>3, <1>4, <1>5, <1>6

\* A handler that goes on to its next await.
LEMMA GoingOnMoves ==
  ASSUME req \in [Slots -> Request], NEW s \in Slots,
         \/ AddPhotosUpload(s) \/ ApproveWrite(s) \/ HinovaEnd(s)
         \/ HinovaError(s) \/ ResendUpload(s) \/ ResendWrite(s)
  PROVE  GoesOn(s)
<1>0. req[s] \in Request
  OBVIOUS
<1>1. ASSUME NEW f, <<req[s].phase, f>> \in Edges,
             Await(s, [req[s] EXCEPT !.phase = f])
      PROVE  GoesOn(s)
  <2>1. PICK q : q = [req[s] EXCEPT !.phase = f]
    OBVIOUS
  <2>2. /\ q.phase = f /\ q.target = req[s].target
        /\ q.verdict = req[s].verdict /\ q.payload = req[s].payload
    BY <1>0, <2>1 DEF Request
  <2>3. req'[s] = q
    BY <1>1, <2>1 DEF Await
  <2> QED
    BY <1>1, <2>2, <2>3 DEF GoesOn
<1>2. ASSUME NEW f, NEW i, <<req[s].phase, f>> \in Edges,
             Await(s, [req[s] EXCEPT !.phase = f, !.image = i])
      PROVE  GoesOn(s)
  <2>1. PICK q : q = [req[s] EXCEPT !.phase = f, !.image = i]
    OBVIOUS
  <2>2. /\ q.phase = f /\ q.target = req[s].target
        /\ q.verdict = req[s].verdict /\ q.payload = req[s].payload
    BY <1>0, <2>1 DEF Request
  <2>3. req'[s] = q
    BY <1>2, <2>1 DEF Await
  <2> QED
    BY <1>2, <2>2, <2>3 DEF GoesOn
<1>3. ASSUME ApproveWrite(s) \/ HinovaEnd(s) \/ HinovaError(s) \/ ResendWrite(s)
      PROVE  GoesOn(s)
  <2>1. PICK f \in {"hinovaRead", "boleto", "resendMail"} :
          /\ Await(s, [req[s] EXCEPT !.phase = f])
          /\ <<req[s].phase, f>> \in Edges
    BY <1>3 DEF ApproveWrite, HinovaEnd, HinovaError, ResendWrite, Edges
  <2> QED
    BY <1>1, <2>1
<1>4. ASSUME AddPhotosUpload(s) PROVE GoesOn(s)
  <2>1. req[s].phase = "addUpload"
    BY <1>4 DEF AddPhotosUpload
  <2>2. Await(s, [req[s] EXCEPT !.phase = "addInsert", !.image = uploads + 1])
    BY <1>4, Zenon DEF AddPhotosUpload
  <2>3. <<req[s].phase, "addInsert">> \in Edges
    BY <2>1 DEF Edges
  <2> QED
    BY <1>2, <2>2, <2>3
<1>5. ASSUME ResendUpload(s) PROVE GoesOn(s)
  <2>1. req[s].phase = "resendUpload"
    BY <1>5 DEF ResendUpload
  <2>2. Await(s, [req[s] EXCEPT !.phase = "resendWrite", !.image = uploads + 1])
    BY <1>5, Zenon DEF ResendUpload
  <2>3. <<req[s].phase, "resendWrite">> \in Edges
    BY <2>1 DEF Edges
  <2> QED
    BY <1>2, <2>2, <2>3
<1> QED
  BY <1>3, <1>4, <1>5

\* The three awaits of sendReinspectionToHinova.
LEMMA HinovaMoves ==
  ASSUME req \in [Slots -> Request], NEW s \in Slots,
         HinovaRead(s) \/ HinovaPost(s) \/ HinovaMark(s)
  PROVE  CallsHinova(s)
<1>0. req[s] \in Request
  OBVIOUS
<1>1. CASE HinovaRead(s)
  <2> DEFINE sent == {<<p, photo[p].image>> : p \in PhotosOf(req[s].target)}
  <2>1. PICK x : x = sent
    OBVIOUS
  <2>2. Await(s, [req[s] EXCEPT !.phase = "hinovaPost", !.payload = x])
    BY <1>1, <2>1 DEF HinovaRead
  <2>3. PICK q : q = [req[s] EXCEPT !.phase = "hinovaPost", !.payload = x]
    OBVIOUS
  <2>4. /\ q.phase = "hinovaPost" /\ q.target = req[s].target
        /\ q.payload = x
    BY <1>0, <2>3 DEF Request
  <2>5. req'[s] = q
    BY <2>2, <2>3 DEF Await
  <2> QED
    BY <1>1, <2>1, <2>4, <2>5 DEF CallsHinova
<1>2. CASE HinovaPost(s)
  <2>0. PICK inserted \in SUBSET req[s].payload,
             answered \in SUBSET req[s].payload :
          /\ accepted' = accepted \cup inserted
          /\ Await(s, [req[s] EXCEPT
               !.phase = "hinovaMark",
               !.answers = {<<e[1], IF e \in inserted THEN "Inserido"
                                    ELSE "Recusado">> : e \in answered}])
    BY <1>2 DEF HinovaPost
  <2>1. PICK x :
          /\ x = {<<e[1], IF e \in inserted THEN "Inserido"
                          ELSE "Recusado">> : e \in answered}
          /\ Await(s, [req[s] EXCEPT !.phase = "hinovaMark", !.answers = x])
    BY <2>0
  <2>2. PICK q : q = [req[s] EXCEPT !.phase = "hinovaMark", !.answers = x]
    OBVIOUS
  <2>3. /\ q.phase = "hinovaMark" /\ q.target = req[s].target
        /\ q.payload = req[s].payload /\ q.answers = x
    BY <1>0, <2>2 DEF Request
  <2>4. req'[s] = q
    BY <2>1, <2>2 DEF Await
  <2> QED
    BY <1>2, <2>0, <2>1, <2>3, <2>4 DEF CallsHinova
<1>3. CASE HinovaMark(s)
  <2>1. PICK a \in req[s].answers :
          Await(s, [req[s] EXCEPT !.answers = @ \ {a}])
    BY <1>3 DEF HinovaMark
  <2>2. PICK q : q = [req[s] EXCEPT !.answers = @ \ {a}]
    OBVIOUS
  <2>3. /\ q.phase = "hinovaMark" /\ q.target = req[s].target
        /\ q.payload = req[s].payload /\ q.answers \subseteq req[s].answers
    BY <1>0, <1>3, <2>2 DEF Request, HinovaMark
  <2>4. req'[s] = q
    BY <2>1, <2>2 DEF Await
  <2> QED
    BY <1>3, <2>3, <2>4 DEF CallsHinova
<1> QED
  BY <1>1, <1>2, <1>3

\* Every step moves the request of one slot at most.
LEMMA RequestMoves ==
  ASSUME req \in [Slots -> Request], [Next]_vars, NEW t \in Slots
  PROVE  req'[t] = req[t] \/ Moves(t)
<1>1. ASSUME NEW s \in Slots,
             \/ AddPhotosInsert(s) \/ StatusWrite(s) \/ ApproveBoleto(s)
             \/ ResendMail(s) \/ ApprovePhotoWrite(s) \/ Abort(s)
             \/ UploadFails(s) \/ InsertBeyondBound(s) \/ ApproveCheck(s)
      PROVE  Done(s) \/ ApproveCheck(s)
  BY <1>1 DEF AddPhotosInsert, StatusWrite, ApproveBoleto, ResendMail,
              ApprovePhotoWrite, Abort, UploadFails, InsertBeyondBound
<1>2. ASSUME NEW s \in Slots, ApproveCheck(s)
      PROVE  Done(s) \/ GoesOn(s)
  <2>1. \/ Done(s)
        \/ Await(s, [req[s] EXCEPT !.phase = "approveWrite"])
    BY <1>2 DEF ApproveCheck
  <2>2. PICK q : q = [req[s] EXCEPT !.phase = "approveWrite"]
    OBVIOUS
  <2>3. /\ q.phase = "approveWrite" /\ q.target = req[s].target
        /\ q.verdict = req[s].verdict /\ q.payload = req[s].payload
    BY <2>2 DEF Request
  <2>4. Await(s, q) => req'[s] = q
    BY DEF Await
  <2>5. req[s].phase = "approveCheck"
    BY <1>2 DEF ApproveCheck
  <2> QED
    BY <2>1, <2>2, <2>3, <2>4, <2>5 DEF GoesOn, Edges
<1>3. ASSUME NEW s \in Slots, Done(s) PROVE Moves(s)
  BY <1>3 DEF Done, Await, Idle, At, Moves
<1>4. ASSUME NEW s \in Slots, NEW r, Await(s, r), s # t
      PROVE  req'[t] = req[t]
  BY <1>4 DEF Await
<1>5. PICK s \in Slots :
        \/ UNCHANGED req
        \/ (\E r : Await(s, r)) /\ Moves(s)
  <2>1. CASE Next
    <3>1. PICK s \in Slots :
          \/ Create(s)
          \/ \E r \in ReinspectionIds, b \in Batches : AddPhotosCheck(s, r, b)
          \/ AddPhotosUpload(s) \/ AddPhotosInsert(s)
          \/ UpdateStatusRead(s) \/ FinalizeRead(s) \/ StatusWrite(s)
          \/ ApproveRead(s) \/ ApproveCheck(s) \/ ApproveWrite(s)
          \/ HinovaRead(s) \/ HinovaPost(s) \/ HinovaMark(s) \/ HinovaEnd(s)
          \/ HinovaError(s) \/ ApproveBoleto(s)
          \/ \E p \in PhotoIds : ResendRead(s, p)
          \/ ResendUpload(s) \/ ResendWrite(s) \/ ResendMail(s)
          \/ \E p \in PhotoIds : ReprovePhoto(s, p)
          \/ \E p \in PhotoIds : ApprovePhoto(s, p)
          \/ ApprovePhotoWrite(s)
          \/ Abort(s)
          \/ UploadFails(s) \/ InsertBeyondBound(s)
      BY <2>1 DEF Next
    <3>2. UNCHANGED req \/ Moves(s)
      <4>1. ASSUME Create(s) \/ \E p \in PhotoIds : ReprovePhoto(s, p)
            PROVE  UNCHANGED req
        BY <4>1 DEF Create, ReprovePhoto
      <4> QED
        BY <1>1, <1>2, <1>3, <3>1, <4>1, EntryMoves, GoingOnMoves, HinovaMoves
        DEF Moves
    <3>3. UNCHANGED req \/ \E r : Await(s, r)
      BY <3>1
      DEF Done, Create, AddPhotosCheck, AddPhotosUpload, AddPhotosInsert,
         UpdateStatusRead, FinalizeRead, StatusRead, StatusWrite, ApproveRead,
         ApproveCheck, ApproveWrite, HinovaRead, HinovaPost, HinovaMark,
         HinovaEnd, HinovaError, ApproveBoleto, ResendRead, ResendUpload,
         ResendWrite, ResendMail, ReprovePhoto, ApprovePhoto,
         ApprovePhotoWrite, Abort, UploadFails, InsertBeyondBound
    <3> QED
      BY <3>2, <3>3
  <2>2. CASE UNCHANGED vars
    BY <2>2 DEF vars
  <2> QED
    BY <2>1, <2>2
<1> QED
  BY <1>4, <1>5

\* Rows, their names and their reinspections, and what Hinova inserted, stay.
LEMMA NamesStay ==
  ASSUME Inductive, RowsAreNumbered, [Next]_vars
  PROVE  /\ \A p \in PhotoRows :
              /\ p \in PhotoRows' /\ photo'[p].name = photo[p].name
              /\ photo'[p].reinspection = photo[p].reinspection
         /\ accepted \subseteq accepted'
<1>1. ASSUME NEW p \in PhotoRows
      PROVE  /\ p \in PhotoRows' /\ photo'[p].name = photo[p].name
             /\ photo'[p].reinspection = photo[p].reinspection
  <2>1. p \in PhotoIds /\ photo[p] # NoRow
    BY DEF PhotoRows
  <2>2. photo'[p] = photo[p] \/ Rewritten(p)
    BY <2>1, PhotoMoves DEF Inserted
  <2>3. \A row \in Photo : row # NoRow
    BY DEF Photo, NoRow
  <2> QED
    BY <2>1, <2>2, <2>3 DEF Rewritten, PhotoRows
<1>2. accepted \subseteq accepted'
  BY ZenonT(40) DEF Next, vars, ReadOnly, Create, AddPhotosCheck, AddPhotosUpload,
         AddPhotosInsert, UpdateStatusRead, FinalizeRead, StatusRead,
         StatusWrite, ApproveRead, ApproveCheck, ApproveWrite, HinovaRead,
         HinovaPost, HinovaMark, HinovaEnd, HinovaError, ApproveBoleto,
         ResendRead, ResendUpload, ResendWrite, ResendMail, ReprovePhoto,
         ApprovePhoto, ApprovePhotoWrite, Abort, UploadFails,
         InsertBeyondBound
<1> QED
  BY <1>1, <1>2

\* An insertion under a photo's name is never forgotten.
LEMMA InsertedNameStays ==
  ASSUME Inductive, AnswersAreReal, [Next]_vars, NEW p \in PhotoRows,
         InsertedName(p)
  PROVE  \E e \in accepted' :
           /\ photo'[e[1]].name = photo'[p].name
           /\ photo'[e[1]].reinspection = photo'[p].reinspection
<1>1. PICK e \in accepted : /\ photo[e[1]].name = photo[p].name
                            /\ photo[e[1]].reinspection = photo[p].reinspection
  BY DEF InsertedName
<1>2. e[1] \in PhotoRows /\ RowsAreNumbered
  BY DEF AnswersAreReal
<1>3. e \in accepted'
  BY <1>2, NamesStay
<1> QED
  BY <1>1, <1>2, <1>3, NamesStay

\* What a photo gets written of Hinova's answers is true of its name.
LEMMA MarkedNameIsReal ==
  ASSUME Inductive, AnswersAreReal, NEW p \in PhotoIds, NEW s \in Slots,
         NEW a \in req[s].answers, HinovaMark(s), LastOfName(s, a[1], p),
         a[2] = "Inserido"
  PROVE  p \in PhotoRows /\ InsertedName(p)
<1>1. LocalOK(req[s], PhotoRows, uploads) /\ AnswersOK(s)
  BY DEF Inductive, RequestOK, AnswersAreReal
<1>2. /\ \E e \in req[s].payload : e[1] = a[1]
      /\ InsertedName(a[1])
  BY <1>1 DEF AnswersOK, HinovaMark
<1>3. \E f \in req[s].payload : f[1] = p /\ photo[p].name = photo[a[1]].name
  BY DEF LastOfName
<1>4. photo[p].reinspection = photo[a[1]].reinspection
  BY <1>1, <1>2, <1>3 DEF AnswersOK
<1>5. p \in PhotoRows
  BY <1>1, <1>3 DEF LocalOK
<1> QED
  BY <1>2, <1>3, <1>4, <1>5 DEF InsertedName

\* sentToHinova stays true of the photo's name.
LEMMA SentNamesStep ==
  ASSUME Inductive, AnswersAreReal, [Next]_vars
  PROVE  SentNameWasInserted'
<1> SUFFICES ASSUME NEW p \in PhotoRows', photo'[p].hinova = "Inserido"
             PROVE  \E e \in accepted' :
                      /\ photo'[e[1]].name = photo'[p].name
                      /\ photo'[e[1]].reinspection = photo'[p].reinspection
  BY DEF SentNameWasInserted, InsertedName
<1>1. RowsAreNumbered /\ p \in PhotoIds /\ photo'[p] # NoRow
  BY DEF AnswersAreReal, PhotoRows
<1>2. p \in PhotoRows /\ InsertedName(p)
  <2>1. CASE photo'[p] = photo[p]
    BY <1>1, <2>1 DEF PhotoRows, AnswersAreReal, SentNameWasInserted
  <2>2. CASE Rewritten(p)
    <3>1. p \in PhotoRows
      BY <1>1, <2>2 DEF Rewritten, PhotoRows, Photo, NoRow
    <3>2. CASE photo'[p].hinova = photo[p].hinova
      BY <3>1, <3>2 DEF AnswersAreReal, SentNameWasInserted
    <3>3. CASE Marked(p)
      BY <1>1, <3>3, MarkedNameIsReal DEF Marked
    <3> QED
      BY <2>2, <3>2, <3>3 DEF Rewritten, Resent, Judged
  <2>3. ~Inserted(p)
    BY DEF Inserted
  <2> QED
    BY <1>1, <2>1, <2>2, <2>3, PhotoMoves
<1> QED
  BY <1>2, InsertedNameStays

\* What a request holds of Hinova stays about photos of its reinspection.
LEMMA AnswersStep ==
  ASSUME Inductive, AnswersAreReal, [Next]_vars, NEW t \in Slots
  PROVE  AnswersOK(t)'
<1>1. /\ req \in [Slots -> Request] /\ LocalOK(req[t], PhotoRows, uploads)
      /\ RowsAreNumbered /\ AnswersOK(t)
  BY DEF Inductive, TypeOK, RequestOK, AnswersAreReal
<1>2. \A e \in req[t].payload :
        photo'[e[1]].reinspection = photo[e[1]].reinspection
  BY <1>1, NamesStay DEF LocalOK
<1>3. ASSUME req[t].phase = "hinovaMark", NEW a \in req[t].answers
      PROVE  /\ \E e \in req[t].payload : e[1] = a[1]
             /\ a[2] = "Inserido" =>
                  \E e \in accepted' :
                    /\ photo'[e[1]].name = photo'[a[1]].name
                    /\ photo'[e[1]].reinspection = photo'[a[1]].reinspection
  BY <1>1, <1>3, InsertedNameStays DEF AnswersOK, LocalOK
<1>4. ASSUME req'[t].payload = req[t].payload, req'[t].target = req[t].target,
             req'[t].phase = "hinovaMark" =>
               /\ req[t].phase = "hinovaMark"
               /\ req'[t].answers \subseteq req[t].answers
      PROVE  AnswersOK(t)'
  BY <1>1, <1>2, <1>3, <1>4 DEF AnswersOK, InsertedName
<1>5. CASE req'[t] = req[t]
  BY <1>4, <1>5
<1>6. CASE req'[t] = Idle
  BY <1>6 DEF AnswersOK, Idle, At
<1>7. CASE Enters(t)
  BY <1>7 DEF Enters, Entries, AnswersOK
<1>8. CASE GoesOn(t)
  BY <1>4, <1>8 DEF GoesOn, Edges
<1>9. CASE CallsHinova(t)
  <2>1. CASE HinovaRead(t) /\ req'[t].phase = "hinovaPost"
    <3>1. photo' = photo /\ req'[t].target = req[t].target
      BY <1>9, <2>1 DEF HinovaRead, ReadOnly, CallsHinova
    <3>2. \A e \in req'[t].payload : photo[e[1]].reinspection = req[t].target
      BY <1>9, <2>1 DEF CallsHinova, PhotosOf, HinovaPost, HinovaMark, HinovaRead
    <3> QED
      BY <2>1, <3>1, <3>2 DEF AnswersOK
  <2>2. CASE HinovaPost(t) /\ req'[t].phase = "hinovaMark"
    <3>1. PICK inserted \in SUBSET req[t].payload,
               answered \in SUBSET req[t].payload :
            /\ accepted' = accepted \cup inserted
            /\ req'[t].answers = {<<e[1], IF e \in inserted THEN "Inserido"
                                          ELSE "Recusado">> : e \in answered}
            /\ req'[t].payload = req[t].payload
            /\ req'[t].target = req[t].target
      BY <1>9, <2>2 DEF CallsHinova, HinovaRead, HinovaPost, HinovaMark
    <3>2. photo' = photo
      BY <2>2 DEF HinovaPost
    <3>3. ASSUME NEW a \in req'[t].answers
          PROVE  /\ \E e \in req[t].payload : e[1] = a[1]
                 /\ a[2] = "Inserido" => \E e \in accepted' : e[1] = a[1]
      BY <3>1
    <3> QED
      BY <1>1, <3>1, <3>2, <3>3 DEF AnswersOK, InsertedName
  <2>3. CASE HinovaMark(t)
    <3>1. /\ req'[t].payload = req[t].payload
          /\ req'[t].target = req[t].target
          /\ req[t].phase = "hinovaMark"
          /\ req'[t].answers \subseteq req[t].answers
      BY <1>9, <2>3 DEF CallsHinova, HinovaRead, HinovaPost, HinovaMark
    <3> QED
      BY <1>4, <3>1
  <2> QED
    BY <1>9, <2>1, <2>2, <2>3 DEF CallsHinova
<1> QED
  BY <1>1, <1>5, <1>6, <1>7, <1>8, <1>9, RequestMoves DEF Moves

\* Hinova only inserts photos of the payload it is sent.
LEMMA AcceptedStep ==
  ASSUME Inductive, AnswersAreReal, [Next]_vars
  PROVE  \A e \in accepted' : e[1] \in PhotoRows'
<1>1. RowsAreNumbered /\ \A e \in accepted : e[1] \in PhotoRows
  BY DEF AnswersAreReal
<1>2. \A s \in Slots : \A e \in req[s].payload : e[1] \in PhotoRows
  BY DEF Inductive, RequestOK, LocalOK
<1>3. \/ accepted' = accepted
      \/ \E s \in Slots : \E inserted \in SUBSET req[s].payload :
           accepted' = accepted \cup inserted
  BY ZenonT(40) DEF Next, vars, ReadOnly, Create, AddPhotosCheck, AddPhotosUpload,
         AddPhotosInsert, UpdateStatusRead, FinalizeRead, StatusRead,
         StatusWrite, ApproveRead, ApproveCheck, ApproveWrite, HinovaRead,
         HinovaPost, HinovaMark, HinovaEnd, HinovaError, ApproveBoleto,
         ResendRead, ResendUpload, ResendWrite, ResendMail, ReprovePhoto,
         ApprovePhoto, ApprovePhotoWrite, Abort, UploadFails,
         InsertBeyondBound
<1>4. \A e \in accepted' : e[1] \in PhotoRows
  BY <1>1, <1>2, <1>3
<1> QED
  BY <1>1, <1>4, NamesStay

\* Whoever runs beside the approval and wherever a request dies: a photo is
\* only marked as sent when Hinova inserted an image under its name.
THEOREM SentNamesAreReal == Spec => []SentNameWasInserted
<1>1. Init => AnswersAreReal
  BY DEF Init, AnswersAreReal, RowsAreNumbered, SentNameWasInserted, AnswersOK,
         PhotoRows, Idle, At
<1>2. Inductive /\ AnswersAreReal /\ [Next]_vars => AnswersAreReal'
  <2> SUFFICES ASSUME Inductive, AnswersAreReal, [Next]_vars
               PROVE  AnswersAreReal'
    OBVIOUS
  <2>1. RowsAreNumbered'
    BY PhotoMoves DEF AnswersAreReal
  <2> QED
    BY <2>1, SentNamesStep, AnswersStep, AcceptedStep DEF AnswersAreReal
<1>3. AnswersAreReal => SentNameWasInserted
  BY DEF AnswersAreReal
<1> QED
  BY <1>1, <1>2, <1>3, InitInductive, StepInductive, PTL DEF Spec

-----------------------------------------------------------------------------
(* The image Hinova inserted is the one the row shows.                     *)

\* Each slot only runs the handlers it serves.
LEMMA ServesStep ==
  ASSUME Inductive, [Next]_vars, NEW t \in Slots, ServesOK(t)
  PROVE  ServesOK(t)'
<1>1. req \in [Slots -> Request]
  BY DEF Inductive, TypeOK
<1>2. CASE req'[t] = req[t]
  BY <1>2 DEF ServesOK
<1>3. CASE req'[t] = Idle
  BY <1>3 DEF ServesOK, Idle, At
<1>4. CASE Enters(t)
  BY <1>4 DEF Enters, Entries, ServesOK
<1>5. CASE GoesOn(t)
  BY <1>5 DEF GoesOn, Edges, ServesOK
<1>6. CASE CallsHinova(t)
  BY <1>6 DEF CallsHinova, HinovaRead, HinovaPost, HinovaMark, ServesOK
<1> QED
  BY <1>1, <1>2, <1>3, <1>4, <1>5, <1>6, RequestMoves DEF Moves

\* While a slot is in the call to Hinova no other slot replaces an image.
LEMMA ImagesStay ==
  ASSUME NoResendBesideApproval, Inductive, RowsAreNumbered, [Next]_vars,
         \A s \in Slots : ServesOK(s), NEW t \in Slots,
         req[t].phase \in {"hinovaPost", "hinovaMark"}, NEW p \in PhotoRows
  PROVE  photo'[p].image = photo[p].image
<1>1. p \in PhotoIds /\ photo[p] # NoRow
  BY DEF PhotoRows
<1>2. ASSUME NEW s \in Slots, ResendWrite(s) PROVE FALSE
  <2>1. req[s].phase = "resendWrite"
    BY <1>2 DEF ResendWrite
  <2>2. s = t
    BY <2>1 DEF ServesOK, NoResendBesideApproval
  <2> QED
    BY <2>1, <2>2
<1> QED
  BY <1>1, <1>2, PhotoMoves DEF Inserted, Rewritten, Marked, Resent, Judged

\* The images a request sent stay the ones the rows show until it has written
\* the answers back.
LEMMA PayloadStep ==
  ASSUME NoResendBesideApproval, Inductive, AnswersAreReal, ImagesAreReal,
         [Next]_vars, NEW t \in Slots
  PROVE  PayloadIsFresh(t)'
<1>1. /\ req \in [Slots -> Request] /\ LocalOK(req[t], PhotoRows, uploads)
      /\ RowsAreNumbered /\ AnswersOK(t) /\ PayloadIsFresh(t)
      /\ \A s \in Slots : ServesOK(s)
  BY DEF Inductive, TypeOK, RequestOK, AnswersAreReal, ImagesAreReal
<1>2. accepted \subseteq accepted'
  BY <1>1, NamesStay
<1>3. ASSUME req[t].phase \in {"hinovaPost", "hinovaMark"}
      PROVE  \A e \in req[t].payload : photo'[e[1]].image = photo[e[1]].image
  BY <1>1, <1>3, ImagesStay DEF LocalOK
<1>4. ASSUME req[t].phase = "hinovaMark", NEW a \in req[t].answers,
             a[2] = "Inserido"
      PROVE  <<a[1], photo'[a[1]].image>> \in accepted'
  <2>1. <<a[1], photo[a[1]].image>> \in accepted
    BY <1>1, <1>4 DEF PayloadIsFresh
  <2>2. photo'[a[1]].image = photo[a[1]].image
    BY <1>1, <1>3, <1>4 DEF AnswersOK
  <2> QED
    BY <1>2, <2>1, <2>2
<1>5. CASE req'[t] = req[t]
  BY <1>1, <1>3, <1>4, <1>5 DEF PayloadIsFresh
<1>6. CASE req'[t] = Idle
  BY <1>6 DEF PayloadIsFresh, Idle, At
<1>7. CASE Enters(t)
  BY <1>7 DEF Enters, Entries, PayloadIsFresh
<1>8. CASE GoesOn(t)
  BY <1>8 DEF GoesOn, Edges, PayloadIsFresh
<1>9. CASE CallsHinova(t)
  <2>1. CASE HinovaRead(t) /\ req'[t].phase = "hinovaPost"
    <3>1. photo' = photo
      BY <2>1 DEF HinovaRead, ReadOnly
    <3>2. \A e \in req'[t].payload : photo[e[1]].image = e[2]
      BY <1>9, <2>1 DEF CallsHinova, HinovaPost, HinovaMark, HinovaRead
    <3> QED
      BY <2>1, <3>1, <3>2 DEF PayloadIsFresh
  <2>2. CASE HinovaPost(t) /\ req'[t].phase = "hinovaMark"
    <3>1. PICK inserted \in SUBSET req[t].payload,
               answered \in SUBSET req[t].payload :
            /\ accepted' = accepted \cup inserted
            /\ req'[t].answers = {<<e[1], IF e \in inserted THEN "Inserido"
                                          ELSE "Recusado">> : e \in answered}
      BY <1>9, <2>2 DEF CallsHinova, HinovaRead, HinovaPost, HinovaMark
    <3>2. photo' = photo /\ req[t].phase = "hinovaPost"
      BY <2>2 DEF HinovaPost
    <3>3. req[t] \in Request
      BY <1>1
    <3>4. \A e \in req[t].payload :
            e = <<e[1], photo[e[1]].image>>
      BY <1>1, <3>2, <3>3 DEF PayloadIsFresh, Request
    <3>5. ASSUME NEW a \in req'[t].answers, a[2] = "Inserido"
          PROVE  <<a[1], photo[a[1]].image>> \in accepted'
      <4>1. PICK e \in inserted : a[1] = e[1]
        BY <3>1, <3>5
      <4>2. e = <<a[1], photo[a[1]].image>>
        BY <3>4, <4>1
      <4> QED
        BY <3>1, <4>1, <4>2
    <3> QED
      BY <2>2, <3>2, <3>5 DEF PayloadIsFresh
  <2>3. CASE HinovaMark(t)
    <3>1. /\ req'[t].phase = "hinovaMark" /\ req[t].phase = "hinovaMark"
          /\ req'[t].answers \subseteq req[t].answers
      BY <1>9, <2>3 DEF CallsHinova, HinovaRead, HinovaPost, HinovaMark
    <3> QED
      BY <1>4, <3>1 DEF PayloadIsFresh
  <2> QED
    BY <1>9, <2>1, <2>2, <2>3 DEF CallsHinova
<1> QED
  BY <1>1, <1>5, <1>6, <1>7, <1>8, <1>9, RequestMoves DEF Moves

\* A photo alone under its name gets the answer about its own image.
LEMMA SentImagesStep ==
  ASSUME NoResendBesideApproval, Inductive, AnswersAreReal, ImagesAreReal,
         [Next]_vars
  PROVE  SentImageWasInserted'
<1> SUFFICES ASSUME NEW p \in PhotoRows', photo'[p].hinova = "Inserido",
                    \A q \in PhotoRows' :
                      /\ photo'[q].reinspection = photo'[p].reinspection
                      /\ photo'[q].name = photo'[p].name
                      => q = p
             PROVE  <<p, photo'[p].image>> \in accepted'
  BY DEF SentImageWasInserted, PhotosOf
<1>1. /\ RowsAreNumbered /\ p \in PhotoIds /\ photo'[p] # NoRow
      /\ SentImageWasInserted /\ \A s \in Slots : AnswersOK(s) /\ PayloadIsFresh(s)
      /\ \A s \in Slots : LocalOK(req[s], PhotoRows, uploads)
  BY DEF AnswersAreReal, ImagesAreReal, PhotoRows, Inductive, RequestOK
<1>2. p \in PhotoRows
  BY <1>1, PhotoMoves DEF Inserted, Rewritten, PhotoRows, Photo, NoRow
<1>3. \A q \in PhotoRows : /\ photo[q].reinspection = photo[p].reinspection
                           /\ photo[q].name = photo[p].name
                           => q = p
  BY <1>1, <1>2, NamesStay
<1>4. accepted \subseteq accepted'
  BY <1>1, NamesStay
<1>5. ASSUME photo'[p].hinova = photo[p].hinova,
             photo'[p].image = photo[p].image
      PROVE  <<p, photo'[p].image>> \in accepted'
  <2>1. <<p, photo[p].image>> \in accepted
    BY <1>1, <1>2, <1>3, <1>5 DEF SentImageWasInserted, PhotosOf
  <2> QED
    BY <1>4, <1>5, <2>1
<1>6. ASSUME NEW s \in Slots, NEW a \in req[s].answers, HinovaMark(s),
             LastOfName(s, a[1], p), a[2] = "Inserido",
             photo'[p].image = photo[p].image
      PROVE  <<p, photo'[p].image>> \in accepted'
  <2>1. req[s].phase = "hinovaMark"
    BY <1>6 DEF HinovaMark
  <2>2. PICK e \in req[s].payload : e[1] = a[1]
    BY <1>1, <1>6, <2>1 DEF AnswersOK
  <2>3. PICK f \in req[s].payload : f[1] = p /\ photo[p].name = photo[a[1]].name
    BY <1>6 DEF LastOfName
  <2>4. photo[p].reinspection = photo[a[1]].reinspection
    BY <1>1, <2>2, <2>3 DEF AnswersOK
  <2>5. a[1] = p
    BY <1>1, <1>3, <2>2, <2>3, <2>4 DEF LocalOK
  <2>6. <<a[1], photo[a[1]].image>> \in accepted
    BY <1>1, <1>6, <2>1 DEF PayloadIsFresh
  <2> QED
    BY <1>4, <1>6, <2>5, <2>6
<1>7. CASE photo'[p] = photo[p]
  BY <1>5, <1>7
<1>8. CASE Rewritten(p)
  <2>1. CASE Marked(p)
    BY <1>6, <2>1 DEF Marked
  <2>2. CASE Judged(p)
    BY <1>5, <2>2 DEF Judged
  <2> QED
    BY <1>8, <2>1, <2>2 DEF Rewritten, Resent
<1>9. ~Inserted(p)
  BY DEF Inserted
<1> QED
  BY <1>1, <1>7, <1>8, <1>9, PhotoMoves

\* When no photo is resent beside an approval, a photo marked as sent whose
\* name is its own shows the very image Hinova inserted, whoever else runs and
\* wherever requests die.
THEOREM SentImagesAreReal ==
  ASSUME NoResendBesideApproval
  PROVE  Spec => []SentImageWasInserted
<1>1. Init => AnswersAreReal /\ ImagesAreReal
  BY DEF Init, AnswersAreReal, RowsAreNumbered, SentNameWasInserted, AnswersOK,
         PhotoRows, Idle, At, ImagesAreReal, SentImageWasInserted, ServesOK,
         PayloadIsFresh
<1>2. Inductive /\ AnswersAreReal /\ ImagesAreReal /\ [Next]_vars
        => AnswersAreReal' /\ ImagesAreReal'
  <2> SUFFICES ASSUME Inductive, AnswersAreReal, ImagesAreReal, [Next]_vars
               PROVE  AnswersAreReal' /\ ImagesAreReal'
    OBVIOUS
  <2>1. RowsAreNumbered'
    BY PhotoMoves DEF AnswersAreReal
  <2>2. AnswersAreReal'
    BY <2>1, SentNamesStep, AnswersStep, AcceptedStep DEF AnswersAreReal
  <2>3. \A s \in Slots : ServesOK(s)'
    BY ServesStep DEF ImagesAreReal
  <2> QED
    BY <2>2, <2>3, SentImagesStep, PayloadStep DEF ImagesAreReal
<1>3. ImagesAreReal => SentImageWasInserted
  BY DEF ImagesAreReal
<1> QED
  BY <1>1, <1>2, <1>3, InitInductive, StepInductive, PTL DEF Spec

-----------------------------------------------------------------------------
(* A reinspection that stays REPROVADA has a photo to resend.              *)

\* Only a rejection of one of its photos and the second update of an approved
\* photo make a reinspection REPROVADA.
LEMMA StatusMoves ==
  ASSUME Inductive, [Next]_vars, \A s \in Slots : VerdictOK(s),
         NEW r \in ReinspectionIds, status'[r] = "REPROVADA"
  PROVE  \/ status[r] = "REPROVADA"
         \/ \E s \in Slots, p \in PhotoIds :
              ReprovePhoto(s, p) /\ photo[p].reinspection = r
         \/ \E s \in Slots : /\ ApprovePhotoWrite(s) /\ req[s].target = r
                             /\ req[s].verdict = "REPROVADA"
<1>1. status \in [ReinspectionIds -> ReinspectionStatus \cup {"absent"}]
  BY DEF Inductive, TypeOK
<1>2. ASSUME NEW s \in Slots, StatusWrite(s)
      PROVE  status[r] = "REPROVADA"
  <2>1. req[s].verdict # "REPROVADA"
    BY <1>2 DEF StatusWrite, VerdictOK
  <2> QED
    BY <1>1, <1>2, <2>1 DEF StatusWrite
<1>3. ASSUME NEW s \in Slots, ApprovePhotoWrite(s)
      PROVE  \/ status[r] = "REPROVADA"
             \/ req[s].target = r /\ req[s].verdict = "REPROVADA"
  BY <1>1, <1>3 DEF ApprovePhotoWrite
<1>4. ASSUME NEW s \in Slots, Create(s) \/ ResendWrite(s) \/ ApproveWrite(s)
      PROVE  status[r] = "REPROVADA"
  BY <1>1, <1>4 DEF Create, ResendWrite, ApproveWrite
<1>5. ASSUME NEW s \in Slots, NEW p \in PhotoIds, ReprovePhoto(s, p)
      PROVE  status[r] = "REPROVADA" \/ photo[p].reinspection = r
  BY <1>1, <1>5 DEF ReprovePhoto
<1>6. \/ status' = status
      \/ \E s \in Slots : \/ StatusWrite(s) \/ ApprovePhotoWrite(s)
                          \/ ApproveWrite(s) \/ Create(s) \/ ResendWrite(s)
                          \/ \E p \in PhotoIds : ReprovePhoto(s, p)
  BY DEF Next, vars, ReadOnly, AddPhotosCheck, AddPhotosUpload,
         AddPhotosInsert, UpdateStatusRead, FinalizeRead, StatusRead,
         ApproveRead, ApproveCheck, HinovaRead, HinovaPost, HinovaMark,
         HinovaEnd, HinovaError, ApproveBoleto, ResendRead, ResendUpload,
         ResendMail, ApprovePhoto, Abort, UploadFails, InsertBeyondBound
<1> QED
  BY <1>2, <1>3, <1>4, <1>5, <1>6

\* A rejected photo stays rejected until it is resent or approved.
LEMMA RejectedStays ==
  ASSUME Inductive, RowsAreNumbered, [Next]_vars,
         NEW r \in ReinspectionIds, NEW q \in Rejected(r)
  PROVE  \/ q \in Rejected(r)'
         \/ \E s \in Slots : ResendWrite(s) /\ req[s].target = q
         \/ \E s \in Slots : ApprovePhoto(s, q)
<1>1. q \in PhotoRows /\ photo[q].reinspection = r /\ photo[q].status = "REPROVADA"
  BY DEF Rejected, PhotosOf
<1>2. q \in PhotoIds /\ photo[q] # NoRow /\ q \in PhotoRows'
      /\ photo'[q].reinspection = r
  BY <1>1, NamesStay DEF PhotoRows
<1>3. \/ photo'[q].status = "REPROVADA"
      \/ \E s \in Slots : ResendWrite(s) /\ req[s].target = q
      \/ \E s \in Slots : ApprovePhoto(s, q)
  BY <1>1, <1>2, PhotoMoves DEF Inserted, Rewritten, Marked, Resent, Judged
<1> QED
  BY <1>2, <1>3 DEF Rejected, PhotosOf

\* When no await rejects, a request that approved a photo goes on to its
\* second update.
LEMMA SecondUpdateComes ==
  ASSUME MaxFailures = 0, Inductive, [Next]_vars, NEW t \in Slots,
         req[t].phase = "approvePhotoWrite"
  PROVE  req'[t] = req[t] \/ ApprovePhotoWrite(t)
<1>1. req \in [Slots -> Request] /\ failures \in 0..0
  BY DEF Inductive, TypeOK
<1>2. ASSUME NEW s \in Slots, Abort(s) PROVE FALSE
  BY <1>1, <1>2 DEF Abort
<1>3. ASSUME NEW s \in Slots, NEW x, Await(s, x), req[s].phase # "approvePhotoWrite"
      PROVE  req'[t] = req[t]
  BY <1>3 DEF Await
<1>4. ASSUME NEW s \in Slots, ApprovePhotoWrite(s)
      PROVE  req'[t] = req[t] \/ ApprovePhotoWrite(t)
  <2>1. CASE s = t
    BY <1>4, <2>1
  <2>2. CASE s # t
    BY <1>4, <2>2 DEF ApprovePhotoWrite, Done, Await
  <2> QED
    BY <2>1, <2>2
<1>5. \/ UNCHANGED req
      \/ \E s \in Slots : ApprovePhotoWrite(s) \/ Abort(s)
      \/ \E s \in Slots : /\ req[s].phase # "approvePhotoWrite"
                          /\ \E x : Await(s, x)
  BY ZenonT(40) DEF Next, vars, Done, Receives, Create, AddPhotosCheck, AddPhotosUpload,
         AddPhotosInsert, UpdateStatusRead, FinalizeRead, StatusRead,
         StatusWrite, ApproveRead, ApproveCheck, ApproveWrite, HinovaRead,
         HinovaPost, HinovaMark, HinovaEnd, HinovaError, ApproveBoleto,
         ResendRead, ResendUpload, ResendWrite, ResendMail, ReprovePhoto,
         ApprovePhoto, UploadFails, InsertBeyondBound
<1> QED
  BY <1>2, <1>3, <1>4, <1>5

\* The rejected photos of a reinspection a slot is about to call REPROVADA.
LEMMA VerdictStep ==
  ASSUME OneReviewer, MaxFailures = 0, Inductive, RowsAreNumbered,
         RejectionsAreOpen, [Next]_vars, NEW t \in Slots
  PROVE  VerdictOK(t)'
<1>1. /\ req \in [Slots -> Request] /\ LocalOK(req[t], PhotoRows, uploads)
      /\ RowsOK /\ VerdictOK(t) /\ \A s \in Slots : ServesOK(s)
  BY InductiveParts DEF Inductive, TypeOK, RequestOK, RejectionsAreOpen
<1>2. CASE req'[t] = req[t]
  <2>1. CASE req[t].phase = "approvePhotoWrite" /\ req[t].verdict = "REPROVADA"
    <3>1. PICK r \in ReinspectionIds : r = req[t].target
      BY <1>1, <2>1 DEF LocalOK, OnReinspection
    <3>2. PICK q : q \in Rejected(r)
      BY <1>1, <2>1, <3>1 DEF VerdictOK
    <3>3. ASSUME NEW s \in Slots, ResendWrite(s) \/ ApprovePhoto(s, q)
          PROVE  FALSE
      <4>1. /\ "resendPhoto" \in Serves[s] \/ "approvePhoto" \in Serves[s]
            /\ req[s].phase \in {"idle", "resendWrite"}
        BY <1>1, <3>3 DEF ResendWrite, ApprovePhoto, Receives, ServesOK
      <4>2. s = t
        BY <1>1, <2>1, <4>1 DEF ServesOK, OneReviewer
      <4> QED
        BY <2>1, <4>1, <4>2
    <3>4. q \in Rejected(r)'
      BY <3>2, <3>3, RejectedStays
    <3>5. req'[t].target = r
      BY <1>2, <3>1
    <3> QED
      BY <1>2, <2>1, <3>4, <3>5 DEF VerdictOK, Rejected, PhotosOf, PhotoRows
  <2>2. CASE ~(req[t].phase = "approvePhotoWrite" /\ req[t].verdict = "REPROVADA")
    BY <1>1, <1>2, <2>2 DEF VerdictOK
  <2> QED
    BY <2>1, <2>2
<1>3. CASE req'[t] = Idle
  BY <1>3 DEF VerdictOK, Idle, At
<1>4. CASE Enters(t)
  <2>1. CASE req'[t].phase = "approvePhotoWrite" /\ req'[t].verdict = "REPROVADA"
    <3>1. PICK p \in PhotoIds :
            /\ ApprovePhoto(t, p)
            /\ req'[t].target = photo[p].reinspection
            /\ Rejected(photo[p].reinspection) \ {p} # {}
      BY <1>4, <2>1 DEF Enters
    <3>2. PICK q \in Rejected(photo[p].reinspection) : q # p
      BY <3>1
    <3>3. q \in PhotoIds /\ photo'[q] = photo[q]
      BY <1>1, <3>1, <3>2
      DEF Rejected, PhotosOf, PhotoRows, ApprovePhoto, RowsOK
    <3> QED
      BY <2>1, <3>1, <3>2, <3>3 DEF VerdictOK, Rejected, PhotosOf, PhotoRows
  <2> QED
    BY <1>4, <2>1 DEF Enters, VerdictOK
<1>5. CASE GoesOn(t)
  BY <1>5 DEF GoesOn, Edges, VerdictOK
<1>6. CASE CallsHinova(t)
  BY <1>6 DEF CallsHinova, HinovaRead, HinovaPost, HinovaMark, VerdictOK
<1> QED
  BY <1>1, <1>2, <1>3, <1>4, <1>5, <1>6, RequestMoves DEF Moves

\* A reinspection that stays or becomes REPROVADA.
LEMMA RejectionStep ==
  ASSUME OneReviewer, MaxFailures = 0, Inductive, RowsAreNumbered,
         RejectionsAreOpen, [Next]_vars
  PROVE  RejectedHasPhotoToResend'
<1> SUFFICES ASSUME NEW r \in ReinspectionIds, status'[r] = "REPROVADA"
             PROVE  \/ Rejected(r)' # {}
                    \/ \E s \in Slots : /\ req'[s].phase = "approvePhotoWrite"
                                        /\ req'[s].target = r
  BY DEF RejectedHasPhotoToResend
<1>1. /\ req \in [Slots -> Request] /\ RowsOK
      /\ \A s \in Slots : VerdictOK(s) /\ RejectedHasPhotoToResend
  BY InductiveParts DEF RejectionsAreOpen
<1>2. ASSUME NEW s \in Slots, ApprovePhotoWrite(s), req[s].target = r,
             req[s].verdict = "REPROVADA"
      PROVE  Rejected(r)' # {}
  <2>1. Rejected(r) # {}
    BY <1>1, <1>2 DEF VerdictOK, ApprovePhotoWrite
  <2>2. photo' = photo
    BY <1>2 DEF ApprovePhotoWrite
  <2> QED
    BY <2>1, <2>2 DEF Rejected, PhotosOf, PhotoRows
<1>3. ASSUME NEW s \in Slots, NEW p \in PhotoIds, ReprovePhoto(s, p),
             photo[p].reinspection = r
      PROVE  Rejected(r)' # {}
  <2>1. p \in PhotoRows /\ photo[p] \in Photo
    BY <1>1, <1>3, PhotoRowTyped DEF ReprovePhoto
  <2>2. photo'[p] = [photo[p] EXCEPT !.status = "REPROVADA"]
    BY <1>1, <1>3 DEF ReprovePhoto, RowsOK
  <2>3. /\ photo'[p].status = "REPROVADA" /\ photo'[p].reinspection = r
        /\ photo'[p] # NoRow
    BY <1>3, <2>1, <2>2 DEF Photo, NoRow
  <2>4. p \in Rejected(r)'
    BY <2>3 DEF Rejected, PhotosOf, PhotoRows
  <2> QED
    BY <2>4
<1>4. ASSUME NEW q \in Rejected(r), status[r] = "REPROVADA"
      PROVE  \/ Rejected(r)' # {}
             \/ \E s \in Slots : /\ req'[s].phase = "approvePhotoWrite"
                                 /\ req'[s].target = r
  <2>1. photo[q].reinspection = r
    BY DEF Rejected, PhotosOf
  <2>2. ASSUME NEW s \in Slots, ResendWrite(s), req[s].target = q PROVE FALSE
    <3>1. status'[r] = "EM_ANALISE"
      BY <1>1, <2>1, <2>2 DEF ResendWrite, RowsOK
    <3> QED
      BY <3>1
  <2>3. ASSUME NEW s \in Slots, ApprovePhoto(s, q)
        PROVE  req'[s].phase = "approvePhotoWrite" /\ req'[s].target = r
    BY <1>1, <2>1, <2>3 DEF ApprovePhoto, Await, At
  <2>4. q \in Rejected(r)' => Rejected(r)' # {}
    OBVIOUS
  <2> QED
    BY <2>2, <2>3, <2>4, RejectedStays
<1>5. ASSUME NEW s \in Slots, req[s].phase = "approvePhotoWrite",
             req[s].target = r
      PROVE  \/ Rejected(r)' # {}
             \/ /\ req'[s].phase = "approvePhotoWrite" /\ req'[s].target = r
  <2>1. CASE req'[s] = req[s]
    BY <1>5, <2>1
  <2>2. CASE ApprovePhotoWrite(s)
    <3>1. req[s].verdict = "REPROVADA"
      BY <1>1, <1>5, <2>2 DEF ApprovePhotoWrite, RowsOK
    <3> QED
      BY <1>2, <1>5, <2>2, <3>1
  <2> QED
    BY <1>5, <2>1, <2>2, SecondUpdateComes
<1>6. CASE status[r] = "REPROVADA"
  <2>1. \/ \E q : q \in Rejected(r)
        \/ \E s \in Slots : /\ req[s].phase = "approvePhotoWrite"
                            /\ req[s].target = r
    BY <1>6 DEF RejectionsAreOpen, RejectedHasPhotoToResend
  <2> QED
    BY <1>4, <1>5, <1>6, <2>1
<1> QED
  BY <1>1, <1>2, <1>3, <1>6, StatusMoves

\* When photos are approved in one slot only and resent in no other, and no
\* await rejects, a reinspection that stays REPROVADA always leaves the
\* associado a photo to resend, whatever the other slots do.
THEOREM RejectionsCanBeAnswered ==
  ASSUME OneReviewer, MaxFailures = 0
  PROVE  Spec => []RejectedHasPhotoToResend
<1>1. Init => RowsAreNumbered /\ RejectionsAreOpen
  BY DEF Init, RowsAreNumbered, PhotoRows, RejectionsAreOpen, ServesOK,
         VerdictOK, RejectedHasPhotoToResend, Idle, At
<1>2. Inductive /\ RowsAreNumbered /\ RejectionsAreOpen /\ [Next]_vars
        => RowsAreNumbered' /\ RejectionsAreOpen'
  <2> SUFFICES ASSUME Inductive, RowsAreNumbered, RejectionsAreOpen, [Next]_vars
               PROVE  RowsAreNumbered' /\ RejectionsAreOpen'
    OBVIOUS
  <2>1. RowsAreNumbered'
    BY PhotoMoves
  <2>2. \A s \in Slots : ServesOK(s)'
    BY ServesStep DEF RejectionsAreOpen
  <2> QED
    BY <2>1, <2>2, VerdictStep, RejectionStep DEF RejectionsAreOpen
<1>3. RejectionsAreOpen => RejectedHasPhotoToResend
  BY DEF RejectionsAreOpen
<1> QED
  BY <1>1, <1>2, <1>3, InitInductive, StepInductive, PTL DEF Spec
=============================================================================
