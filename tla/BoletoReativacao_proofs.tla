------------------------ MODULE BoletoReativacao_proofs ------------------------
(***************************************************************************)
(* Proofs about BoletoReativacao, for every number of approvals in flight, *)
(* of boletos and of faults, and with verifications of any length.         *)
(***************************************************************************)
EXTENDS BoletoReativacao, TLAPS

\* Moving a creation to a later step keeps requests typed and in hand of an
\* issued boleto.
LEMMA GotoOK ==
  ASSUME req \in [Slots -> Request], NEW s \in Slots, RequestOK(s),
         req[s].phase \in {"persist", "situacao20"},
         NEW f \in {"situacao20", "fila"}, Goto(s, f),
         \A t \in Slots : RequestOK(t)
  PROVE  req' \in [Slots -> Request] /\ \A t \in Slots : RequestOK(t)'
<1>1. PICK q : q = [req[s] EXCEPT !.phase = f]
  OBVIOUS
<1>2. q \in Request /\ q.phase = f /\ q.b = req[s].b
  BY <1>1 DEF Request
<1>3. req' = [req EXCEPT ![s] = q]
  BY <1>1 DEF Goto
<1>4. req[s].b \in Boletos
  BY DEF RequestOK
<1> QED
  BY <1>2, <1>3, <1>4 DEF RequestOK

\* Ending a creation, or starting one, keeps them too.
LEMMA RestartOK ==
  ASSUME req \in [Slots -> Request], NEW s \in Slots,
         \A t \in Slots : RequestOK(t),
         NEW f \in {"idle", "post"}, req' = [req EXCEPT ![s] = At(f, 0, {})]
  PROVE  req' \in [Slots -> Request] /\ \A t \in Slots : RequestOK(t)'
<1>1. At(f, 0, {}) \in Request /\ At(f, 0, {}).phase = f
  BY DEF At, Request
<1> QED
  BY <1>1 DEF RequestOK

LEMMA FailuresTyped ==
  ASSUME failures \in 0..MaxFailures, Fault \/ NoFault
  PROVE  failures' \in 0..MaxFailures
BY BoletoAssumption DEF Fault, NoFault

LEMMA InitInductive == Init => Inductive
<1> SUFFICES ASSUME Init PROVE Inductive
  OBVIOUS
<1>1. TypeOK
  BY BoletoAssumption
  DEF Init, TypeOK, Idle, At, Request, Resting, Running, Run
<1>2. PagoOnlyIfPaid /\ WorkerOK /\ \A s \in Slots : RequestOK(s)
  BY DEF Init, PagoOnlyIfPaid, Payments, WorkerOK, AfterPago, Resting, Running,
         RequestOK, Idle, At
<1> QED
  BY <1>1, <1>2 DEF Inductive

\* A row that is not paid, or a row of a paid boleto, may be written.
LEMMA PaymentWriteOK ==
  ASSUME TypeOK, PagoOnlyIfPaid, UNCHANGED boleto, NEW b \in Boletos,
         NEW row \in PaymentRow, payment' = [payment EXCEPT ![b] = row],
         row.pago => boleto[b] = "pago"
  PROVE  /\ payment' \in [Boletos -> PaymentRow \cup {NoRow}]
         /\ PagoOnlyIfPaid'
BY DEF TypeOK, PagoOnlyIfPaid, Payments

\* What a verified payment looks like.
LEMMA VerifiedTyped ==
  ASSUME TypeOK, NEW b \in Boletos, NEW codigo \in Situacoes \cup {"none"}
  PROVE  /\ VerifiedPayment(b, codigo) \in PaymentRow
         /\ VerifiedPayment(b, codigo).pago <=> codigo = "pago"
<1>1. PICK old : old = IF b \in Payments THEN payment[b] ELSE CreatedPayment
  OBVIOUS
<1>2. old \in PaymentRow
  BY <1>1 DEF TypeOK, Payments, CreatedPayment, PaymentRow
<1>3. PICK sit \in Situacoes \cup {"PENDENTE"} :
        sit = IF codigo = "none" THEN "PENDENTE" ELSE codigo
  OBVIOUS
<1>4. PICK is \in BOOLEAN : is <=> codigo = "pago"
  OBVIOUS
<1>5. PICK row : row = [old EXCEPT !.situacao = sit, !.pago = is]
  OBVIOUS
<1>6. row \in PaymentRow /\ row.pago = is
  BY <1>2, <1>5 DEF PaymentRow
<1>7. VerifiedPayment(b, codigo) = row
  BY <1>1, <1>3, <1>4, <1>5 DEF VerifiedPayment, IsPago
<1> QED
  BY <1>4, <1>6, <1>7

-----------------------------------------------------------------------------
\* The steps of an approval preserve the invariant.
LEMMA CreationInductive ==
  ASSUME Inductive, NEW s \in Slots,
         TryCreate(s) \/ Creation(s) \/ PostFails(s) \/ PostBeyondBound(s)
  PROVE  Inductive'
<1>1. TypeOK /\ PagoOnlyIfPaid /\ WorkerOK /\ RequestOK(s)
      /\ req[s] \in Request /\ \A t \in Slots : RequestOK(t)
  BY DEF Inductive, TypeOK
<1>2. ASSUME TryCreate(s) \/ PostBeyondBound(s) PROVE Inductive'
  <2>1. req' \in [Slots -> Request] /\ \A t \in Slots : RequestOK(t)'
    BY <1>1, <1>2, RestartOK DEF TryCreate, PostBeyondBound, Done, Idle, TypeOK
  <2>2. UNCHANGED <<Hinova, payment, Queue, worker, failures>>
    BY <1>2 DEF TryCreate, PostBeyondBound
  <2> QED
    BY <1>1, <2>1, <2>2
    DEF Hinova, Queue, Inductive, TypeOK, PagoOnlyIfPaid, Payments, WorkerOK
<1>3. ASSUME NEW b \in Boletos, b \notin Issued,
             boleto' = [boleto EXCEPT ![b] = "aberto"],
             UNCHANGED <<payment, worker>>
      PROVE  /\ boleto' \in [Boletos -> Situacoes \cup {"none"}]
             /\ PagoOnlyIfPaid' /\ WorkerOK'
  BY <1>1, <1>3 DEF TypeOK, Situacoes, Issued, PagoOnlyIfPaid, Payments, WorkerOK
<1>4. ASSUME PostBoleto(s) PROVE Inductive'
  <2>1. PICK b \in Boletos, missing \in SUBSET Optional :
          /\ b \notin Issued
          /\ boleto' = [boleto EXCEPT ![b] = "aberto"]
          /\ req' = [req EXCEPT ![s] = At("persist", b, missing)]
          /\ Fault \/ NoFault
    BY <1>4 DEF PostBoleto
  <2>2. At("persist", b, missing) \in Request /\ At("persist", b, missing).b = b
    BY DEF At, Request
  <2>3. req' \in [Slots -> Request] /\ \A t \in Slots : RequestOK(t)'
    BY <1>1, <2>1, <2>2 DEF TypeOK, RequestOK
  <2>4. UNCHANGED <<veiculo, associado, payment, Queue, worker>>
    BY <1>4 DEF PostBoleto
  <2> QED
    BY <1>1, <1>3, <2>1, <2>3, <2>4, FailuresTyped DEF Queue, Inductive, TypeOK
<1>5. ASSUME PostFails(s) PROVE Inductive'
  <2>1. req' \in [Slots -> Request] /\ \A t \in Slots : RequestOK(t)'
    BY <1>1, <1>5, RestartOK DEF PostFails, Done, Idle, TypeOK
  <2>2. UNCHANGED <<veiculo, associado, payment, Queue, worker>> /\ Fault
    BY <1>5 DEF PostFails
  <2>3. CASE UNCHANGED boleto
    BY <1>1, <2>1, <2>2, <2>3, FailuresTyped
    DEF Queue, Inductive, TypeOK, PagoOnlyIfPaid, Payments, WorkerOK
  <2>4. CASE \E b \in Boletos : /\ b \notin Issued
                                /\ boleto' = [boleto EXCEPT ![b] = "aberto"]
    BY <1>1, <1>3, <2>1, <2>2, <2>4, FailuresTyped DEF Queue, Inductive, TypeOK
  <2> QED
    BY <1>5, <2>3, <2>4 DEF PostFails
<1>6. ASSUME PersistCriado(s) PROVE Inductive'
  <2>1. req' \in [Slots -> Request] /\ \A t \in Slots : RequestOK(t)'
    BY <1>1, <1>6, GotoOK DEF PersistCriado, TypeOK
  <2>2. req[s].b \in Boletos /\ CreatedPayment \in PaymentRow /\ ~CreatedPayment.pago
    BY <1>1, <1>6 DEF PersistCriado, RequestOK, CreatedPayment, PaymentRow
  <2>3. UNCHANGED <<Hinova, Queue, worker>> /\ (Fault \/ NoFault)
    BY <1>6 DEF PersistCriado
  <2>4. /\ payment' \in [Boletos -> PaymentRow \cup {NoRow}]
        /\ PagoOnlyIfPaid'
    <3>1. CASE payment' = [payment EXCEPT ![req[s].b] = CreatedPayment]
      BY <1>1, <2>2, <2>3, <3>1, PaymentWriteOK DEF Hinova
    <3>2. CASE UNCHANGED payment
      BY <1>1, <2>3, <3>2 DEF Hinova, TypeOK, PagoOnlyIfPaid, Payments
    <3> QED
      BY <1>6, <3>1, <3>2 DEF PersistCriado
  <2> QED
    BY <1>1, <2>1, <2>3, <2>4, FailuresTyped
    DEF Hinova, Queue, Inductive, TypeOK, WorkerOK
<1>7. ASSUME SuspendVehicle(s) PROVE Inductive'
  <2>1. req' \in [Slots -> Request] /\ \A t \in Slots : RequestOK(t)'
    BY <1>1, <1>7, GotoOK DEF SuspendVehicle, TypeOK
  <2>2. UNCHANGED <<boleto, associado, payment, Queue, worker>>
        /\ (Fault \/ NoFault) /\ veiculo' \in {veiculo, "20"}
    BY <1>7 DEF SuspendVehicle
  <2> QED
    BY <1>1, <2>1, <2>2, FailuresTyped
    DEF Queue, Inductive, TypeOK, PagoOnlyIfPaid, Payments, WorkerOK
<1>8. ASSUME QueueVerification(s) PROVE Inductive'
  <2>1. req' \in [Slots -> Request] /\ \A t \in Slots : RequestOK(t)'
    BY <1>1, <1>8, RestartOK DEF QueueVerification, Done, Idle, TypeOK
  <2>2. UNCHANGED <<Hinova, payment, worker>> /\ (Fault \/ NoFault)
    BY <1>8 DEF QueueVerification
  <2>3. repeat' \in SUBSET Boletos
        /\ iteration' \in [Boletos -> {"none", "delayed", "waiting"}]
    BY <1>1, <1>8 DEF QueueVerification, RequestOK, TypeOK, Queue
  <2> QED
    BY <1>1, <2>1, <2>2, <2>3, FailuresTyped
    DEF Hinova, Inductive, TypeOK, PagoOnlyIfPaid, Payments, WorkerOK
<1> QED
  BY <1>2, <1>4, <1>5, <1>6, <1>7, <1>8 DEF Creation

\* What the worker goes on with after a step.
LEMMA WorkOK ==
  ASSUME NEW f \in {"processaPdf", "fallback", "persist", "situacao1",
                    "associado1", "remove", "suri"},
         NEW b \in Boletos, NEW c \in Situacoes \cup {"none"},
         Work(Running(f, b, c)), UNCHANGED boleto,
         c = "pago" => boleto[b] = "pago",
         f \in AfterPago => c = "pago"
  PROVE  worker' \in Run /\ WorkerOK'
BY DEF Work, Running, Run, WorkerOK, AfterPago

LEMMA GiveUpOK ==
  ASSUME GiveUp PROVE worker' \in Run /\ WorkerOK'
BY DEF GiveUp, Work, Resting, Running, Run, WorkerOK, AfterPago

\* The steps of a verification preserve it.
LEMMA VerificationInductive ==
  ASSUME Inductive, Verification \/ VerificationFails
  PROVE  Inductive'
<1>1. TypeOK /\ PagoOnlyIfPaid /\ WorkerOK /\ \A t \in Slots : RequestOK(t)
  BY DEF Inductive
<1>2. worker.phase # "idle"
  BY DEF Verification, VerificationFails, ProcessaPdf, ListarBoletos,
         PersistVerified, ReactivateVehicle, ReactivateAssociado,
         RemoveRepeatable, NotifyPaid
<1>3. PICK b \in Boletos : b = worker.b
  BY <1>1, <1>2 DEF WorkerOK
<1>4. PICK c \in Situacoes \cup {"none"} : c = worker.codigo
  BY <1>1 DEF TypeOK, Run
<1>5. c = "pago" => boleto[b] = "pago"
  BY <1>1, <1>3, <1>4 DEF WorkerOK
<1>6. UNCHANGED <<boleto, req>> /\ (Fault \/ NoFault)
  BY DEF Verification, VerificationFails, ProcessaPdf, ListarBoletos,
         PersistVerified, ReactivateVehicle, ReactivateAssociado,
         RemoveRepeatable, NotifyPaid, Hinova, NoFault
<1>7. /\ veiculo' \in {veiculo, "1"} /\ associado' \in {associado, "1"}
      /\ repeat' \in SUBSET repeat
      /\ iteration' \in [Boletos -> {"none", "delayed", "waiting"}]
  BY <1>1, <1>3
  DEF Verification, VerificationFails, ProcessaPdf, ListarBoletos,
      PersistVerified, ReactivateVehicle, ReactivateAssociado,
      RemoveRepeatable, NotifyPaid, Hinova, Queue, TypeOK
<1>8. /\ payment' \in [Boletos -> PaymentRow \cup {NoRow}]
      /\ PagoOnlyIfPaid'
  <2>1. CASE payment' = [payment EXCEPT ![b] = VerifiedPayment(b, c)]
    <3>1. /\ VerifiedPayment(b, c) \in PaymentRow
          /\ VerifiedPayment(b, c).pago => boleto[b] = "pago"
      BY <1>1, <1>5, VerifiedTyped
    <3> HIDE DEF VerifiedPayment
    <3> QED
      BY <1>1, <1>6, <2>1, <3>1, PaymentWriteOK
  <2>2. CASE UNCHANGED payment
    BY <1>1, <1>6, <2>2 DEF TypeOK, PagoOnlyIfPaid, Payments
  <2>3. UNCHANGED payment \/ payment' = [payment EXCEPT ![b] = VerifiedPayment(b, c)]
    BY <1>3, <1>4
    DEF Verification, VerificationFails, ProcessaPdf, ListarBoletos,
        PersistVerified, ReactivateVehicle, ReactivateAssociado,
        RemoveRepeatable, NotifyPaid
  <2> QED
    BY <2>1, <2>2, <2>3
<1>9. worker' \in Run /\ WorkerOK'
  <2>1. boleto[b] \in Situacoes \cup {"none"} /\ "none" \in Situacoes \cup {"none"}
    BY <1>1 DEF TypeOK
  <2>2. CASE ProcessaPdf \/ ListarBoletos
    BY <1>3, <1>6, <2>1, <2>2, WorkOK DEF ProcessaPdf, ListarBoletos, AfterPago
  <2>3. CASE PersistVerified
    BY <1>3, <1>4, <1>5, <1>6, <2>3, WorkOK, GiveUpOK DEF PersistVerified, IsPago
  <2>4. CASE ReactivateVehicle \/ ReactivateAssociado \/ RemoveRepeatable
    <3>1. c = "pago"
      BY <1>1, <1>4, <2>4
      DEF WorkerOK, AfterPago, ReactivateVehicle, ReactivateAssociado,
          RemoveRepeatable
    <3>2. PICK f \in {"associado1", "remove", "suri"} : Work(Running(f, b, c))
      BY <1>3, <1>4, <2>4
      DEF ReactivateVehicle, ReactivateAssociado, RemoveRepeatable
    <3> QED
      BY <1>5, <1>6, <3>1, <3>2, WorkOK
  <2>5. CASE NotifyPaid \/ VerificationFails
    BY <2>5, GiveUpOK DEF NotifyPaid, VerificationFails
  <2> QED
    BY <2>2, <2>3, <2>4, <2>5 DEF Verification
<1>10. failures' \in 0..MaxFailures
  BY <1>1, <1>6, FailuresTyped DEF TypeOK
<1> QED
  BY <1>1, <1>6, <1>7, <1>8, <1>9, <1>10
  DEF Inductive, TypeOK, RequestOK

\* So do BullMQ, the panel, the clock, Hinova and a crash.
LEMMA SurroundingsInductive ==
  ASSUME Inductive,
         \/ Crash
         \/ \E b \in Boletos : \/ FallDue(b) \/ TakeIteration(b)
                               \/ Cancel(b) \/ GrowOld(b) \/ BoletoMoves(b)
  PROVE  Inductive'
<1>1. TypeOK /\ PagoOnlyIfPaid /\ WorkerOK /\ \A t \in Slots : RequestOK(t)
  BY DEF Inductive
<1>2. ASSUME Crash PROVE Inductive'
  <2>1. req' = [s \in Slots |-> Idle] /\ UNCHANGED <<boleto, veiculo, associado, payment, repeat>>
    BY <1>2 DEF Crash, Hinova
  <2>2. req' \in [Slots -> Request] /\ \A t \in Slots : RequestOK(t)'
    BY <2>1 DEF Idle, At, Request, RequestOK
  <2>3. iteration' \in [Boletos -> {"none", "delayed", "waiting"}]
    BY <1>1, <1>2 DEF Crash, TypeOK
  <2>4. worker' \in Run /\ WorkerOK'
    BY <1>2, GiveUpOK DEF Crash, GiveUp
  <2>5. failures' \in 0..MaxFailures
    BY <1>1, <1>2, FailuresTyped DEF Crash, TypeOK
  <2> QED
    BY <1>1, <2>1, <2>2, <2>3, <2>4, <2>5
    DEF Inductive, TypeOK, PagoOnlyIfPaid, Payments
<1>3. ASSUME NEW b \in Boletos, FallDue(b) PROVE Inductive'
  BY <1>1, <1>3 DEF FallDue, Hinova, Inductive, TypeOK, PagoOnlyIfPaid,
                    Payments, WorkerOK, RequestOK
<1>4. ASSUME NEW b \in Boletos, TakeIteration(b) PROVE Inductive'
  <2>1. UNCHANGED <<boleto, veiculo, associado, payment, repeat, req, failures>>
    BY <1>4 DEF TakeIteration, Hinova
  <2>2. worker' \in Run /\ WorkerOK'
    BY <1>4, <2>1, WorkOK DEF TakeIteration, AfterPago
  <2>3. iteration' \in [Boletos -> {"none", "delayed", "waiting"}]
    BY <1>1, <1>4 DEF TakeIteration, TypeOK
  <2> QED
    BY <1>1, <2>1, <2>2, <2>3
    DEF Inductive, TypeOK, PagoOnlyIfPaid, Payments, RequestOK
<1>5. ASSUME NEW b \in Boletos, Cancel(b) \/ GrowOld(b) PROVE Inductive'
  <2>1. UNCHANGED <<boleto, veiculo, associado, repeat, iteration, req, worker, failures>>
    BY <1>5 DEF Cancel, GrowOld, Hinova, Queue
  <2>2. payment[b] \in PaymentRow /\ (payment[b].pago => boleto[b] = "pago")
    BY <1>1, <1>5 DEF Cancel, GrowOld, Payments, TypeOK, PagoOnlyIfPaid
  <2>3. PICK row : /\ row \in PaymentRow /\ row.pago = payment[b].pago
                   /\ payment' = [payment EXCEPT ![b] = row]
    <3>1. CASE Cancel(b)
      <4>1. PICK row : row = [payment[b] EXCEPT !.cancelado = TRUE]
        OBVIOUS
      <4> QED
        BY <2>2, <3>1, <4>1 DEF Cancel, PaymentRow
    <3>2. CASE GrowOld(b)
      <4>1. PICK row : row = [payment[b] EXCEPT !.recent = FALSE]
        OBVIOUS
      <4> QED
        BY <2>2, <3>2, <4>1 DEF GrowOld, PaymentRow
    <3> QED
      BY <1>5, <3>1, <3>2
  <2>4. /\ payment' \in [Boletos -> PaymentRow \cup {NoRow}]
        /\ PagoOnlyIfPaid'
    BY <1>1, <2>1, <2>2, <2>3, PaymentWriteOK
  <2> QED
    BY <1>1, <2>1, <2>4 DEF Inductive, TypeOK, WorkerOK, RequestOK
<1>6. ASSUME NEW b \in Boletos, BoletoMoves(b) PROVE Inductive'
  <2>1. boleto' \in [Boletos -> Situacoes \cup {"none"}]
        /\ \A o \in Boletos : boleto[o] = "pago" => boleto'[o] = "pago"
    BY <1>1, <1>6 DEF BoletoMoves, TypeOK, Situacoes
  <2> QED
    BY <1>1, <1>6, <2>1
    DEF BoletoMoves, Queue, Inductive, TypeOK, PagoOnlyIfPaid, Payments,
        WorkerOK, RequestOK
<1> QED
  BY <1>2, <1>3, <1>4, <1>5, <1>6

LEMMA StepInductive == Inductive /\ [Next]_vars => Inductive'
<1> SUFFICES ASSUME Inductive, [Next]_vars PROVE Inductive'
  OBVIOUS
<1>1. CASE UNCHANGED vars
  BY <1>1 DEF vars, Inductive, TypeOK, PagoOnlyIfPaid, Payments, WorkerOK,
              RequestOK
<1>2. CASE Next
  BY <1>2, CreationInductive, VerificationInductive, SurroundingsInductive
  DEF Next
<1> QED
  BY <1>1, <1>2

-----------------------------------------------------------------------------
\* Type correctness, for all constants.
THEOREM TypeCorrect == Spec => []TypeOK
<1>1. Inductive => TypeOK
  BY DEF Inductive
<1> QED
  BY <1>1, InitInductive, StepInductive, PTL DEF Spec

\* A ReinspectionPayment is only marked pago when Hinova has been paid,
\* whatever fails, restarts or overlaps.
THEOREM PagoIsTrue == Spec => []PagoOnlyIfPaid
<1>1. Inductive => PagoOnlyIfPaid
  BY DEF Inductive
<1> QED
  BY <1>1, InitInductive, StepInductive, PTL DEF Spec

\* No step but the end of a verification that saw the boleto paid takes its
\* job out of the queue.
THEOREM NeverAbandoned == Spec => WatchedUntilPaid
<1>1. ASSUME Inductive, [Next]_vars, NEW b \in repeat, b \notin repeat'
      PROVE  boleto[b] = "pago"
  <2>1. RemoveRepeatable
    BY <1>1 DEF Next, vars, TryCreate, Creation, PostBoleto, PersistCriado,
       SuspendVehicle, QueueVerification, PostFails, PostBeyondBound, FallDue,
       TakeIteration, Verification, ProcessaPdf, ListarBoletos,
       PersistVerified, ReactivateVehicle, ReactivateAssociado, NotifyPaid,
       VerificationFails, Crash, Cancel, GrowOld, BoletoMoves, Queue
  <2>2. b = worker.b /\ worker.codigo = "pago"
    BY <1>1, <2>1 DEF RemoveRepeatable, Inductive, WorkerOK, AfterPago
  <2> QED
    BY <1>1, <2>2 DEF Inductive, WorkerOK
<1>2. Inductive /\ [Next]_vars
      => [\A b \in repeat : b \notin repeat' => boleto[b] = "pago"]_vars
  BY <1>1
<1> QED
  BY <1>2, InitInductive, StepInductive, PTL DEF Spec, WatchedUntilPaid

-----------------------------------------------------------------------------
(* SuspendedIsWatched. *)

\* A fault counts: no state after one has failures = 0.
LEMMA FaultCounts ==
  ASSUME TypeOK, Fault PROVE failures' # 0
BY BoletoAssumption DEF TypeOK, Fault

LEMMA InitWatching == Init => Watching
BY DEF Init, Watching, Issued, Unwatched, CreationOK, InCreation, Idle, At, Resting, Running

\* An approval that starts, or ends before its boleto, keeps Watching.
LEMMA StartWatching ==
  ASSUME Inductive, Watching, NEW s \in Slots, TryCreate(s) \/ PostBeyondBound(s)
  PROVE  Watching'
<1>1. /\ UNCHANGED <<boleto, veiculo, repeat, iteration, worker, failures>>
      /\ req[s].phase \in {"idle", "post"}
      /\ \E f \in {"idle", "post"} : req' = [req EXCEPT ![s] = At(f, 0, {})]
  BY DEF TryCreate, PostBeyondBound, Hinova, Queue, Done, Idle
<1>2. /\ req'[s].phase \in {"idle", "post"}
      /\ \A t \in Slots : t # s => req'[t] = req[t]
  BY <1>1 DEF Inductive, TypeOK, At
<1>3. ASSUME NEW t \in Slots PROVE CreationOK(t)'
  BY <1>1, <1>2 DEF Watching, CreationOK, InCreation, Issued, Unwatched
<1>4. (\E t \in Slots : req[t].phase = "fila") => \E t \in Slots : req'[t].phase = "fila"
  BY <1>1, <1>2
<1>5. QED
  BY <1>1, <1>3, <1>4 DEF Watching, Issued, Unwatched, Remaining

\* So does the issue of a boleto, whether or not its answer comes: nobody knew of it.
LEMMA PostWatching ==
  ASSUME Inductive, Watching, NEW s \in Slots, PostBoleto(s) \/ PostFails(s)
  PROVE  Watching'
<1>1. /\ UNCHANGED <<veiculo, repeat, iteration, worker>>
      /\ req[s].phase = "post" /\ TypeOK
  BY DEF PostBoleto, PostFails, Queue, Inductive
<1>2. ASSUME NEW b \in Boletos, b \notin Issued, boleto' = [boleto EXCEPT ![b] = "aberto"]
      PROVE  Issued' = Issued \cup {b}
  BY <1>1, <1>2 DEF Issued, TypeOK
<1>3. CASE PostBoleto(s)
  <2>1. PICK b \in Boletos, missing \in SUBSET Optional :
          /\ b \notin Issued /\ boleto' = [boleto EXCEPT ![b] = "aberto"]
          /\ req' = [req EXCEPT ![s] = At("persist", b, missing)]
          /\ IF missing = {} THEN NoFault ELSE Fault
    BY <1>3 DEF PostBoleto
  <2>2. Issued' = Issued \cup {b}
    BY <1>2, <2>1
  <2>3. /\ req'[s].phase = "persist" /\ req'[s].b = b /\ req'[s].missing = missing
        /\ \A t \in Slots : t # s => req'[t] = req[t]
    BY <1>1, <2>1 DEF TypeOK, At
  <2>4. \A t \in Slots : InCreation(t) => req[t].b \in Issued /\ req[t].b # b
    BY <2>1 DEF Watching, CreationOK
  <2>5. failures' = 0 => failures = 0 /\ missing = {}
    BY <1>1, <2>1, FaultCounts DEF NoFault
  <2>6. ASSUME NEW t \in Slots PROVE CreationOK(t)'
    <3>1. CASE t = s
      <4>1. Unwatched(b)'
        BY <1>1, <2>1 DEF Watching, Unwatched
      <4>2. \A u \in Slots \ {s} : InCreation(u)' => req'[u].b # b
        BY <2>3, <2>4 DEF InCreation
      <4>3. QED BY <2>2, <2>3, <2>5, <3>1, <4>1, <4>2 DEF CreationOK, Unwatched
    <3>2. CASE t # s
      <4>1. req'[t] = req[t] /\ CreationOK(t)
        BY <2>3, <3>2 DEF Watching
      <4>2. InCreation(t)' <=> InCreation(t)
        BY <4>1 DEF InCreation
      <4>3. Unwatched(req[t].b) => Unwatched(req[t].b)'
        BY <1>1, <4>1 DEF Unwatched
      <4>4. ASSUME InCreation(t), NEW u \in Slots \ {t}, InCreation(u)'
            PROVE  req'[u].b # req'[t].b
        <5>1. CASE u = s
          BY <2>3, <2>4, <4>1, <4>4, <5>1
        <5>2. CASE u # s
          <6>1. InCreation(u) /\ req'[u] = req[u]
            BY <2>3, <4>4, <5>2 DEF InCreation
          <6>2. QED BY <4>1, <4>4, <6>1 DEF CreationOK
        <5>3. QED BY <5>1, <5>2
      <4>5. QED BY <2>2, <2>5, <4>1, <4>2, <4>3, <4>4 DEF CreationOK, Unwatched
    <3>3. QED BY <3>1, <3>2
  <2>7. \A o \in Boletos \ Issued' : Unwatched(o)'
    BY <1>1, <2>2 DEF Watching, Unwatched
  <2>8. (\E t \in Slots : req[t].phase = "fila") => \E t \in Slots : req'[t].phase = "fila"
    BY <1>1, <2>3
  <2>9. QED BY <1>1, <2>5, <2>6, <2>7, <2>8 DEF Watching, Remaining
<1>4. CASE PostFails(s)
  <2>1. failures' # 0
    BY <1>1, <1>4, FaultCounts DEF PostFails
  <2>2. /\ req'[s].phase = "idle"
        /\ \A t \in Slots : t # s => req'[t] = req[t]
    BY <1>1, <1>4 DEF PostFails, Done, Idle, At, TypeOK
  <2>3. Issued \subseteq Issued'
    BY <1>2, <1>4 DEF PostFails, Issued
  <2>4. ASSUME NEW t \in Slots PROVE CreationOK(t)'
    BY <1>1, <2>1, <2>2, <2>3 DEF Watching, CreationOK, InCreation, Unwatched
  <2>5. \A o \in Boletos \ Issued' : Unwatched(o)'
    BY <1>1, <2>3 DEF Watching, Unwatched
  <2>6. QED BY <2>1, <2>4, <2>5 DEF Watching
<1>5. QED BY <1>3, <1>4

\* So do the row and the suspension: the creation goes on with its boleto.
LEMMA GoOnWatching ==
  ASSUME Inductive, Watching, NEW s \in Slots, PersistCriado(s) \/ SuspendVehicle(s)
  PROVE  Watching'
<1>1. /\ UNCHANGED <<boleto, repeat, iteration, worker>> /\ TypeOK
      /\ req[s].phase \in {"persist", "situacao20"}
      /\ Fault \/ NoFault
      /\ \E f \in {"situacao20", "fila"} : Goto(s, f)
  BY DEF PersistCriado, SuspendVehicle, Hinova, Queue, Inductive
<1>2. /\ req'[s].phase \in {"situacao20", "fila"}
      /\ req'[s].b = req[s].b /\ req'[s].missing = req[s].missing
      /\ \A t \in Slots : t # s => req'[t] = req[t]
  BY <1>1 DEF Goto, TypeOK, Request
<1>3. /\ \A t \in Slots : req'[t].b = req[t].b /\ req'[t].missing = req[t].missing
      /\ \A t \in Slots : InCreation(t)' <=> InCreation(t)
  BY <1>1, <1>2 DEF InCreation
<1>4. failures' = 0 => failures = 0
  BY <1>1, FaultCounts DEF NoFault
<1>5. ASSUME NEW t \in Slots PROVE CreationOK(t)'
  <2>1. CreationOK(t)
    BY DEF Watching
  <2>2. /\ Unwatched(req[t].b) => Unwatched(req[t].b)'
        /\ Issued' = Issued
    BY <1>1, <1>3 DEF Unwatched, Issued
  <2>3. QED BY <1>3, <1>4, <2>1, <2>2 DEF CreationOK, Unwatched
<1>6. \A o \in Boletos \ Issued' : Unwatched(o)'
  BY <1>1 DEF Watching, Unwatched, Issued
<1>7. ASSUME failures' = 0, veiculo' = "20"
      PROVE  Remaining' # {} \/ \E t \in Slots : req'[t].phase = "fila"
  <2>1. CASE PersistCriado(s)
    <3>1. veiculo = "20"
      BY <1>7, <2>1 DEF PersistCriado, Hinova
    <3>2. Remaining # {} \/ \E t \in Slots : req[t].phase = "fila"
      BY <1>4, <1>7, <3>1 DEF Watching
    <3>3. QED BY <1>1, <1>2, <3>2 DEF Remaining
  <2>2. CASE SuspendVehicle(s)
    <3>1. Goto(s, "fila")
      BY <2>2 DEF SuspendVehicle
    <3>2. req \in [Slots -> Request]
      BY <1>1 DEF TypeOK
    <3>3. req'[s].phase = "fila"
      BY <3>1, <3>2 DEF Goto, Request
    <3>4. QED BY <3>3
  <2>3. QED BY <2>1, <2>2
<1>8. QED BY <1>5, <1>6, <1>7 DEF Watching

\* So does the end of a creation: what it leaves in the queue is a job of its own.
LEMMA QueueWatching ==
  ASSUME Inductive, Watching, NEW s \in Slots, QueueVerification(s)
  PROVE  Watching'
<1>1. /\ UNCHANGED <<boleto, veiculo, worker>> /\ TypeOK
      /\ req[s].phase = "fila" /\ req' = [req EXCEPT ![s] = Idle]
  BY DEF QueueVerification, Hinova, Done, Inductive
<1>2. /\ req'[s].phase = "idle"
      /\ \A t \in Slots : t # s => req'[t] = req[t]
  BY <1>1 DEF TypeOK, Idle, At
<1>3. PICK b \in Boletos :
        /\ b = req[s].b /\ b \in Issued /\ Unwatched(b)
        /\ \A t \in Slots \ {s} : InCreation(t) => req[t].b # b
        /\ failures = 0 => req[s].missing = {}
  BY <1>1 DEF Watching, CreationOK, InCreation, Issued
<1>4. /\ \/ /\ repeat' = repeat \cup {b}
            /\ iteration' = [iteration EXCEPT ![b] = "delayed"]
         \/ UNCHANGED <<repeat, iteration>>
      /\ failures' = 0 => failures = 0 /\ repeat' = repeat \cup {b}
  BY <1>1, <1>3, FaultCounts DEF QueueVerification, Queue, NoFault
<1>5. \A o \in Boletos : o # b => (Unwatched(o) => Unwatched(o)')
  BY <1>1, <1>4 DEF Unwatched, TypeOK
<1>6. ASSUME NEW t \in Slots PROVE CreationOK(t)'
  <2>1. CASE t = s
    BY <1>2, <2>1 DEF CreationOK, InCreation
  <2>2. CASE t # s
    <3>1. CreationOK(t) /\ req'[t] = req[t]
      BY <1>2, <2>2 DEF Watching
    <3>2. InCreation(t) => /\ req[t].b \in Boletos
                           /\ req[t].b # b
                           /\ Unwatched(req[t].b)'
      BY <1>3, <1>5, <2>2, <3>1 DEF CreationOK, Issued
    <3>3. \A u \in Slots : InCreation(u)' => InCreation(u) /\ req'[u] = req[u]
      BY <1>2 DEF InCreation
    <3>4. Issued' = Issued
      BY <1>1 DEF Issued
    <3>5. QED BY <1>4, <3>1, <3>2, <3>3, <3>4 DEF CreationOK, Unwatched
  <2>3. QED BY <2>1, <2>2
<1>7. \A o \in Boletos \ Issued' : Unwatched(o)'
  BY <1>1, <1>3, <1>5 DEF Watching, Issued
<1>8. failures' = 0 => b \in Remaining'
  BY <1>1, <1>3, <1>4 DEF Remaining, Unwatched
<1>9. QED BY <1>6, <1>7, <1>8 DEF Watching

\* So do the steps of a verification: it removes its own job only, after it has
\* reactivated the vehicle.
LEMMA VerificationWatching ==
  ASSUME Inductive, Watching, Verification \/ VerificationFails
  PROVE  Watching'
<1>1. /\ TypeOK /\ UNCHANGED <<boleto, req>> /\ (Fault \/ NoFault)
      /\ worker.phase # "idle"
  BY DEF Inductive, Verification, VerificationFails, ProcessaPdf, ListarBoletos,
         PersistVerified, ReactivateVehicle, ReactivateAssociado,
         RemoveRepeatable, NotifyPaid, Hinova, NoFault
<1>2. failures' = 0 => failures = 0
  BY <1>1, FaultCounts DEF NoFault
<1>3. worker'.phase # "idle" => worker'.b = worker.b
  BY DEF Verification, VerificationFails, ProcessaPdf, ListarBoletos,
         PersistVerified, ReactivateVehicle, ReactivateAssociado,
         RemoveRepeatable, NotifyPaid, Work, GiveUp, Running, Resting
<1>4. /\ repeat' \subseteq repeat
      /\ \A b \in Boletos : iteration[b] = "none" => iteration'[b] = "none"
  BY <1>1 DEF Verification, VerificationFails, ProcessaPdf, ListarBoletos,
         PersistVerified, ReactivateVehicle, ReactivateAssociado,
         RemoveRepeatable, NotifyPaid, Queue, TypeOK
<1>5. \A b \in Boletos : Unwatched(b) => Unwatched(b)'
  BY <1>1, <1>3, <1>4 DEF Unwatched
<1>6. ASSUME NEW s \in Slots PROVE CreationOK(s)'
  <2>1. CreationOK(s)
    BY DEF Watching
  <2>2. InCreation(s) => Unwatched(req[s].b)'
    BY <1>1, <1>5, <2>1 DEF CreationOK, Issued, Unwatched
  <2>3. QED BY <1>1, <1>2, <2>1, <2>2 DEF CreationOK, InCreation, Issued, Unwatched
<1>7. \A b \in Boletos \ Issued' : Unwatched(b)'
  BY <1>1, <1>5 DEF Watching, Issued
<1>8. ASSUME failures' = 0, veiculo' = "20"
      PROVE  Remaining' # {} \/ \E s \in Slots : req'[s].phase = "fila"
  <2>1. SUFFICES ASSUME veiculo = "20" PROVE Remaining \subseteq Remaining'
    <3>1. veiculo = "20"
      BY <1>1, <1>8, FaultCounts
      DEF Verification, VerificationFails, ProcessaPdf, ListarBoletos,
          PersistVerified, ReactivateVehicle, ReactivateAssociado,
          RemoveRepeatable, NotifyPaid, Hinova
    <3>2. Remaining # {} \/ \E s \in Slots : req[s].phase = "fila"
      BY <1>2, <1>8, <3>1 DEF Watching
    <3>3. QED BY <1>1, <2>1, <3>1, <3>2
  <2>2. CASE \/ ProcessaPdf \/ ListarBoletos \/ PersistVerified \/ NotifyPaid
    BY <2>2 DEF ProcessaPdf, ListarBoletos, PersistVerified, NotifyPaid, Work, GiveUp,
                Running, Resting, Queue, Remaining
  <2>3. CASE ReactivateVehicle
    BY <1>1, <1>8, <2>3, FaultCounts DEF ReactivateVehicle
  <2>4. CASE ReactivateAssociado
    BY <2>4 DEF ReactivateAssociado, Work, Running, Queue, Remaining
  <2>5. CASE RemoveRepeatable
    BY <2>5 DEF RemoveRepeatable, Work, Running, Remaining
  <2>6. CASE VerificationFails
    BY <1>1, <1>8, <2>6, FaultCounts DEF VerificationFails
  <2>7. QED BY <2>2, <2>3, <2>4, <2>5, <2>6 DEF Verification
<1>9. QED BY <1>6, <1>7, <1>8 DEF Watching

\* So do BullMQ, the panel, the clock, Hinova and a crash.
LEMMA SurroundingsWatching ==
  ASSUME Inductive, Watching,
         \/ Crash
         \/ \E b \in Boletos : \/ FallDue(b) \/ TakeIteration(b)
                               \/ Cancel(b) \/ GrowOld(b) \/ BoletoMoves(b)
  PROVE  Watching'
<1>1. TypeOK
  BY DEF Inductive
<1>2. ASSUME Crash PROVE Watching'
  <2>1. /\ req' = [s \in Slots |-> Idle] /\ UNCHANGED <<boleto, repeat>>
        /\ worker'.phase = "idle" /\ failures' # 0
        /\ iteration' = IF worker.phase = "idle" THEN iteration
                        ELSE [iteration EXCEPT ![worker.b] = "waiting"]
    BY <1>1, <1>2, FaultCounts DEF Crash, Hinova, Work, Resting, Running
  <2>2. \A s \in Slots : CreationOK(s)'
    BY <2>1 DEF CreationOK, InCreation, Idle, At
  <2>3. \A b \in Boletos \ Issued' : Unwatched(b)'
    BY <1>1, <2>1 DEF Watching, Unwatched, Issued, TypeOK
  <2>4. QED BY <2>1, <2>2, <2>3 DEF Watching
<1>3. ASSUME NEW b \in Boletos, FallDue(b) \/ TakeIteration(b) PROVE Watching'
  <2>1. /\ UNCHANGED <<boleto, veiculo, repeat, req, failures>>
        /\ iteration[b] # "none"
        /\ \A o \in Boletos : o # b => iteration'[o] = iteration[o]
    BY <1>1, <1>3 DEF FallDue, TakeIteration, Hinova, TypeOK
  <2>2. \/ UNCHANGED worker
        \/ worker.phase = "idle" /\ worker'.phase = "processaPdf" /\ worker'.b = b
    BY <1>3 DEF FallDue, TakeIteration, Work, Running
  <2>3. \A o \in Boletos : Unwatched(o) => Unwatched(o)'
    BY <2>1, <2>2 DEF Unwatched
  <2>4. ASSUME NEW s \in Slots PROVE CreationOK(s)'
    <3>1. CreationOK(s)
      BY DEF Watching
    <3>2. InCreation(s) => Unwatched(req[s].b)'
      BY <2>1, <2>3, <3>1 DEF CreationOK, Issued, Unwatched
    <3>3. QED BY <2>1, <3>1, <3>2 DEF CreationOK, InCreation, Issued, Unwatched
  <2>5. \A o \in Boletos \ Issued' : Unwatched(o)'
    BY <2>1, <2>3 DEF Watching, Issued
  <2>6. Remaining' = Remaining
    BY <2>1, <2>2 DEF Remaining
  <2>7. QED BY <2>1, <2>4, <2>5, <2>6 DEF Watching
<1>4. ASSUME NEW b \in Boletos, Cancel(b) \/ GrowOld(b) \/ BoletoMoves(b) PROVE Watching'
  <2>1. UNCHANGED <<veiculo, repeat, iteration, req, worker, failures>>
    BY <1>4 DEF Cancel, GrowOld, BoletoMoves, Hinova, Queue
  <2>2. Issued' = Issued
    BY <1>1, <1>4 DEF Cancel, GrowOld, BoletoMoves, Hinova, Issued, TypeOK
  <2>3. QED
    BY <2>1, <2>2 DEF Watching, CreationOK, InCreation, Unwatched, Remaining
<1>5. QED BY <1>2, <1>3, <1>4

LEMMA StepWatching == Inductive /\ Watching /\ [Next]_vars => Watching'
<1> SUFFICES ASSUME Inductive, Watching, [Next]_vars PROVE Watching'
  OBVIOUS
<1>1. CASE UNCHANGED vars
  BY <1>1 DEF vars, Watching, CreationOK, InCreation, Unwatched, Remaining, Issued
<1>2. CASE Next
  BY <1>2, StartWatching, PostWatching, GoOnWatching, QueueWatching,
     VerificationWatching, SurroundingsWatching
  DEF Next, Creation
<1>3. QED BY <1>1, <1>2

\* While nothing fails, a vehicle in situation 20 has a job that watches over it, or a
\* creation about to register one, however many approvals overlap and however long
\* their verifications take.
THEOREM SuspendedIsAlwaysWatched == Spec => []SuspendedIsWatched
<1>1. Init => Inductive /\ Watching
  BY InitInductive, InitWatching
<1>2. Inductive /\ Watching /\ [Next]_vars => (Inductive /\ Watching)'
  BY StepInductive, StepWatching
<1>3. Watching => SuspendedIsWatched
  BY DEF Watching, SuspendedIsWatched, Remaining
<1>4. QED BY <1>1, <1>2, <1>3, PTL DEF Spec
=============================================================================
