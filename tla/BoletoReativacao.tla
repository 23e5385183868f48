--------------------------- MODULE BoletoReativacao ---------------------------
(***************************************************************************)
(* Reactivation boletos of one vehicle: tryCreateReinspectionBoleto and    *)
(* SgaService.criarBoletoReativacao, which create them at the end of an    *)
(* approval, and the repeatable BullMQ job of BoletoVerificacaoProcessor   *)
(* that watches each one until it is paid.                                 *)
(*                                                                         *)
(* A boleto is named by its nossoNumero.  Hinova keeps the boleto and the  *)
(* situation of the vehicle; the database keeps a ReinspectionPayment row; *)
(* Redis keeps the repeatable job.  Creation and verification are cut at   *)
(* every call that reads or changes one of the three.  Reads that feed     *)
(* only the payload, mails and Suri messages are left out.                 *)
(***************************************************************************)
EXTENDS Naturals, FiniteSets

CONSTANTS
  Slots,        \* approvals whose boleto step may be in flight together
  MaxBoletos,   \* bound: boletos ever issued for the vehicle
  MaxFailures,  \* bound: refusals, losses, crashes and incomplete answers
  SlowRuns      \* may a verification outlast the two minutes to the next?

ASSUME BoletoAssumption ==
  MaxBoletos \in Nat /\ MaxFailures \in Nat /\ SlowRuns \in BOOLEAN

Boletos == 1..MaxBoletos

\* codigo_situacao_boleto: '2', '5', and '1' or '4'.
Situacoes == {"aberto", "vencido", "pago"}

NoRow == [row |-> "none"]
PaymentRow == [situacao : Situacoes \cup {"CRIADO", "PENDENTE"}, pago : BOOLEAN,
               recent : BOOLEAN, cancelado : BOOLEAN]

\* Fields that an answer of Hinova may leave out.
Optional == {"nosso_numero", "codigo_veiculo"}

VARIABLES
  boleto,     \* Hinova: situation of each boleto, "none" before it is issued
  veiculo,    \* Hinova: situation of the vehicle
  associado,  \* Hinova: situation of the associado
  payment,    \* ReinspectionPayment row of each boleto
  repeat,     \* boletos with a repeatable job registered
  iteration,  \* the next run of that job: "none", "delayed" or "waiting"
  req,        \* the boleto step of each approval in flight
  worker,     \* the verification being run, one at a time
  failures    \* faults so far

vars == <<boleto, veiculo, associado, payment, repeat, iteration, req, worker,
          failures>>

At(phase, b, missing) == [phase |-> phase, b |-> b, missing |-> missing]
Idle == At("idle", 0, {})

Running(phase, b, codigo) == [phase |-> phase, b |-> b, codigo |-> codigo]
Resting == Running("idle", 0, "none")

Init ==
  /\ boleto = [b \in Boletos |-> "none"]
  /\ veiculo = "inativo"
  /\ associado = "inativo"
  /\ payment = [b \in Boletos |-> NoRow]
  /\ repeat = {}
  /\ iteration = [b \in Boletos |-> "none"]
  /\ req = [s \in Slots |-> Idle]
  /\ worker = Resting
  /\ failures = 0

Issued   == {b \in Boletos : boleto[b] # "none"}
Payments == {b \in Boletos : payment[b] # NoRow}

Hinova == <<boleto, veiculo, associado>>
Queue  == <<repeat, iteration>>

\* A fault, or none: every fault is counted.
Fault   == failures < MaxFailures /\ failures' = failures + 1
NoFault == UNCHANGED failures

Goto(s, phase) == req' = [req EXCEPT ![s].phase = phase]
Done(s)        == req' = [req EXCEPT ![s] = Idle]

-----------------------------------------------------------------------------
(* tryCreateReinspectionBoleto: the look for an open payment.  A cancelled *)
(* payment counts as open; one older than an hour does not.                *)

OpenRecent == {b \in Payments : ~payment[b].pago /\ payment[b].recent}

TryCreate(s) ==
  /\ req[s].phase = "idle"
  /\ OpenRecent = {}
  /\ req' = [req EXCEPT ![s] = At("post", 0, {})]
  /\ UNCHANGED <<Hinova, payment, Queue, worker, failures>>

(* criarBoletoReativacao *)

\* boleto/cadastrar answers with the new boleto; the answer, or the product
\* list read before it, may lack what the later steps need.
PostBoleto(s) ==
  /\ req[s].phase = "post"
  /\ \E b \in Boletos, missing \in SUBSET Optional :
       /\ b \notin Issued /\ \A o \in Boletos : o < b => o \in Issued
       /\ boleto' = [boleto EXCEPT ![b] = "aberto"]
       /\ req' = [req EXCEPT ![s] = At("persist", b, missing)]
       /\ IF missing = {} THEN NoFault ELSE Fault
  /\ UNCHANGED <<veiculo, associado, payment, Queue, worker>>

\* The call is refused, or its answer is lost after the boleto was issued.
PostFails(s) ==
  /\ req[s].phase = "post"
  /\ Fault
  /\ \/ UNCHANGED boleto
     \/ \E b \in Boletos :
          /\ b \notin Issued /\ \A o \in Boletos : o < b => o \in Issued
          /\ boleto' = [boleto EXCEPT ![b] = "aberto"]
  /\ Done(s)
  /\ UNCHANGED <<veiculo, associado, payment, Queue, worker>>

\* Bound: with MaxBoletos issued, the call counts as refused.
PostBeyondBound(s) ==
  /\ req[s].phase = "post"
  /\ Issued = Boletos
  /\ Done(s)
  /\ UNCHANGED <<Hinova, payment, Queue, worker, failures>>

CreatedPayment == [situacao |-> "CRIADO", pago |-> FALSE, recent |-> TRUE,
                   cancelado |-> FALSE]

\* The row is written with or without its nossoNumero; an error is swallowed.
PersistCriado(s) ==
  /\ req[s].phase = "persist"
  /\ \/ /\ payment' = [payment EXCEPT ![req[s].b] = CreatedPayment]
        /\ NoFault
     \/ Fault /\ UNCHANGED payment
  /\ Goto(s, "situacao20")
  /\ UNCHANGED <<Hinova, Queue, worker>>

\* Skipped without codigo_veiculo; an error is swallowed.
SuspendVehicle(s) ==
  /\ req[s].phase = "situacao20"
  /\ \/ "codigo_veiculo" \notin req[s].missing /\ veiculo' = "20" /\ NoFault
     \/ "codigo_veiculo" \in req[s].missing /\ UNCHANGED veiculo /\ NoFault
     \/ Fault /\ UNCHANGED veiculo
  /\ Goto(s, "fila")
  /\ UNCHANGED <<boleto, associado, payment, Queue, worker>>

\* Needs both fields.  A failing add ends creation: the caller only logs it.
QueueVerification(s) ==
  LET b == req[s].b IN
  /\ req[s].phase = "fila"
  /\ \/ /\ req[s].missing = {}
        /\ repeat' = repeat \cup {b}
        /\ iteration' = [iteration EXCEPT ![b] = "delayed"]
        /\ NoFault
     \/ req[s].missing # {} /\ UNCHANGED Queue /\ NoFault
     \/ Fault /\ UNCHANGED Queue
  /\ Done(s)
  /\ UNCHANGED <<Hinova, payment, worker>>

-----------------------------------------------------------------------------
(* BoletoVerificacaoProcessor.process *)

Work(w)  == worker' = w
GiveUp   == Work(Resting)

\* BullMQ: a delayed iteration falls due; taking one schedules the next while
\* the job is registered.  The worker runs one iteration at a time.
FallDue(b) ==
  /\ iteration[b] = "delayed"
  /\ SlowRuns \/ ~(worker.phase # "idle" /\ worker.b = b)
  /\ iteration' = [iteration EXCEPT ![b] = "waiting"]
  /\ UNCHANGED <<Hinova, payment, repeat, req, worker, failures>>

TakeIteration(b) ==
  /\ worker.phase = "idle"
  /\ iteration[b] = "waiting"
  /\ iteration' = [iteration EXCEPT ![b] = IF b \in repeat THEN "delayed"
                                                          ELSE "none"]
  /\ Work(Running("processaPdf", b, "none"))
  /\ UNCHANGED <<Hinova, payment, repeat, req, failures>>

\* processa-pdf answers with the situation, or with nothing: then the boletos
\* of the vehicle are listed.
ProcessaPdf ==
  /\ worker.phase = "processaPdf"
  /\ \/ Work(Running("persist", worker.b, boleto[worker.b]))
     \/ Work(Running("fallback", worker.b, "none"))
  /\ UNCHANGED <<Hinova, payment, Queue, req, failures>>

ListarBoletos ==
  /\ worker.phase = "fallback"
  /\ \/ Work(Running("persist", worker.b, boleto[worker.b])) /\ NoFault
     \/ Work(Running("persist", worker.b, "none")) /\ Fault
  /\ UNCHANGED <<Hinova, payment, Queue, req>>

\* Mutant: any known situation but an open one counts as paid.
IsPagoUnlessOpen(codigo) == codigo \notin {"none", "aberto"}

IsPago(codigo) == codigo = "pago"

\* update keeps boletoCriadoEm and cancelado, create sets them.
VerifiedPayment(b, codigo) ==
  LET old == IF b \in Payments THEN payment[b] ELSE CreatedPayment
  IN [old EXCEPT !.situacao = IF codigo = "none" THEN "PENDENTE" ELSE codigo,
                 !.pago = IsPago(codigo)]

\* The upsert, whose error is swallowed; an unpaid boleto ends the run.
PersistVerified ==
  /\ worker.phase = "persist"
  /\ \/ /\ payment' = [payment EXCEPT ![worker.b] =
                         VerifiedPayment(worker.b, worker.codigo)]
        /\ NoFault
     \/ Fault /\ UNCHANGED payment
  /\ IF IsPago(worker.codigo)
     THEN Work(Running("situacao1", worker.b, worker.codigo))
     ELSE GiveUp
  /\ UNCHANGED <<Hinova, Queue, req>>

\* Mutant: the call that reactivates the vehicle is not made.
ReactivateNothing ==
  /\ worker.phase = "situacao1"
  /\ Work(Running("associado1", worker.b, worker.codigo))
  /\ UNCHANGED <<Hinova, payment, Queue, req, failures>>

\* The status of the answer is logged and not looked at.
ReactivateVehicle ==
  /\ worker.phase = "situacao1"
  /\ \/ veiculo' = "1" /\ NoFault
     \/ UNCHANGED veiculo /\ Fault
  /\ Work(Running("associado1", worker.b, worker.codigo))
  /\ UNCHANGED <<boleto, associado, payment, Queue, req>>

\* Skipped without codigo_associado; a refusal is only logged.
ReactivateAssociado ==
  /\ worker.phase = "associado1"
  /\ \/ associado' = "1" /\ NoFault
     \/ UNCHANGED associado /\ Fault
  /\ Work(Running("remove", worker.b, worker.codigo))
  /\ UNCHANGED <<boleto, veiculo, payment, Queue, req>>

\* Mutant: the job is left registered.
RemoveNothing ==
  /\ worker.phase = "remove"
  /\ Work(Running("suri", worker.b, worker.codigo))
  /\ UNCHANGED <<Hinova, payment, Queue, req, failures>>

\* removeRepeatableByKey drops the delayed iteration, not one already waiting.
RemoveRepeatable ==
  /\ worker.phase = "remove"
  /\ repeat' = repeat \ {worker.b}
  /\ iteration' = [iteration EXCEPT ![worker.b] =
                     IF @ = "delayed" THEN "none" ELSE @]
  /\ Work(Running("suri", worker.b, worker.codigo))
  /\ UNCHANGED <<Hinova, payment, req, failures>>

\* The paid notice; an error is swallowed and the iteration completes.
NotifyPaid ==
  /\ worker.phase = "suri"
  /\ GiveUp
  /\ UNCHANGED <<Hinova, payment, Queue, req, failures>>

\* An error status of processa-pdf returns; a rejected call anywhere fails the
\* iteration, which has no attempts left.  Either way the next one is due later.
VerificationFails ==
  /\ worker.phase \in {"processaPdf", "fallback", "situacao1", "associado1",
                       "remove"}
  /\ Fault
  /\ GiveUp
  /\ UNCHANGED <<Hinova, payment, Queue, req>>

-----------------------------------------------------------------------------
(* The surroundings *)

\* The process restarts: creations end where they stand, the iteration that
\* was active is found stalled and waits again.
Crash ==
  /\ Fault
  /\ req' = [s \in Slots |-> Idle]
  /\ iteration' = IF worker.phase = "idle" THEN iteration
                  ELSE [iteration EXCEPT ![worker.b] = "waiting"]
  /\ Work(Resting)
  /\ UNCHANGED <<Hinova, payment, repeat>>

\* ReinspectionPaymentsAdminService.cancel: a flag, and nothing else.
Cancel(b) ==
  /\ b \in Payments
  /\ ~payment[b].cancelado
  /\ payment' = [payment EXCEPT ![b].cancelado = TRUE]
  /\ UNCHANGED <<Hinova, Queue, req, worker, failures>>

\* An hour has gone by since boletoCriadoEm.
GrowOld(b) ==
  /\ b \in Payments
  /\ payment[b].recent
  /\ payment' = [payment EXCEPT ![b].recent = FALSE]
  /\ UNCHANGED <<Hinova, Queue, req, worker, failures>>

\* At Hinova: a boleto is paid, or its due date passes first.
BoletoMoves(b) ==
  /\ \/ boleto[b] \in {"aberto", "vencido"} /\ boleto' = [boleto EXCEPT ![b] = "pago"]
     \/ boleto[b] = "aberto" /\ boleto' = [boleto EXCEPT ![b] = "vencido"]
  /\ UNCHANGED <<veiculo, associado, payment, Queue, req, worker, failures>>

Verification ==
  \/ ProcessaPdf \/ ListarBoletos \/ PersistVerified \/ ReactivateVehicle
  \/ ReactivateAssociado \/ RemoveRepeatable \/ NotifyPaid

Creation(s) ==
  \/ PostBoleto(s) \/ PersistCriado(s) \/ SuspendVehicle(s)
  \/ QueueVerification(s)

Next ==
  \/ \E s \in Slots : TryCreate(s) \/ Creation(s) \/ PostFails(s) \/ PostBeyondBound(s)
  \/ \E b \in Boletos : FallDue(b) \/ TakeIteration(b)
  \/ Verification \/ VerificationFails \/ Crash
  \/ \E b \in Boletos : Cancel(b) \/ GrowOld(b) \/ BoletoMoves(b)

Spec == Init /\ [][Next]_vars

\* The event loop runs every started handler, Redis fires every timer, and the
\* worker takes every waiting iteration sooner or later.
Fairness ==
  /\ \A b \in Boletos : WF_vars(FallDue(b)) /\ SF_vars(TakeIteration(b))
  /\ WF_vars(Verification)

FairSpec == Spec /\ Fairness

-----------------------------------------------------------------------------
(* Properties *)

Request == [phase : {"idle", "post", "persist", "situacao20", "fila"},
            b : Boletos \cup {0}, missing : SUBSET Optional]
Run == [phase : {"idle", "processaPdf", "fallback", "persist", "situacao1",
                 "associado1", "remove", "suri"},
        b : Boletos \cup {0}, codigo : Situacoes \cup {"none"}]

\* Every variable keeps its type, and a step of creation or verification
\* always has an issued boleto in hand.
TypeOK ==
  /\ boleto \in [Boletos -> Situacoes \cup {"none"}]
  /\ veiculo \in {"inativo", "20", "1"}
  /\ associado \in {"inativo", "1"}
  /\ payment \in [Boletos -> PaymentRow \cup {NoRow}]
  /\ repeat \in SUBSET Boletos
  /\ iteration \in [Boletos -> {"none", "delayed", "waiting"}]
  /\ req \in [Slots -> Request]
  /\ worker \in Run
  /\ failures \in 0..MaxFailures

\* The panel shows a payment as paid only if Hinova has been paid, whatever
\* run, crash or lost write came before.
PagoOnlyIfPaid == \A b \in Payments : payment[b].pago => boleto[b] = "pago"

(* The inductive invariant behind PagoOnlyIfPaid and WatchedUntilPaid: what *)
(* a verification in progress has been told stays true.                    *)

AfterPago == {"situacao1", "associado1", "remove", "suri"}

WorkerOK ==
  /\ worker.phase # "idle" => worker.b \in Boletos
  /\ worker.phase \in AfterPago => worker.codigo = "pago"
  /\ worker.codigo = "pago" => worker.b \in Boletos /\ boleto[worker.b] = "pago"

RequestOK(s) ==
  req[s].phase \in {"persist", "situacao20", "fila"} => req[s].b \in Boletos

Inductive == TypeOK /\ PagoOnlyIfPaid /\ WorkerOK /\ \A s \in Slots : RequestOK(s)

-----------------------------------------------------------------------------
\* While nothing fails, a vehicle left in situation 20 still has a verification
\* that may bring it back, or a creation about to register one: approvals that
\* overlap, or slow verifications, never strand it.
SuspendedIsWatched ==
  failures = 0 /\ veiculo = "20" =>
    \/ repeat # {}
    \/ \E s \in Slots : req[s].phase = "fila"

(* The inductive invariant behind SuspendedIsWatched: a boleto that is being *)
(* created is no other creation's, and no verification is about it yet; so   *)
(* the run that ends one verification never takes the last one away from a   *)
(* vehicle suspended anew.                                                   *)

InCreation(s) == req[s].phase \in {"persist", "situacao20", "fila"}

Unwatched(b) ==
  /\ b \notin repeat
  /\ iteration[b] = "none"
  /\ worker.phase # "idle" => worker.b # b

CreationOK(s) ==
  InCreation(s) =>
    /\ req[s].b \in Issued
    /\ Unwatched(req[s].b)
    /\ \A t \in Slots \ {s} : InCreation(t) => req[t].b # req[s].b
    /\ failures = 0 => req[s].missing = {}

\* The jobs that the verification in progress is not about to remove.
Remaining == repeat \ (IF worker.phase \in {"associado1", "remove"} THEN {worker.b} ELSE {})

Watching ==
  /\ \A b \in Boletos \ Issued : Unwatched(b)
  /\ \A s \in Slots : CreationOK(s)
  /\ failures = 0 /\ veiculo = "20" =>
       Remaining # {} \/ \E s \in Slots : req[s].phase = "fila"

\* The verification of a boleto is given up only once the boleto is paid.
WatchedUntilPaid ==
  [][\A b \in repeat : b \notin repeat' => boleto[b] = "pago"]_vars

\* A paid boleto with a registered verification is noticed: its verification
\* comes to an end.
PaidIsNoticed ==
  \A b \in Boletos : (b \in repeat /\ boleto[b] = "pago") ~> b \notin repeat
=============================================================================
