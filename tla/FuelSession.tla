----------------------------- MODULE FuelSession -----------------------------
(***************************************************************************)
(* The savings check behind the fuel card, for one user (no row or job     *)
(* belongs to two): CartaoService opens a session when the card is shown,  *)
(* a delayed job of the queue fuel-economy asks ClubGas for the user's     *)
(* total and closes the session, EconomiaService keeps the last total      *)
(* seen.  The API and the worker are one process.                          *)
(*                                                                         *)
(* An action is what happens between two awaits.  The BullMQ job is        *)
(* modelled as the options of the code set it up: three attempts, one      *)
(* stall allowed, and 'failed' emitted after each failed attempt.          *)
(***************************************************************************)
EXTENDS Naturals, Sequences, FiniteSets

CONSTANTS
  Requests,     \* requests for the card that may run together
  Consults,     \* GET /economia/total that may run together
  MaxSessions,  \* bound: sessions ever created
  MaxTotal,     \* bound: the total ClubGas reaches
  MaxFaults     \* bound: failures of the database or of Redis, and crashes

ASSUME FuelSessionAssumption ==
  /\ MaxSessions \in Nat /\ MaxTotal \in Nat /\ MaxFaults \in Nat

MaxAttempts       == 3
MaxStalledCount   == 1
WorkerConcurrency == 2

Ids    == 1..MaxSessions
Totals == 0..MaxTotal

VARIABLES
  total,        \* ClubGas: what the user has saved so far
  economizado,  \* user.totalEconomizado
  session,      \* the FuelSession rows, in the order of their creation
  request,      \* where each run of triggerFuelEconomyCheck stands
  consult,      \* where each GET /economia/total stands
  job,          \* the job of each session
  pushes,       \* notifications sent, by session
  faults        \* failures and crashes so far

vars == <<total, economizado, session, request, consult, job, pushes, faults>>

Pending(antes) ==
  [status |-> "PENDING", antes |-> antes, depois |-> 0, diferenca |-> 0]

Request(phase, antes, id) == [phase |-> phase, antes |-> antes, id |-> id]
Consult(phase, snapshot, value) ==
  [phase |-> phase, snapshot |-> snapshot, value |-> value]
Job(phase, attempts, stalls, snapshot, value) ==
  [phase |-> phase, attempts |-> attempts, stalls |-> stalls,
   snapshot |-> snapshot, value |-> value]

Active == {"user", "ask", "persist", "decide", "push", "sent"}

Init ==
  /\ total \in Totals
  /\ economizado = 0
  /\ session = <<>>
  /\ request = [r \in Requests |-> Request("idle", 0, 0)]
  /\ consult = [k \in Consults |-> Consult("idle", 0, 0)]
  /\ job = [i \in Ids |-> Job("none", 0, 0, 0, 0)]
  /\ pushes = [i \in Ids |-> 0]
  /\ faults = 0

Fault == faults < MaxFaults /\ faults' = faults + 1

\* ClubGas: the user fills the tank.
Refuel ==
  /\ total < MaxTotal
  /\ total' = total + 1
  /\ UNCHANGED <<economizado, session, request, consult, job, pushes, faults>>

-----------------------------------------------------------------------------
(* triggerFuelEconomyCheck *)

PendingIds(rows) == {i \in DOMAIN rows : rows[i].status = "PENDING"}

RequestGoto(r, x) ==
  /\ request' = [request EXCEPT ![r] = x]
  /\ UNCHANGED <<total, economizado, consult, pushes>>

\* findPendingForUser: with a session PENDING the request ends here.
CheckPending(r) ==
  /\ request[r].phase = "idle"
  /\ IF PendingIds(session) = {}
     THEN RequestGoto(r, Request("user", 0, 0)) /\ UNCHANGED <<session, job, faults>>
     ELSE UNCHANGED vars

ReadBefore(r) ==
  /\ request[r].phase = "user"
  /\ RequestGoto(r, Request("create", economizado, 0))
  /\ UNCHANGED <<session, job, faults>>

CreatePending(r) ==
  /\ request[r].phase = "create"
  /\ Len(session) < MaxSessions
  /\ session' = Append(session, Pending(request[r].antes))
  /\ RequestGoto(r, Request("add", 0, Len(session) + 1))
  /\ UNCHANGED <<job, faults>>

\* fuelEconomyQueue.add
Enqueue(r) ==
  /\ request[r].phase = "add"
  /\ job' = [job EXCEPT ![request[r].id] = Job("waiting", 0, 0, 0, 0)]
  /\ RequestGoto(r, Request("idle", 0, 0))
  /\ UNCHANGED <<session, faults>>

\* Whatever fails is logged and goes no further: a row may stay without a job.
RequestFails(r) ==
  /\ request[r].phase # "idle"
  /\ Fault
  /\ RequestGoto(r, Request("idle", 0, 0))
  /\ UNCHANGED <<session, job>>

\* Bound: no row beyond MaxSessions.
CreateBeyondBound(r) ==
  /\ request[r].phase = "create"
  /\ Len(session) = MaxSessions
  /\ RequestGoto(r, Request("idle", 0, 0))
  /\ UNCHANGED <<session, job, faults>>

-----------------------------------------------------------------------------
(* consultarTotalEconomizado, called by GET /economia/total *)

\* The row is written when ClubGas gave more than the row had when it was read.
Saved(snapshot, value) == IF value > snapshot THEN value ELSE economizado

ConsultGoto(k, x) ==
  /\ consult' = [consult EXCEPT ![k] = x]
  /\ UNCHANGED <<total, session, request, job, pushes, faults>>

ConsultRead(k) ==
  /\ consult[k].phase = "idle"
  /\ ConsultGoto(k, Consult("ask", economizado, 0))
  /\ UNCHANGED economizado

\* ClubGas answers, or the request fails.
ConsultAsk(k) ==
  /\ consult[k].phase = "ask"
  /\ \/ ConsultGoto(k, Consult("persist", consult[k].snapshot, total))
     \/ ConsultGoto(k, Consult("idle", 0, 0))
  /\ UNCHANGED economizado

ConsultPersist(k) ==
  /\ consult[k].phase = "persist"
  /\ economizado' = Saved(consult[k].snapshot, consult[k].value)
  /\ ConsultGoto(k, Consult("idle", 0, 0))

-----------------------------------------------------------------------------
(* FuelEconomyProcessor *)

JobGoto(i, x) ==
  /\ job' = [job EXCEPT ![i] = x]
  /\ UNCHANGED <<total, request, consult>>

InPhase(j, phase) == [j EXCEPT !.phase = phase]

\* The attempt throws: BullMQ counts it, and tries again later or emits the
\* 'failed' that is the last.
Thrown(j) ==
  Job(IF j.attempts + 1 < MaxAttempts THEN "waiting" ELSE "expire",
      j.attempts + 1, j.stalls, 0, 0)

\* Mutant: the job runs whatever became of the session.
StartUnchecked(i) ==
  /\ job[i].phase = "waiting"
  /\ Cardinality({k \in Ids : job[k].phase \in Active}) < WorkerConcurrency
  /\ JobGoto(i, InPhase(job[i], "user"))
  /\ UNCHANGED <<economizado, session, pushes, faults>>

\* A worker takes the job and reads the session: a closed one ends the job.
JobStart(i) ==
  /\ job[i].phase = "waiting"
  /\ Cardinality({k \in Ids : job[k].phase \in Active}) < WorkerConcurrency
  /\ JobGoto(i, InPhase(job[i], IF session[i].status = "PENDING"
                                THEN "user" ELSE "done"))
  /\ UNCHANGED <<economizado, session, pushes, faults>>

\* consultarTotalEconomizado, called by the job.
JobReadUser(i) ==
  /\ job[i].phase = "user"
  /\ JobGoto(i, Job("ask", job[i].attempts, job[i].stalls, economizado, 0))
  /\ UNCHANGED <<economizado, session, pushes, faults>>

\* ClubGas answers, or fails, or answers with errors or with no number.
JobAsk(i) ==
  /\ job[i].phase = "ask"
  /\ \/ JobGoto(i, Job("persist", job[i].attempts, job[i].stalls,
                       job[i].snapshot, total))
     \/ JobGoto(i, Thrown(job[i]))
  /\ UNCHANGED <<economizado, session, pushes, faults>>

JobPersist(i) ==
  /\ job[i].phase = "persist"
  /\ economizado' = Saved(job[i].snapshot, job[i].value)
  /\ JobGoto(i, InPhase(job[i], "decide"))
  /\ UNCHANGED <<session, pushes, faults>>

Completed(row, value) ==
  [status |-> "COMPLETED", antes |-> row.antes, depois |-> value,
   diferenca |-> value - row.antes]

\* Mutant: the savings are added to the total instead of replacing it.
CompleteAdding(i) ==
  /\ job[i].phase = "decide"
  /\ IF job[i].value > session[i].antes
     THEN /\ session' = [session EXCEPT ![i] = Completed(@, job[i].value)]
          /\ economizado' = economizado + (job[i].value - session[i].antes)
          /\ JobGoto(i, InPhase(job[i], "push"))
     ELSE /\ JobGoto(i, Thrown(job[i]))
          /\ UNCHANGED <<economizado, session>>
  /\ UNCHANGED <<pushes, faults>>

\* More than before: completeSession, one transaction.  Else the attempt throws.
JobDecide(i) ==
  /\ job[i].phase = "decide"
  /\ IF job[i].value > session[i].antes
     THEN /\ session' = [session EXCEPT ![i] = Completed(@, job[i].value)]
          /\ economizado' = job[i].value
          /\ JobGoto(i, InPhase(job[i], "push"))
     ELSE /\ JobGoto(i, Thrown(job[i]))
          /\ UNCHANGED <<economizado, session>>
  /\ UNCHANGED <<pushes, faults>>

\* sendPushNotification, if the user has a push token.
JobPush(i) ==
  /\ job[i].phase = "push"
  /\ pushes' \in {pushes, [pushes EXCEPT ![i] = @ + 1]}
  /\ JobGoto(i, InPhase(job[i], "sent"))
  /\ UNCHANGED <<economizado, session, faults>>

JobEnd(i) ==
  /\ job[i].phase = "sent"
  /\ JobGoto(i, InPhase(job[i], "done"))
  /\ UNCHANGED <<economizado, session, pushes, faults>>

\* The database fails under any of the steps, the lookup of the push token
\* and the saving of the notification included: the attempt throws.
JobFails(i) ==
  /\ job[i].phase \in Active \ {"sent"}
  /\ Fault
  /\ JobGoto(i, Thrown(job[i]))
  /\ UNCHANGED <<economizado, session, pushes>>

\* onFailed, after the last attempt: expireSession, whatever the status.
JobExpire(i) ==
  /\ job[i].phase = "expire"
  /\ session' = [session EXCEPT ![i].status = "EXPIRED"]
  /\ JobGoto(i, InPhase(job[i], "done"))
  /\ UNCHANGED <<economizado, pushes, faults>>

\* expireSession fails: logged, and nobody tries again.
ExpireFails(i) ==
  /\ job[i].phase = "expire"
  /\ Fault
  /\ JobGoto(i, InPhase(job[i], "done"))
  /\ UNCHANGED <<economizado, session, pushes>>

\* What a crash makes of a job: an active one stalls, and is run again once;
\* stalled twice, it fails with attempts to spare, which expires nothing.
Stalled(j) ==
  IF j.phase \in Active
  THEN IF j.stalls < MaxStalledCount
       THEN Job("waiting", j.attempts, j.stalls + 1, 0, 0)
       ELSE InPhase(j, "done")
  ELSE IF j.phase = "expire" THEN InPhase(j, "done") ELSE j

\* The process dies and starts again.
Crash ==
  /\ Fault
  /\ request' = [r \in Requests |-> Request("idle", 0, 0)]
  /\ consult' = [k \in Consults |-> Consult("idle", 0, 0)]
  /\ job' = [i \in Ids |-> Stalled(job[i])]
  /\ UNCHANGED <<total, economizado, session, pushes>>

RequestStep(r) ==
  \/ CheckPending(r) \/ ReadBefore(r) \/ CreatePending(r) \/ Enqueue(r)
  \/ CreateBeyondBound(r)
ConsultStep(k) == ConsultRead(k) \/ ConsultAsk(k) \/ ConsultPersist(k)
JobStep(i) ==
  \/ JobStart(i) \/ JobReadUser(i) \/ JobAsk(i) \/ JobPersist(i) \/ JobDecide(i)
  \/ JobPush(i) \/ JobEnd(i) \/ JobExpire(i)

Next ==
  \/ Refuel \/ Crash
  \/ \E r \in Requests : RequestStep(r) \/ RequestFails(r)
  \/ \E k \in Consults : ConsultStep(k)
  \/ \E i \in Ids : JobStep(i) \/ JobFails(i) \/ ExpireFails(i)

Spec == Init /\ [][Next]_vars

\* Node runs continuations, requests time out, BullMQ delivers due jobs.
Fairness ==
  /\ \A r \in Requests : WF_vars(request[r].phase # "idle" /\ RequestStep(r))
  /\ \A i \in Ids : WF_vars(JobStep(i))

FairSpec == Spec /\ Fairness

-----------------------------------------------------------------------------
(* Properties *)

\* The total kept for the user is one ClubGas has given: never more than saved.
NeverOverstated == economizado <= total

\* A user is told at most once of the savings of a session, across the retries
\* and the stalls of its job.
PushAtMostOnce == \A i \in Ids : pushes[i] <= 1

\* A session the user was told of stays COMPLETED.
NotifiedStaysCompleted ==
  \A i \in DOMAIN session : pushes[i] > 0 => session[i].status = "COMPLETED"

\* Every session is closed, COMPLETED or EXPIRED, so that the user's next card
\* opens another: unless something failed, for then a row may have no job.
PendingEnds ==
  \A i \in Ids :
    i \in PendingIds(session) ~> i \notin PendingIds(session) \/ faults > 0
-----------------------------------------------------------------------------
(* The inductive invariant: values read from ClubGas stay at most its total, *)
(* and a job that may still push stands before a session nobody was told of. *)

Row == [status : {"PENDING", "COMPLETED", "EXPIRED"}, antes : Nat, depois : Nat,
        diferenca : Nat]
RequestState == [phase : {"idle", "user", "create", "add"}, antes : Nat, id : Nat]
ConsultState == [phase : {"idle", "ask", "persist"}, snapshot : Nat, value : Nat]
JobState == [phase : Active \cup {"none", "waiting", "expire", "done"}, attempts : Nat,
             stalls : Nat, snapshot : Nat, value : Nat]

\* Every variable keeps its type.
TypeOK ==
  /\ total \in Nat /\ economizado \in Nat /\ faults \in Nat
  /\ session \in Seq(Row) /\ Len(session) <= MaxSessions
  /\ request \in [Requests -> RequestState]
  /\ consult \in [Consults -> ConsultState]
  /\ job \in [Ids -> JobState]
  /\ pushes \in [Ids -> Nat]

AnswersAreTotals ==
  /\ NeverOverstated
  /\ \A k \in Consults : consult[k].value <= total
  /\ \A i \in Ids : job[i].value <= total

\* A request that is to enqueue has its row, whose job it alone creates.
RequestOK(r) ==
  request[r].phase = "add" =>
    /\ request[r].id \in DOMAIN session
    /\ job[request[r].id].phase = "none"
    /\ \A q \in Requests \ {r} :
         request[q].phase = "add" => request[q].id # request[r].id

\* Before the push nobody was told, and whoever was told has a COMPLETED session.
JobOK(i) ==
  /\ job[i].phase # "none" => i \in DOMAIN session
  /\ job[i].phase \in {"user", "ask", "persist", "decide"} =>
       session[i].status = "PENDING"
  /\ job[i].phase \in {"push", "sent"} => session[i].status = "COMPLETED"
  /\ job[i].phase \in {"push", "expire"} => pushes[i] = 0
  /\ pushes[i] > 0 => i \in DOMAIN session /\ session[i].status = "COMPLETED"
  /\ pushes[i] <= 1

Inductive ==
  /\ TypeOK
  /\ AnswersAreTotals
  /\ \A r \in Requests : RequestOK(r)
  /\ \A i \in Ids : JobOK(i)
=============================================================================
