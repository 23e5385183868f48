-------------------------- MODULE Notifications_proofs --------------------------
(***************************************************************************)
(* Proofs about the senders of notifications, FuelSession, WebhookEvents   *)
(* and MarketingSend, through MCNotifications: what each of them keeps by  *)
(* itself, and what the composition keeps.                                 *)
(***************************************************************************)
EXTENDS MCNotifications, FiniteSetTheorems, SequenceTheorems, TLAPS

USE FuelSessionAssumption, NotificationsAssumption
    DEF NotificationsAssumption, Webhook!WebhookAssumption, Marketing!MarketingAssumption

(***************************************************************************)
(* FuelSession.                                                            *)
(***************************************************************************)

\* Inductive holds at the start.
LEMMA FuelInit == Init => Inductive
<1> SUFFICES ASSUME Init PROVE Inductive
  OBVIOUS
<1>1. TypeOK
  <2>1. session \in Seq(Row) /\ Len(session) = 0
    BY DEF Init
  <2>2. request \in [Requests -> RequestState]
    BY DEF Init, Request, RequestState
  <2>3. consult \in [Consults -> ConsultState]
    BY DEF Init, Consult, ConsultState
  <2>4. job \in [Ids -> JobState]
    BY DEF Init, Job, JobState
  <2>5. pushes \in [Ids -> Nat] /\ total \in Nat /\ economizado \in Nat /\ faults \in Nat
    BY DEF Init, Totals
  <2>6. QED BY <2>1, <2>2, <2>3, <2>4, <2>5 DEF TypeOK
<1>2. AnswersAreTotals
  BY DEF Init, AnswersAreTotals, NeverOverstated, Consult, Job, Totals
<1>3. \A r \in Requests : RequestOK(r)
  BY DEF Init, RequestOK, Request
<1>4. \A i \in Ids : JobOK(i)
  BY DEF Init, JobOK, Job
<1>5. QED BY <1>1, <1>2, <1>3, <1>4 DEF Inductive

\* A request that moves, or ends, short of its row keeps Inductive.
LEMMA RequestMoves ==
  ASSUME Inductive, NEW r \in Requests, NEW x \in RequestState, x.phase # "add",
         RequestGoto(r, x), UNCHANGED <<session, job>>, faults' \in Nat
  PROVE  Inductive'
<1>1. TypeOK'
  BY DEF Inductive, TypeOK, RequestGoto
<1>2. AnswersAreTotals'
  BY DEF Inductive, AnswersAreTotals, NeverOverstated, RequestGoto
<1>3. ASSUME NEW q \in Requests PROVE RequestOK(q)'
  <2>1. \A p \in Requests : request'[p].phase = "add" => request'[p] = request[p]
    BY DEF Inductive, TypeOK, RequestGoto
  <2>2. QED BY <2>1 DEF Inductive, RequestOK
<1>4. \A i \in Ids : JobOK(i)'
  BY DEF Inductive, JobOK, RequestGoto
<1>5. QED BY <1>1, <1>2, <1>3, <1>4 DEF Inductive

\* CreatePending keeps Inductive: the new row is of nobody else, nobody was told of it.
LEMMA CreateKeeps ==
  ASSUME Inductive, NEW r \in Requests, CreatePending(r)
  PROVE  Inductive'
<1> DEFINE n == Len(session) + 1
           row == Pending(request[r].antes)
           x == Request("add", 0, n)
<1>1. /\ session' = Append(session, row) /\ Len(session) < MaxSessions
      /\ RequestGoto(r, x) /\ UNCHANGED <<job, faults>>
  BY DEF CreatePending
<1>2. session \in Seq(Row) /\ Len(session) \in Nat /\ n \in Ids
  BY <1>1 DEF Inductive, TypeOK, Ids, FuelSessionAssumption
<1>3. row \in Row /\ row.status = "PENDING"
  BY DEF Inductive, TypeOK, RequestState, Row, Pending
<1>4. x \in RequestState /\ x.phase = "add" /\ x.id = n
  BY <1>2 DEF Request, RequestState
<1> HIDE DEF row, x
<1>5. /\ session' \in Seq(Row) /\ Len(session') = n
      /\ \A k \in 1..Len(session) : session'[k] = session[k]
      /\ session'[n] = row
      /\ DOMAIN session = 1..Len(session) /\ DOMAIN session' = 1..n
  BY <1>1, <1>2, <1>3
<1>6. TypeOK'
  BY <1>1, <1>2, <1>4, <1>5 DEF Inductive, TypeOK, RequestGoto
<1>7. AnswersAreTotals'
  BY <1>1 DEF Inductive, AnswersAreTotals, NeverOverstated, RequestGoto
<1>8. n \notin DOMAIN session /\ DOMAIN session \subseteq DOMAIN session'
  BY <1>2, <1>5
<1>9. job[n].phase = "none" /\ pushes[n] = 0
  BY <1>2, <1>8 DEF Inductive, TypeOK, JobOK
<1>10. ASSUME NEW q \in Requests PROVE RequestOK(q)'
  <2>1. /\ \A p \in Requests \ {r} : request'[p] = request[p]
        /\ request'[r] = x
    BY <1>1 DEF Inductive, TypeOK, RequestGoto
  <2>2. \A p \in Requests : request[p].phase = "add" => request[p].id \in DOMAIN session
    BY DEF Inductive, RequestOK
  <2>3. QED
    BY <1>1, <1>4, <1>5, <1>8, <1>9, <2>1, <2>2 DEF Inductive, RequestOK
<1>11. ASSUME NEW i \in Ids PROVE JobOK(i)'
  <2>1. UNCHANGED <<job, pushes>>
    BY <1>1 DEF RequestGoto
  <2>2. CASE i \in DOMAIN session
    BY <1>5, <1>8, <2>1, <2>2 DEF Inductive, JobOK
  <2>3. CASE i \notin DOMAIN session
    BY <2>1, <2>3 DEF Inductive, TypeOK, JobOK
  <2>4. QED BY <2>2, <2>3
<1>12. QED BY <1>6, <1>7, <1>10, <1>11 DEF Inductive

\* Enqueue keeps Inductive: the job is created once, for the row of the request.
LEMMA EnqueueKeeps ==
  ASSUME Inductive, NEW r \in Requests, Enqueue(r)
  PROVE  Inductive'
<1> DEFINE n == request[r].id
           j == Job("waiting", 0, 0, 0, 0)
           x == Request("idle", 0, 0)
<1>1. /\ request[r].phase = "add" /\ job' = [job EXCEPT ![n] = j]
      /\ RequestGoto(r, x) /\ UNCHANGED <<session, faults>>
  BY DEF Enqueue
<1>2. /\ n \in DOMAIN session
      /\ \A q \in Requests \ {r} : request[q].phase = "add" => request[q].id # n
  BY <1>1 DEF Inductive, RequestOK
<1>3. n \in Ids
  BY <1>2 DEF Inductive, TypeOK, Ids, FuelSessionAssumption
<1>4. j \in JobState /\ j.phase = "waiting" /\ j.value = 0
  BY DEF Job, JobState
<1>5. x \in RequestState /\ x.phase = "idle"
  BY DEF Request, RequestState
<1> HIDE DEF n, j, x
<1>6. TypeOK'
  BY <1>1, <1>4, <1>5 DEF Inductive, TypeOK, RequestGoto
<1>7. /\ job'[n] = j
      /\ \A i \in Ids \ {n} : job'[i] = job[i]
  BY <1>1, <1>3 DEF Inductive, TypeOK
<1>8. AnswersAreTotals'
  <2>1. \A i \in Ids : job'[i].value <= total
    BY <1>4, <1>7 DEF Inductive, TypeOK, AnswersAreTotals
  <2>2. QED BY <1>1, <2>1 DEF Inductive, AnswersAreTotals, NeverOverstated, RequestGoto
<1>9. ASSUME NEW q \in Requests PROVE RequestOK(q)'
  <2>1. /\ \A p \in Requests \ {r} : request'[p] = request[p]
        /\ request'[r] = x
    BY <1>1 DEF Inductive, TypeOK, RequestGoto
  <2>2. CASE q = r
    BY <1>5, <2>1, <2>2 DEF RequestOK
  <2>3. CASE q # r
    <3>1. request[q].phase = "add" =>
            /\ request[q].id \in DOMAIN session /\ job[request[q].id].phase = "none"
            /\ \A p \in Requests \ {q} :
                 request[p].phase = "add" => request[p].id # request[q].id
      BY DEF Inductive, RequestOK
    <3>2. request[q].phase = "add" => request[q].id \in Ids \ {n}
      BY <1>2, <2>3, <3>1 DEF Inductive, TypeOK, Ids, FuelSessionAssumption
    <3>3. QED BY <1>1, <1>5, <1>7, <2>1, <2>3, <3>1, <3>2 DEF RequestOK
  <2>4. QED BY <2>2, <2>3
<1>10. ASSUME NEW i \in Ids PROVE JobOK(i)'
  <2>1. UNCHANGED <<session, pushes>>
    BY <1>1 DEF RequestGoto
  <2>2. CASE i = n
    BY <1>2, <1>4, <1>7, <2>1, <2>2 DEF Inductive, JobOK
  <2>3. CASE i # n
    BY <1>7, <2>1, <2>3 DEF Inductive, JobOK
  <2>4. QED BY <2>2, <2>3
<1>11. QED BY <1>6, <1>8, <1>9, <1>10 DEF Inductive

\* GET /economia/total keeps Inductive.
LEMMA ConsultKeeps ==
  ASSUME Inductive, NEW k \in Consults, ConsultStep(k)
  PROVE  Inductive'
<1>1. PICK x \in ConsultState :
        /\ ConsultGoto(k, x) /\ x.value <= total
        /\ economizado' \in Nat /\ economizado' <= total
  <2>1. /\ consult[k] \in ConsultState /\ consult[k].value <= total
        /\ total \in Nat /\ economizado \in Nat /\ economizado <= total
    BY DEF Inductive, TypeOK, AnswersAreTotals, NeverOverstated
  <2>2. Consult("idle", 0, 0) \in ConsultState /\ Consult("idle", 0, 0).value = 0
    BY DEF Consult, ConsultState
  <2>3. CASE ConsultRead(k)
    <3>1. /\ Consult("ask", economizado, 0) \in ConsultState
          /\ Consult("ask", economizado, 0).value = 0
      BY <2>1 DEF Consult, ConsultState
    <3>2. QED BY <2>1, <2>3, <3>1 DEF ConsultRead
  <2>4. CASE ConsultAsk(k)
    <3>1. /\ Consult("persist", consult[k].snapshot, total) \in ConsultState
          /\ Consult("persist", consult[k].snapshot, total).value = total
      BY <2>1 DEF Consult, ConsultState
    <3>2. QED BY <2>1, <2>2, <2>4, <3>1 DEF ConsultAsk
  <2>5. CASE ConsultPersist(k)
    <3>1. consult[k].value \in Nat /\ consult[k].snapshot \in Nat
      BY <2>1 DEF ConsultState
    <3>2. QED BY <2>1, <2>2, <2>5, <3>1 DEF ConsultPersist, Saved
  <2>6. QED BY <2>3, <2>4, <2>5 DEF ConsultStep
<1>2. TypeOK'
  BY <1>1 DEF Inductive, TypeOK, ConsultGoto
<1>3. AnswersAreTotals'
  <2>1. \A q \in Consults : consult'[q].value <= total
    BY <1>1 DEF Inductive, TypeOK, AnswersAreTotals, ConsultGoto
  <2>2. QED BY <1>1, <2>1 DEF Inductive, AnswersAreTotals, NeverOverstated, ConsultGoto
<1>4. \A r \in Requests : RequestOK(r)'
  BY <1>1 DEF Inductive, RequestOK, ConsultGoto
<1>5. \A i \in Ids : JobOK(i)'
  BY <1>1 DEF Inductive, JobOK, ConsultGoto
<1>6. QED BY <1>2, <1>3, <1>4, <1>5 DEF Inductive

\* A step of one job keeps Inductive if it changes no other row and no other job, and
\* leaves its own in order.
LEMMA JobMoves ==
  ASSUME Inductive, NEW i \in Ids, NEW x \in JobState, JobGoto(i, x),
         job[i].phase # "none", x.phase # "none", x.value <= total,
         economizado' \in Nat, economizado' <= total, faults' \in Nat,
         session' \in Seq(Row), DOMAIN session' = DOMAIN session,
         Len(session') = Len(session),
         \A k \in DOMAIN session : k # i => session'[k] = session[k],
         pushes' \in [Ids -> Nat], \A k \in Ids : k # i => pushes'[k] = pushes[k],
         JobOK(i)'
  PROVE  Inductive'
<1>1. /\ UNCHANGED <<total, request, consult>>
      /\ job' \in [Ids -> JobState] /\ job'[i] = x
      /\ \A k \in Ids : k # i => job'[k] = job[k]
  BY DEF JobGoto, Inductive, TypeOK
<1>2. TypeOK'
  BY <1>1 DEF Inductive, TypeOK
<1>3. AnswersAreTotals'
  <2>1. \A k \in Ids : job'[k].value <= total
    BY <1>1 DEF Inductive, AnswersAreTotals
  <2>2. QED BY <1>1, <2>1 DEF Inductive, AnswersAreTotals, NeverOverstated
<1>4. ASSUME NEW r \in Requests PROVE RequestOK(r)'
  <2>1. DOMAIN session \subseteq Ids
    BY DEF Inductive, TypeOK, Ids, FuelSessionAssumption
  <2>2. RequestOK(r)
    BY DEF Inductive
  <2>3. QED BY <1>1, <2>1, <2>2 DEF RequestOK
<1>5. ASSUME NEW k \in Ids PROVE JobOK(k)'
  <2>1. CASE k = i
    BY <2>1
  <2>2. CASE k # i
    <3>1. JobOK(k)
      BY DEF Inductive
    <3>2. job'[k] = job[k] /\ pushes'[k] = pushes[k]
      BY <1>1, <2>2
    <3>3. k \in DOMAIN session => session'[k] = session[k]
      BY <2>2
    <3>4. QED BY <3>1, <3>2, <3>3 DEF JobOK
  <2>3. QED BY <2>1, <2>2
<1>6. QED BY <1>2, <1>3, <1>4, <1>5 DEF Inductive

\* The records that the steps of a job make of it.
LEMMA JobRecords ==
  ASSUME Inductive, NEW i \in Ids
  PROVE  /\ \A p \in Active \cup {"none", "waiting", "expire", "done"} :
              /\ InPhase(job[i], p) \in JobState
              /\ InPhase(job[i], p).phase = p
              /\ InPhase(job[i], p).value = job[i].value
         /\ Thrown(job[i]) \in JobState
         /\ Thrown(job[i]).phase \in {"waiting", "expire"}
         /\ Thrown(job[i]).value = 0
         /\ \A p \in {"ask", "persist"}, s \in Nat, v \in Nat :
              LET x == Job(p, job[i].attempts, job[i].stalls, s, v)
              IN x \in JobState /\ x.phase = p /\ x.value = v
<1>1. job[i] \in JobState
  BY DEF Inductive, TypeOK
<1>2. ASSUME NEW p \in Active \cup {"none", "waiting", "expire", "done"}
      PROVE  /\ InPhase(job[i], p) \in JobState
             /\ InPhase(job[i], p).phase = p
             /\ InPhase(job[i], p).value = job[i].value
  BY <1>1 DEF InPhase, JobState
<1>3. /\ Thrown(job[i]) \in JobState
      /\ Thrown(job[i]).phase \in {"waiting", "expire"}
      /\ Thrown(job[i]).value = 0
  BY <1>1 DEF Thrown, Job, JobState
<1>4. ASSUME NEW p \in {"ask", "persist"}, NEW s \in Nat, NEW v \in Nat
      PROVE  LET x == Job(p, job[i].attempts, job[i].stalls, s, v)
             IN x \in JobState /\ x.phase = p /\ x.value = v
  BY <1>1 DEF Job, JobState, Active
<1>5. QED BY <1>2, <1>3, <1>4

\* The steps of a job that change no row and send nothing keep Inductive.
LEMMA QuietJobStepKeeps ==
  ASSUME Inductive, NEW i \in Ids,
         \/ JobStart(i) \/ JobReadUser(i) \/ JobAsk(i) \/ JobPersist(i) \/ JobEnd(i)
         \/ JobFails(i) \/ ExpireFails(i)
  PROVE  Inductive'
<1>1. /\ job[i] \in JobState /\ job[i].value \in Nat /\ job[i].snapshot \in Nat
      /\ job[i].value <= total /\ JobOK(i) /\ total \in Nat
      /\ economizado \in Nat /\ economizado <= total /\ faults \in Nat
      /\ session \in Seq(Row) /\ pushes \in [Ids -> Nat]
  BY DEF Inductive, TypeOK, AnswersAreTotals, NeverOverstated, JobState
<1>2. PICK x \in JobState :
        /\ JobGoto(i, x) /\ UNCHANGED <<session, pushes>>
        /\ job[i].phase # "none" /\ x.phase # "none" /\ x.value <= total
        /\ economizado' \in Nat /\ economizado' <= total /\ faults' \in Nat
        /\ x.phase \in {"user", "ask", "persist", "decide"} =>
             session[i].status = "PENDING"
        /\ x.phase \notin {"push", "sent"}
        /\ x.phase = "expire" => pushes[i] = 0
  <2>1. CASE JobStart(i)
    <3> DEFINE x == InPhase(job[i], IF session[i].status = "PENDING" THEN "user"
                                                                    ELSE "done")
    <3>1. /\ x \in JobState /\ x.value = job[i].value
          /\ x.phase = IF session[i].status = "PENDING" THEN "user" ELSE "done"
      BY JobRecords DEF Active
    <3>2. JobGoto(i, x) /\ job[i].phase = "waiting"
          /\ UNCHANGED <<economizado, session, pushes, faults>>
      BY <2>1 DEF JobStart
    <3>3. QED BY <1>1, <3>1, <3>2
  <2>2. CASE JobReadUser(i)
    <3> DEFINE x == Job("ask", job[i].attempts, job[i].stalls, economizado, 0)
    <3>1. x \in JobState /\ x.value = 0 /\ x.phase = "ask"
      BY <1>1, JobRecords
    <3>2. JobGoto(i, x) /\ job[i].phase = "user"
          /\ UNCHANGED <<economizado, session, pushes, faults>>
      BY <2>2 DEF JobReadUser
    <3>3. QED BY <1>1, <3>1, <3>2 DEF JobOK
  <2>3. CASE JobAsk(i)
    <3> DEFINE x == Job("persist", job[i].attempts, job[i].stalls, job[i].snapshot, total)
    <3>1. x \in JobState /\ x.value = total /\ x.phase = "persist"
      BY <1>1, JobRecords
    <3>2. /\ JobGoto(i, x) \/ JobGoto(i, Thrown(job[i]))
          /\ job[i].phase = "ask" /\ UNCHANGED <<economizado, session, pushes, faults>>
      BY <2>3 DEF JobAsk
    <3>3. session[i].status = "PENDING" /\ pushes[i] = 0
      BY <1>1, <3>2 DEF JobOK
    <3>4. CASE JobGoto(i, x)
      BY <1>1, <3>1, <3>2, <3>3, <3>4
    <3>5. CASE JobGoto(i, Thrown(job[i]))
      <4>1. /\ Thrown(job[i]) \in JobState /\ Thrown(job[i]).value = 0
            /\ Thrown(job[i]).phase \in {"waiting", "expire"}
        BY JobRecords
      <4>2. QED BY <1>1, <3>2, <3>3, <3>5, <4>1
    <3>6. QED BY <3>2, <3>4, <3>5
  <2>4. CASE JobPersist(i)
    <3> DEFINE x == InPhase(job[i], "decide")
    <3>1. x \in JobState /\ x.value = job[i].value /\ x.phase = "decide"
      BY JobRecords DEF Active
    <3>2. /\ JobGoto(i, x) /\ economizado' = Saved(job[i].snapshot, job[i].value)
          /\ job[i].phase = "persist" /\ UNCHANGED <<session, pushes, faults>>
      BY <2>4 DEF JobPersist
    <3>3. QED BY <1>1, <3>1, <3>2 DEF JobOK, Saved
  <2>5. CASE JobEnd(i) \/ ExpireFails(i)
    <3> DEFINE x == InPhase(job[i], "done")
    <3>1. x \in JobState /\ x.value = job[i].value /\ x.phase = "done"
      BY JobRecords
    <3>2. /\ JobGoto(i, x) /\ UNCHANGED <<economizado, session, pushes>>
          /\ job[i].phase \in {"sent", "expire"} /\ faults' \in Nat
      BY <1>1, <2>5 DEF JobEnd, ExpireFails, Fault
    <3>3. QED BY <1>1, <3>1, <3>2
  <2>6. CASE JobFails(i)
    <3>1. /\ JobGoto(i, Thrown(job[i])) /\ UNCHANGED <<economizado, session, pushes>>
          /\ job[i].phase \in Active \ {"sent"} /\ faults' \in Nat
      BY <1>1, <2>6 DEF JobFails, Fault
    <3>2. pushes[i] = 0
      BY <1>1, <3>1 DEF JobOK, Active
    <3>3. /\ Thrown(job[i]) \in JobState /\ Thrown(job[i]).value = 0
          /\ Thrown(job[i]).phase \in {"waiting", "expire"}
      BY JobRecords
    <3>4. QED BY <1>1, <3>1, <3>2, <3>3 DEF Active
  <2>7. QED BY <2>1, <2>2, <2>3, <2>4, <2>5, <2>6
<1>3. job'[i] = x
  BY <1>2 DEF JobGoto, Inductive, TypeOK
<1>4. JobOK(i)'
  BY <1>1, <1>2, <1>3 DEF JobOK
<1>5. QED BY <1>1, <1>2, <1>4, JobMoves

\* JobDecide keeps Inductive: the total given is kept and the session is COMPLETED, or
\* the attempt throws.
LEMMA DecideKeeps ==
  ASSUME Inductive, NEW i \in Ids, JobDecide(i)
  PROVE  Inductive'
<1>1. /\ job[i] \in JobState /\ job[i].value \in Nat
      /\ job[i].value <= total /\ JobOK(i) /\ total \in Nat
      /\ economizado \in Nat /\ economizado <= total /\ faults \in Nat
      /\ session \in Seq(Row) /\ pushes \in [Ids -> Nat]
  BY DEF Inductive, TypeOK, AnswersAreTotals, NeverOverstated, JobState
<1>2. /\ job[i].phase = "decide" /\ UNCHANGED <<pushes, faults>>
      /\ i \in DOMAIN session /\ session[i].status = "PENDING" /\ pushes[i] = 0
  BY <1>1 DEF JobDecide, JobOK
<1>3. session[i] \in Row
  BY <1>1, <1>2, ElementOfSeq
<1>4. CASE job[i].value > session[i].antes
  <2> DEFINE x == InPhase(job[i], "push")
             row == Completed(session[i], job[i].value)
  <2>1. x \in JobState /\ x.value = job[i].value /\ x.phase = "push"
    BY JobRecords DEF Active
  <2>2. row \in Row /\ row.status = "COMPLETED"
    BY <1>1, <1>3, <1>4 DEF Completed, Row
  <2>3. /\ session' = [session EXCEPT ![i] = row] /\ economizado' = job[i].value
        /\ JobGoto(i, x)
    BY <1>4 DEF JobDecide
  <2> HIDE DEF x, row
  <2>4. /\ session' \in Seq(Row) /\ Len(session') = Len(session)
        /\ DOMAIN session' = DOMAIN session /\ session'[i] = row
        /\ \A k \in DOMAIN session : k # i => session'[k] = session[k]
    BY SMTT(30), <1>1, <1>2, <2>2, <2>3, ExceptSeq
  <2>5. job'[i] = x
    BY <2>3 DEF JobGoto, Inductive, TypeOK
  <2>6. JobOK(i)'
    BY <1>2, <2>1, <2>2, <2>4, <2>5 DEF JobOK
  <2>7. QED BY <1>1, <1>2, <2>1, <2>3, <2>4, <2>6, JobMoves
<1>5. CASE ~(job[i].value > session[i].antes)
  <2> DEFINE x == Thrown(job[i])
  <2>1. JobGoto(i, x) /\ UNCHANGED <<economizado, session>>
    BY <1>5 DEF JobDecide
  <2>2. x \in JobState /\ x.phase \in {"waiting", "expire"} /\ x.value = 0
    BY JobRecords
  <2> HIDE DEF x
  <2>3. job'[i] = x
    BY <2>1 DEF JobGoto, Inductive, TypeOK
  <2>4. JobOK(i)'
    BY <1>1, <1>2, <2>1, <2>2, <2>3 DEF JobOK
  <2>5. QED BY <1>1, <1>2, <2>1, <2>2, <2>4, JobMoves
<1>6. QED BY <1>4, <1>5

\* JobPush keeps Inductive: it is the first push of the session.
LEMMA PushKeeps ==
  ASSUME Inductive, NEW i \in Ids, JobPush(i)
  PROVE  Inductive'
<1> DEFINE x == InPhase(job[i], "sent")
<1>1. /\ job[i].value <= total /\ JobOK(i)
      /\ economizado \in Nat /\ economizado <= total /\ faults \in Nat
      /\ session \in Seq(Row) /\ pushes \in [Ids -> Nat]
  BY DEF Inductive, TypeOK, AnswersAreTotals, NeverOverstated
<1>2. /\ job[i].phase = "push" /\ JobGoto(i, x)
      /\ pushes' \in {pushes, [pushes EXCEPT ![i] = @ + 1]}
      /\ UNCHANGED <<economizado, session, faults>>
  BY DEF JobPush
<1>3. x \in JobState /\ x.value = job[i].value /\ x.phase = "sent"
  BY JobRecords DEF Active
<1> HIDE DEF x
<1>4. pushes[i] = 0 /\ i \in DOMAIN session /\ session[i].status = "COMPLETED"
  BY <1>1, <1>2 DEF JobOK
<1>5. /\ pushes' \in [Ids -> Nat] /\ pushes'[i] <= 1
      /\ \A k \in Ids : k # i => pushes'[k] = pushes[k]
  <2>1. CASE pushes' = pushes
    BY <1>1, <1>4, <2>1
  <2>2. CASE pushes' = [pushes EXCEPT ![i] = @ + 1]
    BY <1>1, <1>4, <2>2
  <2>3. QED BY <1>2, <2>1, <2>2
<1>6. job'[i] = x
  BY <1>2 DEF JobGoto, Inductive, TypeOK
<1>7. JobOK(i)'
  BY <1>2, <1>3, <1>4, <1>5, <1>6 DEF JobOK
<1>8. QED BY <1>1, <1>2, <1>3, <1>5, <1>7, JobMoves

\* JobExpire keeps Inductive: whatever the status was, nobody was told of the session.
LEMMA ExpireKeeps ==
  ASSUME Inductive, NEW i \in Ids, JobExpire(i)
  PROVE  Inductive'
<1> DEFINE x == InPhase(job[i], "done")
           row == [session[i] EXCEPT !.status = "EXPIRED"]
<1>1. /\ job[i].value <= total /\ JobOK(i)
      /\ economizado \in Nat /\ economizado <= total /\ faults \in Nat
      /\ session \in Seq(Row) /\ pushes \in [Ids -> Nat]
  BY DEF Inductive, TypeOK, AnswersAreTotals, NeverOverstated
<1>2. /\ job[i].phase = "expire" /\ JobGoto(i, x)
      /\ session' = [session EXCEPT ![i] = row]
      /\ UNCHANGED <<economizado, pushes, faults>>
  BY DEF JobExpire
<1>3. x \in JobState /\ x.value = job[i].value /\ x.phase = "done"
  BY JobRecords
<1>4. pushes[i] = 0 /\ i \in DOMAIN session
  BY <1>1, <1>2 DEF JobOK
<1>5. row \in Row
  <2>1. session[i] \in Row
    BY <1>1, <1>4, ElementOfSeq
  <2>2. QED BY <2>1 DEF Row
<1> HIDE DEF x, row
<1>6. /\ session' \in Seq(Row) /\ Len(session') = Len(session)
      /\ DOMAIN session' = DOMAIN session
      /\ \A k \in DOMAIN session : k # i => session'[k] = session[k]
  BY <1>1, <1>2, <1>4, <1>5, ExceptSeq
<1>7. job'[i] = x
  BY <1>2 DEF JobGoto, Inductive, TypeOK
<1>8. JobOK(i)'
  BY <1>2, <1>3, <1>4, <1>6, <1>7 DEF JobOK
<1>9. QED BY <1>1, <1>2, <1>3, <1>6, <1>8, JobMoves

\* A crash keeps Inductive: a job that stalled after its push starts over before a
\* session that is not PENDING.
LEMMA FuelCrashKeeps ==
  ASSUME Inductive, Crash
  PROVE  Inductive'
<1>1. /\ UNCHANGED <<total, economizado, session, pushes>>
      /\ faults' = faults + 1
      /\ request' = [r \in Requests |-> Request("idle", 0, 0)]
      /\ consult' = [k \in Consults |-> Consult("idle", 0, 0)]
      /\ job' = [i \in Ids |-> Stalled(job[i])]
  BY DEF Crash, Fault
<1>2. ASSUME NEW i \in Ids
      PROVE  /\ Stalled(job[i]) \in JobState
             /\ Stalled(job[i]).phase \in {"none", "waiting", "done"}
             /\ Stalled(job[i]).phase = "none" => job[i].phase = "none"
             /\ job[i].phase = "none" => Stalled(job[i]).phase = "none"
             /\ Stalled(job[i]).value <= total
  <2>1. /\ job[i] \in JobState /\ job[i].stalls \in Nat /\ job[i].attempts \in Nat
        /\ job[i].value <= total /\ total \in Nat
    BY DEF Inductive, TypeOK, AnswersAreTotals, JobState
  <2>2. job[i].phase \in Active \cup {"none", "waiting", "expire", "done"}
    BY <2>1 DEF JobState
  <2>3. /\ InPhase(job[i], "done") \in JobState
        /\ InPhase(job[i], "done").phase = "done"
        /\ InPhase(job[i], "done").value = job[i].value
    BY JobRecords
  <2>4. CASE job[i].phase \in Active
    <3>1. job[i].phase # "none"
      BY <2>4 DEF Active
    <3>2. CASE job[i].stalls < MaxStalledCount
      <4> DEFINE x == Job("waiting", job[i].attempts, job[i].stalls + 1, 0, 0)
      <4>1. Stalled(job[i]) = x
        BY <2>4, <3>2 DEF Stalled
      <4>2. x \in JobState /\ x.phase = "waiting" /\ x.value = 0
        BY <2>1 DEF Job, JobState
      <4>3. QED BY <2>1, <3>1, <4>1, <4>2
    <3>3. CASE ~(job[i].stalls < MaxStalledCount)
      <4>1. Stalled(job[i]) = InPhase(job[i], "done")
        BY <2>4, <3>3 DEF Stalled
      <4>2. QED BY <2>1, <3>1, <4>1, <2>3
    <3>4. QED BY <3>2, <3>3
  <2>5. CASE job[i].phase = "expire"
    <3>1. Stalled(job[i]) = InPhase(job[i], "done")
      BY <2>5 DEF Stalled, Active
    <3>2. QED BY <2>1, <2>5, <3>1, <2>3
  <2>6. CASE job[i].phase \in {"none", "waiting", "done"}
    <3>1. Stalled(job[i]) = job[i]
      BY <2>6 DEF Stalled, Active
    <3>2. QED BY <2>1, <2>6, <3>1
  <2>7. QED BY <2>2, <2>4, <2>5, <2>6
<1>3. \A i \in Ids : job'[i] = Stalled(job[i])
  BY <1>1
<1>4. TypeOK'
  <2>1. request' \in [Requests -> RequestState]
    BY <1>1 DEF Request, RequestState
  <2>2. consult' \in [Consults -> ConsultState]
    BY <1>1 DEF Consult, ConsultState
  <2>3. job' \in [Ids -> JobState]
    BY <1>1, <1>2
  <2>4. QED BY <1>1, <2>1, <2>2, <2>3 DEF Inductive, TypeOK
<1>5. AnswersAreTotals'
  <2>1. \A k \in Consults : consult'[k].value = 0
    BY <1>1 DEF Consult
  <2>2. \A i \in Ids : job'[i].value <= total
    BY <1>2, <1>3
  <2>3. QED BY <1>1, <2>1, <2>2 DEF Inductive, TypeOK, AnswersAreTotals, NeverOverstated
<1>6. \A r \in Requests : RequestOK(r)'
  BY <1>1 DEF RequestOK, Request
<1>7. ASSUME NEW i \in Ids PROVE JobOK(i)'
  <2>1. JobOK(i)
    BY DEF Inductive
  <2>2. QED BY <1>1, <1>2, <1>3, <2>1 DEF JobOK
<1>8. QED BY <1>4, <1>5, <1>6, <1>7 DEF Inductive

\* Every step keeps Inductive.
LEMMA FuelStep == Inductive /\ [Next]_vars => Inductive'
<1> SUFFICES ASSUME Inductive, [Next]_vars PROVE Inductive'
  OBVIOUS
<1>1. CASE Refuel
  <2>1. total' = total + 1
        /\ UNCHANGED <<economizado, session, request, consult, job, pushes, faults>>
    BY <1>1 DEF Refuel
  <2>2. TypeOK'
    BY <2>1 DEF Inductive, TypeOK
  <2>3. AnswersAreTotals'
    <3>1. economizado <= total + 1
      BY DEF Inductive, TypeOK, AnswersAreTotals, NeverOverstated
    <3>2. \A k \in Consults : consult[k].value <= total + 1
      BY DEF Inductive, TypeOK, AnswersAreTotals, ConsultState
    <3>3. \A i \in Ids : job[i].value <= total + 1
      BY DEF Inductive, TypeOK, AnswersAreTotals, JobState
    <3>4. QED BY <2>1, <3>1, <3>2, <3>3 DEF AnswersAreTotals, NeverOverstated
  <2>4. (\A r \in Requests : RequestOK(r)') /\ (\A i \in Ids : JobOK(i)')
    BY <2>1 DEF Inductive, RequestOK, JobOK
  <2>5. QED BY <2>2, <2>3, <2>4 DEF Inductive
<1>2. CASE Crash
  BY <1>2, FuelCrashKeeps
<1>3. ASSUME NEW r \in Requests, RequestStep(r) \/ RequestFails(r) PROVE Inductive'
  <2>1. faults \in Nat /\ economizado \in Nat
    BY DEF Inductive, TypeOK
  <2>2. \A p \in {"idle", "user", "create"}, a \in Nat :
          Request(p, a, 0) \in RequestState /\ Request(p, a, 0).phase = p
    BY DEF Request, RequestState
  <2>3. CASE CheckPending(r)
    <3>1. CASE UNCHANGED vars
      BY <3>1 DEF Inductive, TypeOK, AnswersAreTotals, NeverOverstated, RequestOK, JobOK, vars
    <3>2. CASE RequestGoto(r, Request("user", 0, 0)) /\ UNCHANGED <<session, job, faults>>
      BY <2>1, <2>2, <3>2, RequestMoves
    <3>3. QED BY <2>3, <3>1, <3>2 DEF CheckPending
  <2>4. CASE ReadBefore(r)
    BY <2>1, <2>2, <2>4, RequestMoves DEF ReadBefore
  <2>5. CASE CreatePending(r)
    BY <2>5, CreateKeeps
  <2>6. CASE Enqueue(r)
    BY <2>6, EnqueueKeeps
  <2>7. CASE CreateBeyondBound(r)
    BY <2>1, <2>2, <2>7, RequestMoves DEF CreateBeyondBound
  <2>8. CASE RequestFails(r)
    BY <2>1, <2>2, <2>8, RequestMoves DEF RequestFails, Fault
  <2>9. QED BY <1>3, <2>3, <2>4, <2>5, <2>6, <2>7, <2>8 DEF RequestStep
<1>4. ASSUME NEW k \in Consults, ConsultStep(k) PROVE Inductive'
  BY <1>4, ConsultKeeps
<1>5. ASSUME NEW i \in Ids, JobStep(i) \/ JobFails(i) \/ ExpireFails(i) PROVE Inductive'
  BY <1>5, QuietJobStepKeeps, DecideKeeps, PushKeeps, ExpireKeeps DEF JobStep
<1>6. CASE UNCHANGED vars
  BY <1>6 DEF Inductive, TypeOK, AnswersAreTotals, NeverOverstated, RequestOK, JobOK, vars
<1>7. QED BY <1>1, <1>2, <1>3, <1>4, <1>5, <1>6 DEF Next

\* FuelSession: Inductive always holds, and with it the three properties.
LEMMA FuelIsSafe ==
  Inductive => NeverOverstated /\ PushAtMostOnce /\ NotifiedStaysCompleted
<1> SUFFICES ASSUME Inductive
             PROVE NeverOverstated /\ PushAtMostOnce /\ NotifiedStaysCompleted
  OBVIOUS
<1>1. DOMAIN session \subseteq Ids
  BY DEF Inductive, TypeOK, Ids, FuelSessionAssumption
<1>2. QED
  BY <1>1 DEF Inductive, AnswersAreTotals, PushAtMostOnce, NotifiedStaysCompleted, JobOK

\* The total kept for the user never exceeds what ClubGas has given, for any number of
\* requests, consultations and sessions that overlap, and whatever fails.
THEOREM NeverOverstatedHolds == Spec => []NeverOverstated
<1>1. Init => Inductive
  BY FuelInit
<1>2. Inductive /\ [Next]_vars => Inductive'
  BY FuelStep
<1>3. Inductive => NeverOverstated
  BY FuelIsSafe
<1>4. QED BY <1>1, <1>2, <1>3, PTL DEF Spec

(***************************************************************************)
(* WebhookEvents.                                                          *)
(***************************************************************************)

\* What a job that there is looks like, and its phase when there is none.
LEMMA WebhookJobFields ==
  ASSUME Webhook!TypeOK, NEW i \in Webhook!JobIds
  PROVE  /\ webhookJob[i].phase # "none" => i \in Webhook!Queued
         /\ i \in Webhook!Queued => webhookJob[i] \in Webhook!JobState
<1>1. i \notin Webhook!Queued => webhookJob[i].phase = "none"
  BY DEF Webhook!Queued, Webhook!NoJob
<1>2. QED BY <1>1 DEF Webhook!TypeOK

\* Inductive holds at the start: there is no job.
LEMMA WebhookInit == Webhook!Init => Webhook!Inductive
<1> SUFFICES ASSUME Webhook!Init PROVE Webhook!Inductive
  OBVIOUS
<1>1. Webhook!Queued = {} /\ DOMAIN webhookJob = Webhook!JobIds
  BY DEF Webhook!Init, Webhook!Queued, Webhook!NoJob
<1>2. queue \in Seq(Webhook!Queued)
  BY DEF Webhook!Init
<1>3. /\ saved \in [Webhook!JobIds -> Nat]
      /\ rows \in [Webhook!JobIds -> [Users -> Nat]]
      /\ delivered \in [Webhook!JobIds -> [Users -> Nat]]
      /\ pref \in [Users -> BOOLEAN] /\ token \in [Users -> BOOLEAN]
      /\ changes \in Nat /\ failures \in Nat /\ crashes \in Nat
  BY DEF Webhook!Init
<1>4. Webhook!TypeOK
  BY <1>1, <1>2, <1>3 DEF Webhook!TypeOK
<1>5. ASSUME NEW i \in Webhook!JobIds PROVE Webhook!RowsLead(i)
  <2>1. webhookJob[i].phase # "push"
    BY DEF Webhook!Init, Webhook!NoJob
  <2>2. \A u \in Users : rows[i][u] = 0 /\ delivered[i][u] = 0
    BY DEF Webhook!Init
  <2>3. QED BY <2>1, <2>2 DEF Webhook!RowsLead
<1>6. QED BY <1>1, <1>4, <1>5 DEF Webhook!Inductive

\* A step of one job, from one record to another, keeps Inductive if it leaves the
\* rows and the pushes of the other jobs alone and its own in order.
LEMMA WebhookJobMoves ==
  ASSUME Webhook!Inductive, NEW i \in Webhook!JobIds, NEW x \in Webhook!JobState,
         webhookJob' = [webhookJob EXCEPT ![i] = x], x.phase # "none",
         queue' \in Seq(Webhook!Queued'),
         pref' = pref, token' = token, changes' = changes, crashes' \in Nat,
         failures' \in Nat, failures' = 0 => failures = 0,
         saved' \in [Webhook!JobIds -> Nat],
         rows' \in [Webhook!JobIds -> [Users -> Nat]],
         delivered' \in [Webhook!JobIds -> [Users -> Nat]],
         \A k \in Webhook!JobIds : k # i =>
           rows'[k] = rows[k] /\ delivered'[k] = delivered[k],
         Webhook!RowsLead(i)',
         failures' = 0 /\ changes' = 0 => Webhook!NobodyIsLost(i)'
  PROVE  Webhook!Inductive'
<1>1. /\ DOMAIN webhookJob' = Webhook!JobIds
      /\ webhookJob'[i] = x
      /\ \A k \in Webhook!JobIds : k # i => webhookJob'[k] = webhookJob[k]
  BY DEF Webhook!Inductive, Webhook!TypeOK
<1>2. \A k \in Webhook!JobIds : k # i => (k \in Webhook!Queued' <=> k \in Webhook!Queued)
  BY <1>1 DEF Webhook!Queued
<1>3. ASSUME NEW k \in Webhook!Queued' PROVE webhookJob'[k] \in Webhook!JobState
  <2>1. k \in Webhook!JobIds
    BY DEF Webhook!Queued
  <2>2. CASE k = i
    BY <1>1, <2>2
  <2>3. CASE k # i
    BY <1>1, <1>2, <2>1, <2>3 DEF Webhook!Inductive, Webhook!TypeOK
  <2>4. QED BY <2>2, <2>3
<1>4. Webhook!TypeOK'
  BY <1>1, <1>3 DEF Webhook!Inductive, Webhook!TypeOK
<1>5. ASSUME NEW k \in Webhook!JobIds PROVE Webhook!RowsLead(k)'
  <2>1. CASE k = i
    BY <2>1
  <2>2. CASE k # i
    <3>1. Webhook!RowsLead(k)
      BY DEF Webhook!Inductive
    <3>2. QED
      BY <1>1, <2>2, <3>1, <1>3 DEF Webhook!RowsLead
  <2>3. QED BY <2>1, <2>2
<1>6. ASSUME failures' = 0, changes' = 0, NEW k \in Webhook!Queued'
      PROVE  Webhook!NobodyIsLost(k)'
  <2>1. CASE k = i
    BY <1>6, <2>1
  <2>2. CASE k # i
    <3>1. k \in Webhook!JobIds /\ webhookJob'[k] = webhookJob[k] /\ k \in Webhook!Queued
      BY <1>1, <1>2, <2>2 DEF Webhook!Queued
    <3>2. Webhook!NobodyIsLost(k)
      BY <1>6, <3>1 DEF Webhook!Inductive
    <3>3. Webhook!Recipients(webhookJob[k].event)' = Webhook!Recipients(webhookJob[k].event)
      BY <3>1 DEF Webhook!Recipients
    <3>4. webhookJob[k].event \in Webhook!Event
      BY <3>1 DEF Webhook!Inductive, Webhook!TypeOK, Webhook!JobState
    <3>5. Webhook!Recipients(webhookJob[k].event) \subseteq Users
      BY <3>4 DEF Webhook!Recipients, Webhook!Event
    <3>6. QED
      BY <2>2, <3>1, <3>2, <3>3, <3>5 DEF Webhook!NobodyIsLost
  <2>3. QED BY <2>1, <2>2
<1>7. QED BY <1>4, <1>5, <1>6 DEF Webhook!Inductive

\* A step that changes nothing but the phase, the users to come and the user of a job
\* keeps Inductive.
LEMMA WebhookPhaseMoves ==
  ASSUME Webhook!Inductive, NEW i \in Webhook!JobIds, NEW x \in Webhook!JobState,
         webhookJob' = [webhookJob EXCEPT ![i] = x], i \in Webhook!Queued,
         UNCHANGED <<pref, token, queue, rows, delivered, changes, crashes>>,
         failures' \in Nat, failures' = 0 => failures = 0,
         saved' \in [Webhook!JobIds -> Nat],
         x.phase \notin {"none", "push"},
         x.event = webhookJob[i].event,
         failures' = 0 /\ changes = 0 => Webhook!NobodyIsLost(i)'
  PROVE  Webhook!Inductive'
<1>1. /\ DOMAIN webhookJob = Webhook!JobIds /\ crashes \in Nat
      /\ queue \in Seq(Webhook!Queued)
      /\ rows \in [Webhook!JobIds -> [Users -> Nat]]
      /\ delivered \in [Webhook!JobIds -> [Users -> Nat]]
  BY DEF Webhook!Inductive, Webhook!TypeOK
<1>2. webhookJob'[i] = x /\ \A k \in Webhook!JobIds : k # i => webhookJob'[k] = webhookJob[k]
  BY <1>1
<1>3. Webhook!Queued \subseteq Webhook!Queued'
  <2>1. x # Webhook!NoJob
    BY DEF Webhook!NoJob
  <2>2. QED BY <1>2, <2>1 DEF Webhook!Queued
<1>4. queue' \in Seq(Webhook!Queued')
  BY <1>1, <1>3
<1>5. Webhook!RowsLead(i)'
  <2>1. Webhook!RowsLead(i)
    BY DEF Webhook!Inductive
  <2>2. QED BY <1>2, <2>1 DEF Webhook!RowsLead
<1>6. QED BY <1>1, <1>4, <1>5, WebhookJobMoves

\* The steps of a job that make no row and send nothing keep Inductive.
LEMMA WebhookQuietStepKeeps ==
  ASSUME Webhook!Inductive, NEW i \in Webhook!JobIds,
         \/ Webhook!Save(i) \/ Webhook!SaveFails(i) \/ Webhook!ReadRecipients(i)
         \/ Webhook!ReadFails(i) \/ Webhook!Complete(i)
         \/ \E u \in Users : Webhook!NextUser(i, u)
  PROVE  Webhook!Inductive'
<1> DEFINE job0 == webhookJob[i]
<1>1. /\ Webhook!TypeOK /\ failures \in Nat /\ changes \in Nat
      /\ saved \in [Webhook!JobIds -> Nat] /\ DOMAIN webhookJob = Webhook!JobIds
      /\ pref \in [Users -> BOOLEAN] /\ token \in [Users -> BOOLEAN]
  BY DEF Webhook!Inductive, Webhook!TypeOK
<1>2. i \in Webhook!Queued /\ job0 \in Webhook!JobState
  <2>1. job0.phase \in {"save", "read", "next", "row"}
    BY DEF Webhook!Save, Webhook!SaveFails, Webhook!ReadRecipients, Webhook!ReadFails,
           Webhook!Complete, Webhook!NextUser
  <2>2. QED BY <1>1, <2>1, WebhookJobFields
<1>3. PICK e \in Webhook!Event, p \in {"waiting", "save", "read", "next", "row", "push",
                                       "done", "failed"},
           t \in SUBSET Users, v \in SUBSET Users, n \in Nat :
        job0 = [event |-> e, phase |-> p, todo |-> t, user |-> v, stalls |-> n]
  BY <1>2 DEF Webhook!JobState
<1>4. job0.event = e /\ job0.phase = p /\ job0.todo = t /\ job0.user = v
  BY <1>3
<1>5. Webhook!Recipients(e) \subseteq Users /\ Webhook!Recipients(e)' \subseteq Users
  BY DEF Webhook!Recipients, Webhook!Event
<1>6. failures = 0 /\ changes = 0 => Webhook!NobodyIsLost(i)
  BY <1>2 DEF Webhook!Inductive
<1>7. \A y \in {"read", "done"} :
        LET x == [job0 EXCEPT !.phase = y]
        IN x = [event |-> e, phase |-> y, todo |-> t, user |-> v, stalls |-> n]
  BY <1>3
<1>8. ASSUME Webhook!Save(i) \/ Webhook!SaveFails(i) PROVE Webhook!Inductive'
  <2> DEFINE x == [event |-> e, phase |-> "read", todo |-> t, user |-> v, stalls |-> n]
  <2>1. x \in Webhook!JobState /\ x.phase = "read" /\ x.event = job0.event
    BY <1>3 DEF Webhook!JobState
  <2>2. [job0 EXCEPT !.phase = "read"] = x
    BY <1>7
  <2>3. /\ webhookJob' = [webhookJob EXCEPT ![i] = x]
        /\ UNCHANGED <<pref, token, queue, rows, delivered, changes, crashes>>
        /\ failures' \in Nat
        /\ failures' = 0 => failures = 0
    BY <1>1, <1>8, <2>2 DEF Webhook!Save, Webhook!SaveFails, Webhook!SetJob, Webhook!people,
                       Webhook!faults, Webhook!tables
  <2>4. saved' \in [Webhook!JobIds -> Nat]
    BY <1>1, <1>8 DEF Webhook!Save, Webhook!SaveFails, Webhook!tables
  <2> HIDE DEF x
  <2>5. webhookJob'[i] = x
    BY <1>1, <2>3
  <2>6. Webhook!NobodyIsLost(i)'
    BY <2>1, <2>5 DEF Webhook!NobodyIsLost
  <2>7. QED BY <1>2, <2>1, <2>3, <2>4, <2>6, WebhookPhaseMoves
<1>9. ASSUME Webhook!ReadFails(i) PROVE Webhook!Inductive'
  <2> DEFINE x == [event |-> e, phase |-> "done", todo |-> t, user |-> v, stalls |-> n]
  <2>1. x \in Webhook!JobState /\ x.phase = "done" /\ x.event = job0.event
    BY <1>3 DEF Webhook!JobState
  <2>2. [job0 EXCEPT !.phase = "done"] = x
    BY <1>7
  <2>3. /\ webhookJob' = [webhookJob EXCEPT ![i] = x]
        /\ UNCHANGED <<pref, token, queue, saved, rows, delivered, changes, crashes>>
        /\ failures' \in Nat /\ failures' # 0
    <3>1. webhookJob' = [webhookJob EXCEPT ![i] = [job0 EXCEPT !.phase = "done"]]
      BY <1>1, <1>9 DEF Webhook!ReadFails, Webhook!SetJob
    <3>2. /\ UNCHANGED <<pref, token, queue, saved, rows, delivered, changes, crashes>>
          /\ failures' \in Nat /\ failures' # 0
      BY <1>1, <1>9 DEF Webhook!ReadFails, Webhook!people, Webhook!tables
    <3>3. QED BY <2>2, <3>1, <3>2
  <2> HIDE DEF x
  <2>4. QED BY <1>1, <1>2, <2>1, <2>3, WebhookPhaseMoves
<1>10. ASSUME Webhook!Complete(i) PROVE Webhook!Inductive'
  <2> DEFINE x == [event |-> e, phase |-> "done", todo |-> t, user |-> v, stalls |-> n]
  <2>1. /\ x \in Webhook!JobState /\ x.phase = "done" /\ x.event = e
        /\ x.todo = t /\ x.event = job0.event
    BY <1>3 DEF Webhook!JobState
  <2>2. [job0 EXCEPT !.phase = "done"] = x
    BY <1>7
  <2>3. /\ webhookJob' = [webhookJob EXCEPT ![i] = x]
        /\ UNCHANGED <<pref, token, queue, saved, rows, delivered, changes, crashes, failures>>
        /\ p = "next" /\ t = {}
    <3>1. webhookJob' = [webhookJob EXCEPT ![i] = [job0 EXCEPT !.phase = "done"]]
      BY <1>1, <1>10 DEF Webhook!Complete, Webhook!SetJob
    <3>2. UNCHANGED <<pref, token, queue, saved, rows, delivered, changes, crashes, failures>>
      BY <1>10 DEF Webhook!Complete, Webhook!people, Webhook!tables, Webhook!faults
    <3>3. job0.phase = "next" /\ job0.todo = {}
      BY <1>10 DEF Webhook!Complete
    <3>4. QED BY <1>4, <2>2, <3>1, <3>2, <3>3
  <2> HIDE DEF x
  <2>4. webhookJob'[i] = x
    BY <1>1, <2>3
  <2>5. ASSUME failures' = 0, changes = 0 PROVE Webhook!NobodyIsLost(i)'
    <3>1. \A u \in Webhook!Recipients(e) : rows[i][u] > 0
      BY <1>3, <1>6, <2>3, <2>5 DEF Webhook!NobodyIsLost
    <3>2. Webhook!Recipients(e)' = Webhook!Recipients(e)
      BY <2>3 DEF Webhook!Recipients
    <3>3. QED BY <2>1, <2>3, <2>4, <3>1, <3>2 DEF Webhook!NobodyIsLost
  <2>6. QED BY <1>1, <1>2, <2>1, <2>3, <2>5, WebhookPhaseMoves
<1>11. ASSUME Webhook!ReadRecipients(i) PROVE Webhook!Inductive'
  <2> DEFINE x == [event |-> e, phase |-> "next", todo |-> Webhook!Recipients(e),
                   user |-> v, stalls |-> n]
  <2>1. /\ x \in Webhook!JobState /\ x.phase = "next" /\ x.event = e
        /\ x.todo = Webhook!Recipients(e) /\ x.event = job0.event
    BY <1>3, <1>5 DEF Webhook!JobState
  <2>2. [job0 EXCEPT !.phase = "next", !.todo = Webhook!Recipients(job0.event)] = x
    <3> DEFINE rec == [event |-> e, phase |-> "next", todo |-> t, user |-> v, stalls |-> n]
               set == Webhook!Recipients(e)
    <3>1. [job0 EXCEPT !.phase = "next"] = rec
      BY <1>3
    <3>2. [rec EXCEPT !.todo = set] = x
      OBVIOUS
    <3> HIDE DEF rec, x, set
    <3>3. [job0 EXCEPT !.phase = "next", !.todo = set]
          = [[job0 EXCEPT !.phase = "next"] EXCEPT !.todo = set]
      OBVIOUS
    <3>4. QED BY <1>4, <3>1, <3>2, <3>3 DEF set
  <2>3. /\ webhookJob' = [webhookJob EXCEPT ![i] = x]
        /\ UNCHANGED <<pref, token, queue, saved, rows, delivered, changes, crashes, failures>>
    <3>1. webhookJob' = [webhookJob EXCEPT ![i] =
            [job0 EXCEPT !.phase = "next", !.todo = Webhook!Recipients(job0.event)]]
      BY <1>1, <1>11 DEF Webhook!ReadRecipients
    <3>2. UNCHANGED <<pref, token, queue, saved, rows, delivered, changes, crashes, failures>>
      BY <1>11 DEF Webhook!ReadRecipients, Webhook!people, Webhook!tables, Webhook!faults
    <3>3. QED BY <2>2, <3>1, <3>2
  <2> HIDE DEF x
  <2>4. webhookJob'[i] = x
    BY <1>1, <2>3
  <2>5. Webhook!NobodyIsLost(i)'
    <3>1. Webhook!Recipients(e)' = Webhook!Recipients(e)
      BY <2>3 DEF Webhook!Recipients
    <3>2. QED BY <2>1, <2>4, <3>1 DEF Webhook!NobodyIsLost
  <2>6. QED BY <1>1, <1>2, <2>1, <2>3, <2>5, WebhookPhaseMoves
<1>12. ASSUME NEW u \in Users, Webhook!NextUser(i, u) PROVE Webhook!Inductive'
  <2> DEFINE skipped == e.kind = "ignition" /\ ~pref[u]
             x == [event |-> e, phase |-> IF skipped THEN "next" ELSE "row",
                   todo |-> t \ {u}, user |-> {u}, stalls |-> n]
  <2>1. /\ x \in Webhook!JobState /\ x.phase = (IF skipped THEN "next" ELSE "row")
        /\ x.event = e /\ x.todo = t \ {u} /\ x.user = {u} /\ x.event = job0.event
    BY <1>3 DEF Webhook!JobState
  <2>2. [job0 EXCEPT !.todo = @ \ {u}, !.user = {u},
                     !.phase = IF job0.event.kind = "ignition" /\ ~pref[u]
                               THEN "next" ELSE "row"] = x
    <3> DEFINE y    == IF skipped THEN "next" ELSE "row"
               set  == t \ {u}
               one  == {u}
               rec1 == [event |-> e, phase |-> p, todo |-> set, user |-> v, stalls |-> n]
               rec2 == [event |-> e, phase |-> p, todo |-> set, user |-> one, stalls |-> n]
               rec3 == [event |-> e, phase |-> y, todo |-> set, user |-> one, stalls |-> n]
    <3>1. /\ y = IF job0.event.kind = "ignition" /\ ~pref[u] THEN "next" ELSE "row"
          /\ set = job0.todo \ {u} /\ one = {u} /\ x = rec3
      BY <1>4
    <3> HIDE DEF set, y, one
    <3>2. [job0 EXCEPT !.todo = set] = rec1
      BY <1>3
    <3>3. [rec1 EXCEPT !.user = one] = rec2
      OBVIOUS
    <3>4. [rec2 EXCEPT !.phase = y] = rec3
      OBVIOUS
    <3> HIDE DEF rec1, rec2, rec3, x
    <3>5. [job0 EXCEPT !.todo = set, !.user = one, !.phase = y]
          = [[[job0 EXCEPT !.todo = set] EXCEPT !.user = one] EXCEPT !.phase = y]
      OBVIOUS
    <3>6. QED BY <3>1, <3>2, <3>3, <3>4, <3>5
  <2>3. webhookJob' = [webhookJob EXCEPT ![i] = x]
    <3>1. webhookJob' = [webhookJob EXCEPT ![i] =
            [job0 EXCEPT !.todo = @ \ {u}, !.user = {u},
                         !.phase = IF job0.event.kind = "ignition" /\ ~pref[u]
                                   THEN "next" ELSE "row"]]
      BY <1>1, <1>12 DEF Webhook!NextUser
    <3>2. QED BY <2>2, <3>1
  <2>4. /\ UNCHANGED <<pref, token, queue, saved, rows, delivered, changes, crashes, failures>>
        /\ p = "next"
    <3>1. UNCHANGED <<pref, token, queue, saved, rows, delivered, changes, crashes, failures>>
      BY <1>12 DEF Webhook!NextUser, Webhook!people, Webhook!tables, Webhook!faults
    <3>2. job0.phase = "next"
      BY <1>12 DEF Webhook!NextUser
    <3>3. QED BY <1>4, <3>1, <3>2
  <2>5. skipped => u \notin Webhook!Recipients(e)
    BY DEF Webhook!Recipients
  <2> HIDE DEF x, skipped
  <2>6. webhookJob'[i] = x
    BY <1>1, <2>3
  <2>7. ASSUME failures' = 0, changes = 0 PROVE Webhook!NobodyIsLost(i)'
    <3>1. \A w \in Webhook!Recipients(e) : w \in t \/ rows[i][w] > 0
      BY <1>3, <1>6, <2>4, <2>7 DEF Webhook!NobodyIsLost
    <3>2. Webhook!Recipients(e)' = Webhook!Recipients(e)
      BY <2>4 DEF Webhook!Recipients
    <3>3. \A w \in Webhook!Recipients(e) :
            w \in x.todo \/ (x.phase = "row" /\ w \in x.user) \/ rows[i][w] > 0
      BY <2>1, <2>5, <3>1
    <3>4. x.phase # "done"
      BY <2>1
    <3>5. QED BY <2>1, <2>4, <2>6, <3>2, <3>3, <3>4 DEF Webhook!NobodyIsLost
  <2>8. x.phase \notin {"none", "push"}
    BY <2>1
  <2>9. QED BY <1>1, <1>2, <2>1, <2>3, <2>4, <2>7, <2>8, WebhookPhaseMoves
<1>13. QED BY <1>8, <1>9, <1>10, <1>11, <1>12

\* SaveRow and Push keep Inductive: the row comes first and only then the push, and the
\* user served has a row from then on.
LEMMA WebhookServeKeeps ==
  ASSUME Webhook!Inductive, NEW i \in Webhook!JobIds, NEW u \in Users,
         Webhook!SaveRow(i, u) \/ Webhook!Push(i, u)
  PROVE  Webhook!Inductive'
<1> DEFINE job0 == webhookJob[i]
<1>1. /\ Webhook!TypeOK /\ failures \in Nat /\ changes \in Nat /\ crashes \in Nat
      /\ saved \in [Webhook!JobIds -> Nat] /\ DOMAIN webhookJob = Webhook!JobIds
      /\ queue \in Seq(Webhook!Queued)
      /\ rows \in [Webhook!JobIds -> [Users -> Nat]]
      /\ delivered \in [Webhook!JobIds -> [Users -> Nat]]
  BY DEF Webhook!Inductive, Webhook!TypeOK
<1>2. i \in Webhook!Queued /\ job0 \in Webhook!JobState
  <2>1. job0.phase \in {"row", "push"}
    BY DEF Webhook!SaveRow, Webhook!Push
  <2>2. QED BY <1>1, <2>1, WebhookJobFields
<1>3. /\ job0.event \in Webhook!Event
      /\ Webhook!RowsLead(i)
      /\ failures = 0 /\ changes = 0 => Webhook!NobodyIsLost(i)
  BY <1>2 DEF Webhook!JobState, Webhook!Inductive
<1>4. Webhook!Recipients(job0.event) \subseteq Users
  BY <1>3 DEF Webhook!Recipients, Webhook!Event
<1>5. ASSUME NEW y \in {"next", "push"}, webhookJob' = [webhookJob EXCEPT ![i].phase = y]
      PROVE  \E x \in Webhook!JobState :
               /\ webhookJob' = [webhookJob EXCEPT ![i] = x]
               /\ webhookJob'[i] = x /\ x.phase = y /\ x.event = job0.event
               /\ x.todo = job0.todo /\ x.user = job0.user
               /\ Webhook!Queued \subseteq Webhook!Queued'
  <2> DEFINE x == [job0 EXCEPT !.phase = y]
  <2>1. /\ x \in Webhook!JobState /\ x.phase = y /\ x.event = job0.event
        /\ x.todo = job0.todo /\ x.user = job0.user
    BY <1>2 DEF Webhook!JobState
  <2>2. webhookJob' = [webhookJob EXCEPT ![i] = x]
    BY <1>5
  <2> HIDE DEF x
  <2>3. webhookJob'[i] = x /\ \A k \in Webhook!JobIds : k # i => webhookJob'[k] = webhookJob[k]
    BY <1>1, <2>2
  <2>4. x # Webhook!NoJob
    BY <2>1 DEF Webhook!NoJob
  <2>5. Webhook!Queued \subseteq Webhook!Queued'
    BY <2>3, <2>4 DEF Webhook!Queued
  <2>6. QED BY <2>1, <2>2, <2>3, <2>5
<1>6. CASE Webhook!SaveRow(i, u)
  <2>1. /\ job0.phase = "row" /\ job0.user = {u}
        /\ rows' = [rows EXCEPT ![i][u] = @ + 1]
        /\ UNCHANGED <<pref, token, queue, saved, delivered, changes, failures, crashes>>
    BY <1>6 DEF Webhook!SaveRow, Webhook!people, Webhook!faults
  <2>2. webhookJob' = [webhookJob EXCEPT ![i].phase = "push"]
    BY <1>6 DEF Webhook!SaveRow, Webhook!SetJob
  <2>3. PICK x \in Webhook!JobState :
          /\ webhookJob' = [webhookJob EXCEPT ![i] = x]
          /\ webhookJob'[i] = x /\ x.phase = "push" /\ x.event = job0.event
          /\ x.todo = job0.todo /\ x.user = job0.user
          /\ Webhook!Queued \subseteq Webhook!Queued'
    BY <1>5, <2>2
  <2>4. /\ rows' \in [Webhook!JobIds -> [Users -> Nat]]
        /\ \A k \in Webhook!JobIds : k # i => rows'[k] = rows[k]
        /\ rows'[i][u] = rows[i][u] + 1
        /\ \A w \in Users : w # u => rows'[i][w] = rows[i][w]
    BY <1>1, <2>1
  <2>5. Webhook!RowsLead(i)'
    <3>1. \A w \in Users : delivered[i][w] \in Nat /\ rows[i][w] \in Nat
      BY <1>1
    <3>2. \A w \in Users : delivered[i][w] <= rows'[i][w]
      BY <1>3, <2>4, <3>1 DEF Webhook!RowsLead
    <3>3. delivered[i][u] < rows'[i][u]
      BY <1>3, <2>4, <3>1 DEF Webhook!RowsLead
    <3>4. QED BY <2>1, <2>3, <3>2, <3>3 DEF Webhook!RowsLead
  <2>6. ASSUME failures' = 0, changes' = 0 PROVE Webhook!NobodyIsLost(i)'
    <3>1. rows[i][u] \in Nat
      BY <1>1
    <3>2. \A w \in Webhook!Recipients(job0.event) : w \in job0.todo \/ rows'[i][w] > 0
      BY <1>3, <1>4, <2>1, <2>4, <2>6, <3>1 DEF Webhook!NobodyIsLost
    <3>3. Webhook!Recipients(job0.event)' = Webhook!Recipients(webhookJob'[i].event)
      BY <2>1 DEF Webhook!Recipients
    <3>4. Webhook!Recipients(webhookJob'[i].event) = Webhook!Recipients(job0.event)
      BY <2>3
    <3>5. (Webhook!Recipients(webhookJob[i].event))' = Webhook!Recipients(job0.event)
      BY <3>3, <3>4
    <3>6. QED BY <2>3, <3>2, <3>5 DEF Webhook!NobodyIsLost
  <2>7. queue' \in Seq(Webhook!Queued')
    BY <1>1, <2>1, <2>3
  <2>8. QED BY <1>1, <2>1, <2>3, <2>4, <2>5, <2>6, <2>7, WebhookJobMoves
<1>7. CASE Webhook!Push(i, u)
  <2>1. PICK d \in 0..1 :
          /\ job0.phase = "push" /\ job0.user = {u}
          /\ delivered' = [delivered EXCEPT ![i][u] = @ + d]
          /\ UNCHANGED <<pref, token, queue, saved, rows, changes, failures, crashes>>
    BY <1>7 DEF Webhook!Push, Webhook!people, Webhook!faults, Webhook!tables
  <2>2. webhookJob' = [webhookJob EXCEPT ![i].phase = "next"]
    BY <1>7 DEF Webhook!Push, Webhook!SetJob
  <2>3. PICK x \in Webhook!JobState :
          /\ webhookJob' = [webhookJob EXCEPT ![i] = x]
          /\ webhookJob'[i] = x /\ x.phase = "next" /\ x.event = job0.event
          /\ x.todo = job0.todo /\ x.user = job0.user
          /\ Webhook!Queued \subseteq Webhook!Queued'
    BY <1>5, <2>2
  <2>4. /\ delivered' \in [Webhook!JobIds -> [Users -> Nat]]
        /\ \A k \in Webhook!JobIds : k # i => delivered'[k] = delivered[k]
        /\ delivered'[i][u] = delivered[i][u] + d
        /\ \A w \in Users : w # u => delivered'[i][w] = delivered[i][w]
    BY <1>1, <2>1
  <2>5. Webhook!RowsLead(i)'
    <3>1. \A w \in Users : delivered[i][w] \in Nat /\ rows[i][w] \in Nat
      BY <1>1
    <3>2. delivered[i][u] < rows[i][u] /\ \A w \in Users : delivered[i][w] <= rows[i][w]
      BY <1>3, <2>1 DEF Webhook!RowsLead
    <3>3. \A w \in Users : delivered'[i][w] <= rows[i][w]
      BY <2>1, <2>4, <3>1, <3>2
    <3>4. QED BY <2>1, <2>3, <3>3 DEF Webhook!RowsLead
  <2>6. ASSUME failures' = 0, changes' = 0 PROVE Webhook!NobodyIsLost(i)'
    <3>1. \A w \in Webhook!Recipients(job0.event) : w \in job0.todo \/ rows[i][w] > 0
      BY <1>3, <2>1, <2>6 DEF Webhook!NobodyIsLost
    <3>2. (Webhook!Recipients(webhookJob[i].event))' = Webhook!Recipients(webhookJob'[i].event)
      BY <2>1 DEF Webhook!Recipients
    <3>3. (Webhook!Recipients(webhookJob[i].event))' = Webhook!Recipients(job0.event)
      BY <2>3, <3>2
    <3>4. QED BY <2>1, <2>3, <3>1, <3>3 DEF Webhook!NobodyIsLost
  <2>7. queue' \in Seq(Webhook!Queued')
    BY <1>1, <2>1, <2>3
  <2>8. QED BY <1>1, <2>1, <2>3, <2>4, <2>5, <2>6, <2>7, WebhookJobMoves
<1>8. QED BY <1>6, <1>7

\* The endpoint, which queues a new job, keeps Inductive.
LEMMA WebhookEndpointKeeps ==
  ASSUME Webhook!Inductive, NEW i \in Webhook!JobIds, NEW e \in Webhook!Event,
         Webhook!Webhook(i, e)
  PROVE  Webhook!Inductive'
<1> DEFINE x == [event |-> e, phase |-> "waiting", todo |-> {}, user |-> {}, stalls |-> 0]
<1>1. /\ failures \in Nat /\ crashes \in Nat /\ DOMAIN webhookJob = Webhook!JobIds
      /\ saved \in [Webhook!JobIds -> Nat] /\ queue \in Seq(Webhook!Queued)
      /\ rows \in [Webhook!JobIds -> [Users -> Nat]]
      /\ delivered \in [Webhook!JobIds -> [Users -> Nat]]
  BY DEF Webhook!Inductive, Webhook!TypeOK
<1>2. /\ i \notin Webhook!Queued
      /\ webhookJob' = [webhookJob EXCEPT ![i] = x] /\ queue' = Append(queue, i)
      /\ UNCHANGED <<pref, token, saved, rows, delivered, changes, failures, crashes>>
  BY DEF Webhook!Webhook, Webhook!people, Webhook!tables, Webhook!faults
<1>3. x \in Webhook!JobState /\ x.phase = "waiting" /\ x # Webhook!NoJob
  BY DEF Webhook!JobState, Webhook!NoJob
<1> HIDE DEF x
<1>4. webhookJob'[i] = x /\ \A k \in Webhook!JobIds : k # i => webhookJob'[k] = webhookJob[k]
  BY <1>1, <1>2
<1>5. Webhook!Queued \subseteq Webhook!Queued' /\ i \in Webhook!Queued'
  BY <1>3, <1>4 DEF Webhook!Queued
<1>6. queue' \in Seq(Webhook!Queued')
  BY <1>1, <1>2, <1>5
<1>7. Webhook!RowsLead(i)'
  <2>1. Webhook!RowsLead(i)
    BY DEF Webhook!Inductive
  <2>2. QED BY <1>2, <1>3, <1>4, <2>1 DEF Webhook!RowsLead
<1>8. Webhook!NobodyIsLost(i)'
  BY <1>3, <1>4 DEF Webhook!NobodyIsLost
<1>9. QED BY <1>1, <1>2, <1>3, <1>6, <1>7, <1>8, WebhookJobMoves

\* TakeJob keeps Inductive: the number at the head of the queue is that of a job.
LEMMA WebhookTakeKeeps ==
  ASSUME Webhook!Inductive, Webhook!TakeJob
  PROVE  Webhook!Inductive'
<1>1. /\ Webhook!TypeOK /\ failures \in Nat /\ DOMAIN webhookJob = Webhook!JobIds
      /\ saved \in [Webhook!JobIds -> Nat] /\ queue \in Seq(Webhook!Queued)
      /\ rows \in [Webhook!JobIds -> [Users -> Nat]] /\ crashes \in Nat
      /\ delivered \in [Webhook!JobIds -> [Users -> Nat]]
  BY DEF Webhook!Inductive, Webhook!TypeOK
<1>2. /\ queue # <<>> /\ queue' = Tail(queue)
      /\ webhookJob' = [webhookJob EXCEPT ![Head(queue)] =
                          [webhookJob[Head(queue)] EXCEPT !.phase = "save"]]
      /\ UNCHANGED <<pref, token, saved, rows, delivered, changes, failures, crashes>>
  BY DEF Webhook!TakeJob, Webhook!SetJob, Webhook!people, Webhook!tables, Webhook!faults
<1>3. Head(queue) \in Webhook!Queued /\ queue' \in Seq(Webhook!Queued)
  BY <1>1, <1>2
<1>4. PICK i \in Webhook!JobIds :
        i = Head(queue) /\ webhookJob[i] \in Webhook!JobState
  BY <1>1, <1>3 DEF Webhook!Queued, Webhook!TypeOK
<1> DEFINE r == [webhookJob[i] EXCEPT !.phase = "save"]
<1>5. r \in Webhook!JobState /\ r.phase = "save"
  BY <1>4 DEF Webhook!JobState
<1>6. PICK x \in Webhook!JobState :
        x.phase = "save" /\ webhookJob' = [webhookJob EXCEPT ![i] = x]
  BY <1>2, <1>4, <1>5
<1>7. x # Webhook!NoJob
  BY <1>6 DEF Webhook!NoJob
<1>8. webhookJob'[i] = x /\ \A k \in Webhook!JobIds : k # i => webhookJob'[k] = webhookJob[k]
  BY <1>1, <1>4, <1>6
<1>9. queue' \in Seq(Webhook!Queued')
  <2>1. Webhook!Queued \subseteq Webhook!Queued'
    BY <1>7, <1>8 DEF Webhook!Queued
  <2>2. QED BY <1>3, <2>1
<1>10. Webhook!RowsLead(i)'
  <2>1. Webhook!RowsLead(i)
    BY <1>4 DEF Webhook!Inductive
  <2>2. QED BY <1>2, <1>6, <1>8, <2>1 DEF Webhook!RowsLead
<1>11. Webhook!NobodyIsLost(i)'
  BY <1>6, <1>8 DEF Webhook!NobodyIsLost
<1>12. QED BY <1>1, <1>2, <1>4, <1>6, <1>9, <1>10, <1>11, WebhookJobMoves

\* A crash keeps Inductive: the stalled job starts over, or has failed.
LEMMA WebhookCrashKeeps ==
  ASSUME Webhook!Inductive, Webhook!Crash
  PROVE  Webhook!Inductive'
<1> DEFINE again == {i \in Webhook!Active : webhookJob[i].stalls < Webhook!MaxStalledCount}
           after(i) ==
             IF i \in again
             THEN [webhookJob[i] EXCEPT !.phase = "waiting", !.stalls = @ + 1]
             ELSE IF i \in Webhook!Active THEN [webhookJob[i] EXCEPT !.phase = "failed"]
                                          ELSE webhookJob[i]
<1>1. /\ Webhook!TypeOK /\ failures \in Nat /\ DOMAIN webhookJob = Webhook!JobIds
      /\ saved \in [Webhook!JobIds -> Nat] /\ queue \in Seq(Webhook!Queued)
      /\ rows \in [Webhook!JobIds -> [Users -> Nat]] /\ crashes \in Nat
      /\ delivered \in [Webhook!JobIds -> [Users -> Nat]]
  BY DEF Webhook!Inductive, Webhook!TypeOK
<1>2. /\ webhookJob' = [i \in Webhook!JobIds |-> after(i)]
      /\ queue' = IF again = {} THEN queue ELSE <<CHOOSE i \in again : TRUE>> \o queue
      /\ crashes' = crashes + 1
      /\ UNCHANGED <<pref, token, saved, rows, delivered, changes, failures>>
  BY DEF Webhook!Crash, Webhook!people, Webhook!tables
<1>3. again \subseteq Webhook!Active /\ Webhook!Active \subseteq Webhook!Queued
  BY DEF Webhook!Active
<1>4. ASSUME NEW i \in Webhook!Active
      PROVE  /\ after(i) \in Webhook!JobState
             /\ after(i).phase \in {"waiting", "failed"}
  <2>1. webhookJob[i] \in Webhook!JobState /\ webhookJob[i].stalls \in Nat
    BY <1>1, <1>3 DEF Webhook!TypeOK, Webhook!JobState
  <2>2. CASE i \in again
    <3> DEFINE n == webhookJob[i].stalls + 1
               x == [webhookJob[i] EXCEPT !.phase = "waiting"]
    <3>1. x \in Webhook!JobState /\ x.phase = "waiting"
      BY <2>1 DEF Webhook!JobState
    <3>2. n \in Nat
      BY <2>1
    <3> HIDE DEF n
    <3>3. [webhookJob[i] EXCEPT !.phase = "waiting", !.stalls = n] = [x EXCEPT !.stalls = n]
      OBVIOUS
    <3> HIDE DEF x
    <3>4. /\ [x EXCEPT !.stalls = n] \in Webhook!JobState
          /\ [x EXCEPT !.stalls = n].phase = "waiting"
      BY <3>1, <3>2 DEF Webhook!JobState
    <3>5. after(i) = [webhookJob[i] EXCEPT !.phase = "waiting", !.stalls = n]
      BY <2>2 DEF n
    <3>6. QED BY <3>3, <3>4, <3>5
  <2>3. CASE i \notin again
    <3> DEFINE x == [webhookJob[i] EXCEPT !.phase = "failed"]
    <3>1. x \in Webhook!JobState /\ x.phase = "failed"
      BY <2>1 DEF Webhook!JobState
    <3>2. after(i) = x
      BY <2>3
    <3>3. QED BY <3>1, <3>2
  <2>4. QED BY <2>2, <2>3
<1>5. \A i \in Webhook!JobIds \ Webhook!Active : after(i) = webhookJob[i]
  BY <1>3
<1>6. \A i \in Webhook!JobIds : webhookJob'[i] = after(i)
  BY <1>2
<1>7. Webhook!Active \subseteq Webhook!JobIds
  BY DEF Webhook!Active, Webhook!Queued
<1> HIDE DEF after
<1>8. Webhook!Queued' = Webhook!Queued
  <2>1. ASSUME NEW i \in Webhook!JobIds
        PROVE  webhookJob'[i] # Webhook!NoJob <=> webhookJob[i] # Webhook!NoJob
    <3>1. CASE i \in Webhook!Active
      <4>1. webhookJob[i] # Webhook!NoJob
        BY <1>3, <3>1 DEF Webhook!Queued
      <4>2. after(i) # Webhook!NoJob
        BY <1>4, <3>1 DEF Webhook!NoJob
      <4>3. QED BY <1>6, <4>1, <4>2
    <3>2. CASE i \notin Webhook!Active
      BY <1>5, <1>6, <3>2
    <3>3. QED BY <3>1, <3>2
  <2>2. QED BY <2>1 DEF Webhook!Queued
<1>9. queue' \in Seq(Webhook!Queued)
  <2>1. CASE again = {}
    BY <1>1, <1>2, <2>1
  <2>2. CASE again # {}
    <3>1. (CHOOSE i \in again : TRUE) \in Webhook!Queued
      BY <1>3, <2>2
    <3>2. <<CHOOSE i \in again : TRUE>> \in Seq(Webhook!Queued)
      BY <3>1
    <3> HIDE DEF again
    <3>3. QED BY <1>1, <1>2, <2>2, <3>2, ConcatProperties
  <2>3. QED BY <2>1, <2>2
<1>10. Webhook!TypeOK'
  <2>1. DOMAIN webhookJob' = Webhook!JobIds
    BY <1>2
  <2>2. \A i \in Webhook!Queued' : webhookJob'[i] \in Webhook!JobState
    <3>1. SUFFICES ASSUME NEW i \in Webhook!Queued
                   PROVE  webhookJob'[i] \in Webhook!JobState
      BY <1>8
    <3>2. i \in Webhook!JobIds /\ webhookJob[i] \in Webhook!JobState
      BY <1>1 DEF Webhook!Queued, Webhook!TypeOK
    <3>3. CASE i \in Webhook!Active
      BY <1>4, <1>6, <3>2, <3>3
    <3>4. CASE i \notin Webhook!Active
      BY <1>5, <1>6, <3>2, <3>4
    <3>5. QED BY <3>3, <3>4
  <2>3. QED BY <1>1, <1>2, <1>8, <1>9, <2>1, <2>2 DEF Webhook!TypeOK
<1>11. ASSUME NEW i \in Webhook!JobIds PROVE Webhook!RowsLead(i)'
  <2>1. Webhook!RowsLead(i)
    BY DEF Webhook!Inductive
  <2>2. CASE i \in Webhook!Active
    BY <1>2, <1>4, <1>6, <2>1, <2>2 DEF Webhook!RowsLead
  <2>3. CASE i \notin Webhook!Active
    <3>1. webhookJob'[i] = webhookJob[i]
      BY <1>5, <1>6, <2>3
    <3>2. QED BY <1>2, <2>1, <3>1 DEF Webhook!RowsLead
  <2>4. QED BY <2>2, <2>3
<1>12. ASSUME failures' = 0, changes' = 0, NEW i \in Webhook!Queued'
       PROVE  Webhook!NobodyIsLost(i)'
  <2>1. i \in Webhook!JobIds /\ Webhook!NobodyIsLost(i)
    BY <1>2, <1>8, <1>12 DEF Webhook!Queued, Webhook!Inductive
  <2>2. CASE i \in Webhook!Active
    BY <1>4, <1>6, <2>1, <2>2 DEF Webhook!NobodyIsLost
  <2>3. CASE i \notin Webhook!Active
    <3>1. webhookJob'[i] = webhookJob[i]
      BY <1>5, <1>6, <2>1, <2>3
    <3>2. (Webhook!Recipients(webhookJob[i].event))' = Webhook!Recipients(webhookJob[i].event)
      BY <1>2, <3>1 DEF Webhook!Recipients
    <3>3. QED BY <1>2, <2>1, <3>1, <3>2 DEF Webhook!NobodyIsLost
  <2>4. QED BY <2>2, <2>3
<1>13. QED BY <1>10, <1>11, <1>12 DEF Webhook!Inductive

\* Every step keeps Inductive.
LEMMA WebhookStep == Webhook!Inductive /\ [Webhook!Next]_(Webhook!vars) => Webhook!Inductive'
<1> SUFFICES ASSUME Webhook!Inductive, [Webhook!Next]_(Webhook!vars)
             PROVE  Webhook!Inductive'
  OBVIOUS
<1>1. ASSUME NEW u \in Users, Webhook!SetPref(u) \/ Webhook!SetToken(u)
      PROVE  Webhook!Inductive'
  <2>1. /\ pref \in [Users -> BOOLEAN] /\ token \in [Users -> BOOLEAN]
        /\ changes \in Nat /\ Webhook!TypeOK
    BY DEF Webhook!Inductive, Webhook!TypeOK
  <2>2. /\ UNCHANGED <<webhookJob, queue, saved, rows, delivered, failures, crashes>>
        /\ changes' = changes + 1
    BY <1>1 DEF Webhook!SetPref, Webhook!SetToken, Webhook!bull, Webhook!tables,
                Webhook!faults
  <2>3. /\ \/ pref' = [pref EXCEPT ![u] = ~@]
           \/ UNCHANGED pref
        /\ \/ token' = [token EXCEPT ![u] = ~@]
           \/ UNCHANGED token
    BY <1>1 DEF Webhook!SetPref, Webhook!SetToken
  <2>4. (~pref[u]) \in BOOLEAN /\ (~token[u]) \in BOOLEAN
    OBVIOUS
  <2>5. pref' \in [Users -> BOOLEAN] /\ token' \in [Users -> BOOLEAN]
    BY <2>1, <2>3, <2>4, Zenon
  <2>6. Webhook!Queued' = Webhook!Queued
    BY <2>2 DEF Webhook!Queued
  <2>7. Webhook!TypeOK'
    BY <2>1, <2>2, <2>5, <2>6 DEF Webhook!TypeOK
  <2>8. \A i \in Webhook!JobIds : Webhook!RowsLead(i)'
    BY <2>2 DEF Webhook!Inductive, Webhook!RowsLead
  <2>9. changes' # 0
    BY <2>1, <2>2
  <2>10. QED BY <2>7, <2>8, <2>9 DEF Webhook!Inductive
<1>2. ASSUME NEW i \in Webhook!JobIds, Webhook!Work(i) PROVE Webhook!Inductive'
  BY <1>2, WebhookQuietStepKeeps, WebhookServeKeeps DEF Webhook!Work
<1>3. CASE UNCHANGED Webhook!vars
  <2>1. UNCHANGED <<pref, token, webhookJob, queue, saved, rows, delivered, changes,
                    failures, crashes>>
    BY <1>3 DEF Webhook!vars, Webhook!people, Webhook!bull, Webhook!tables, Webhook!faults
  <2>2. Webhook!Queued' = Webhook!Queued /\ Webhook!TypeOK
    BY <2>1 DEF Webhook!Queued, Webhook!Inductive
  <2>3. Webhook!TypeOK'
    BY <2>1, <2>2 DEF Webhook!TypeOK
  <2>4. \A i \in Webhook!JobIds : Webhook!RowsLead(i)'
    BY <2>1 DEF Webhook!Inductive, Webhook!RowsLead
  <2>5. ASSUME failures' = 0, changes' = 0, NEW i \in Webhook!Queued'
        PROVE  Webhook!NobodyIsLost(i)'
    <3>1. Webhook!NobodyIsLost(i)
      BY <2>1, <2>2, <2>5 DEF Webhook!Inductive
    <3>2. QED BY <2>1, <3>1 DEF Webhook!NobodyIsLost, Webhook!Recipients
  <2>6. QED BY <2>3, <2>4, <2>5 DEF Webhook!Inductive
<1>4. QED
  BY <1>1, <1>2, <1>3, WebhookEndpointKeeps, WebhookTakeKeeps, WebhookCrashKeeps
  DEF Webhook!Next

\* Inductive says what a reader of the rows may rely on.
LEMMA WebhookIsSafe == Webhook!Inductive => EveryPushHasRow
<1> SUFFICES ASSUME Webhook!Inductive PROVE EveryPushHasRow
  OBVIOUS
<1>1. Webhook!PushHasRow
  BY DEF Webhook!Inductive, Webhook!PushHasRow, Webhook!RowsLead
<1>2. Webhook!EveryoneHasRow
  <2>1. SUFFICES ASSUME failures = 0, changes = 0, NEW i \in Webhook!Queued,
                        webhookJob[i].phase = "done",
                        NEW u \in Webhook!Recipients(webhookJob[i].event)
                 PROVE  rows[i][u] > 0
    BY DEF Webhook!EveryoneHasRow
  <2>2. Webhook!NobodyIsLost(i)
    BY <2>1 DEF Webhook!Inductive
  <2>3. QED BY <2>1, <2>2 DEF Webhook!NobodyIsLost
<1>3. QED BY <1>1, <1>2 DEF EveryPushHasRow

(***************************************************************************)
(* The composition.                                                        *)
(***************************************************************************)

\* A step is one of the sender that runs, and stutters for the other two.
LEMMA StepsOfSenders ==
  [MCNext]_MCvars =>
    /\ [Next]_vars
    /\ [Webhook!Next]_(Webhook!vars)
    /\ [Marketing!Next]_(Marketing!vars)
<1> SUFFICES ASSUME [MCNext]_MCvars
             PROVE  /\ [Next]_vars
                    /\ [Webhook!Next]_(Webhook!vars)
                    /\ [Marketing!Next]_(Marketing!vars)
  OBVIOUS
<1>1. UNCHANGED webhookVars => UNCHANGED Webhook!vars
  BY DEF webhookVars, Webhook!vars, Webhook!people, Webhook!bull, Webhook!tables,
         Webhook!faults
<1>2. UNCHANGED marketingVars => UNCHANGED Marketing!vars
  BY DEF marketingVars, Marketing!vars, Marketing!local
<1>3. ASSUME OfWebhook,
             \/ \E u \in Users : Webhook!SetPref(u) \/ Webhook!SetToken(u)
             \/ \E i \in Webhook!JobIds, e \in Webhook!Event : Webhook!Webhook(i, e)
             \/ Webhook!TakeJob \/ Webhook!Crash
             \/ \E i \in Webhook!JobIds : Webhook!Work(i)
      PROVE  /\ UNCHANGED vars /\ UNCHANGED marketingVars
             /\ Webhook!Next
  BY <1>3 DEF OfWebhook, Webhook!Next
<1>4. ASSUME OfMarketing,
             \/ \E u \in 1..MaxUser : Marketing!Change(u)
             \/ Marketing!Request \/ Marketing!Read \/ Marketing!ReadFails
             \/ Marketing!SendChunk \/ Marketing!ChunkFails \/ Marketing!Save
             \/ Marketing!SaveFails \/ Marketing!MarkSuccess \/ Marketing!MarkFailure
             \/ Marketing!MarkFails
      PROVE  /\ UNCHANGED vars /\ UNCHANGED webhookVars
             /\ Marketing!Next
  BY <1>4 DEF OfMarketing, Marketing!Next, Marketing!UserIds
<1>5. ASSUME OfFuel,
             \/ Refuel \/ Crash
             \/ \E r \in Requests : RequestStep(r) \/ RequestFails(r)
             \/ \E k \in Consults : ConsultStep(k)
             \/ \E i \in Ids : JobStep(i) \/ JobFails(i) \/ ExpireFails(i)
      PROVE  /\ UNCHANGED marketingVars /\ UNCHANGED webhookVars
             /\ Next
  BY <1>5 DEF OfFuel, Next
<1>6. CASE UNCHANGED MCvars
  <2>1. UNCHANGED vars /\ UNCHANGED marketingVars /\ UNCHANGED webhookVars
    BY <1>6 DEF MCvars
  <2>2. QED BY <1>1, <1>2, <2>1
<1>7. CASE MCNext
  <2>1. \/ /\ OfWebhook
           /\ \/ \E u \in Users : Webhook!SetPref(u) \/ Webhook!SetToken(u)
              \/ \E i \in Webhook!JobIds, e \in Webhook!Event : Webhook!Webhook(i, e)
              \/ Webhook!TakeJob \/ Webhook!Crash
              \/ \E i \in Webhook!JobIds : Webhook!Work(i)
        \/ /\ OfMarketing
           /\ \/ \E u \in 1..MaxUser : Marketing!Change(u)
              \/ Marketing!Request \/ Marketing!Read \/ Marketing!ReadFails
              \/ Marketing!SendChunk \/ Marketing!ChunkFails \/ Marketing!Save
              \/ Marketing!SaveFails \/ Marketing!MarkSuccess \/ Marketing!MarkFailure
              \/ Marketing!MarkFails
        \/ /\ OfFuel
           /\ \/ Refuel \/ Crash
              \/ \E r \in Requests : RequestStep(r) \/ RequestFails(r)
              \/ \E k \in Consults : ConsultStep(k)
              \/ \E i \in Ids : JobStep(i) \/ JobFails(i) \/ ExpireFails(i)
    BY <1>7 DEF MCNext, Webhook!Work, RequestStep, ConsultStep, JobStep
  <2>2. QED BY <1>1, <1>2, <1>3, <1>4, <1>5, <2>1
<1>8. QED BY <1>6, <1>7

\* The composition hides nothing: its behaviours are behaviours of each sender, and what
\* is proved of FuelSession alone holds of it.
THEOREM CompositionIsFaithful == MCSpec => Spec /\ Marketing!Spec /\ Webhook!Spec
<1>1. MCInit => Init /\ Marketing!Init /\ Webhook!Init
  BY DEF MCInit
<1>2. QED
  BY <1>1, StepsOfSenders, PTL DEF MCSpec, Spec, Marketing!Spec, Webhook!Spec

\* The app finds a row of every push it got, and as long as the database answers every
\* recipient of an event that is done has one.
THEOREM EveryPushHasRowHolds == MCSpec => []EveryPushHasRow
<1>1. MCInit => Webhook!Inductive
  BY WebhookInit DEF MCInit
<1>2. Webhook!Inductive /\ [MCNext]_MCvars => Webhook!Inductive'
  BY WebhookStep, StepsOfSenders
<1>3. Webhook!Inductive => EveryPushHasRow
  BY WebhookIsSafe
<1>4. QED BY <1>1, <1>2, <1>3, PTL DEF MCSpec

\* Nobody is told twice of the savings of a session, through retries and stalls of its
\* job, and a session that the user was told of is never marked EXPIRED.
THEOREM PushOnceAndDoneHolds == MCSpec => []PushOnceAndDone
<1>1. MCInit => Inductive
  BY FuelInit DEF MCInit
<1>2. Inductive /\ [MCNext]_MCvars => Inductive'
  BY FuelStep, StepsOfSenders
<1>3. Inductive => PushOnceAndDone
  BY FuelIsSafe DEF PushOnceAndDone
<1>4. QED BY <1>1, <1>2, <1>3, PTL DEF MCSpec

(***************************************************************************)
(* MarketingSend.                                                          *)
(***************************************************************************)

\* The module that MCNotifications instantiates counts as this one does.
LEMMA SameCardinality ==
  ASSUME NEW S PROVE Marketing!Cardinality(S) = Cardinality(S)
BY DEF Marketing!Cardinality, Cardinality

\* A set of numbers up to n is finite.
LEMMA PartIsFinite ==
  ASSUME NEW n \in Nat, NEW S \in SUBSET (1..n)
  PROVE  IsFiniteSet(S) /\ Cardinality(S) \in Nat /\ Cardinality(S) <= n
<1>1. IsFiniteSet(1..n) /\ Cardinality(1..n) = n
  BY FS_Interval
<1>2. IsFiniteSet(S) /\ Cardinality(S) <= Cardinality(1..n)
  BY <1>1, FS_Subset
<1>3. Cardinality(S) \in Nat
  BY <1>2, FS_CardinalityType
<1> QED
  BY <1>1, <1>2, <1>3

\* InOrder enumerates a set of users, each once, from the lowest to the highest.
LEMMA InOrderEnumerates ==
  ASSUME NEW n \in Nat, NEW S \in SUBSET (1..n)
  PROVE  /\ IsFiniteSet(S) /\ Cardinality(S) \in Nat
         /\ Marketing!InOrder(S) \in [1..Cardinality(S) -> S]
         /\ \A i, j \in 1..Cardinality(S) :
              i < j => Marketing!InOrder(S)[i] < Marketing!InOrder(S)[j]
<1>0. \A y \in S : y \in Int
  OBVIOUS
<1>1. IsFiniteSet(S) /\ Cardinality(S) \in Nat
  BY PartIsFinite
<1> DEFINE upTo(x) == {y \in S : y <= x}
           rank == [x \in S |-> Cardinality(upTo(x))]
<1>2. ASSUME NEW x \in S
      PROVE  IsFiniteSet(upTo(x)) /\ rank[x] \in 1..Cardinality(S)
  <2>1. upTo(x) \in SUBSET S /\ x \in upTo(x)
    OBVIOUS
  <2>2. IsFiniteSet(upTo(x)) /\ Cardinality(upTo(x)) <= Cardinality(S)
    BY <1>1, <2>1, FS_Subset
  <2>3. Cardinality(upTo(x)) \in Nat /\ Cardinality(upTo(x)) # 0
    BY <2>1, <2>2, FS_CardinalityType, FS_EmptySet
  <2>4. rank[x] = Cardinality(upTo(x))
    OBVIOUS
  <2> HIDE DEF rank, upTo
  <2> QED
    BY <1>1, <2>2, <2>3, <2>4
<1>3. ASSUME NEW x \in S, NEW z \in S, x < z PROVE rank[x] < rank[z]
  <2>1. /\ upTo(x) \in SUBSET upTo(z) /\ z \in upTo(z) /\ z \notin upTo(x)
    <3>1. \A y \in S : y <= x => y <= z
      BY ONLY <1>0, <1>3, x \in S, z \in S
    <3>2. z <= z /\ ~(z <= x)
      BY ONLY <1>0, <1>3, x \in S, z \in S
    <3> QED
      BY ONLY <3>1, <3>2, z \in S
  <2>2. /\ Cardinality(upTo(x)) <= Cardinality(upTo(z))
        /\ Cardinality(upTo(x)) # Cardinality(upTo(z))
    BY <1>2, <2>1, FS_Subset
  <2> QED
    BY <1>2, <2>2, FS_CardinalityType
<1>4. rank \in [S -> 1..Cardinality(S)]
  BY <1>2
<1>5. \A x, z \in S : rank[x] = rank[z] => x = z
  <2> SUFFICES ASSUME NEW x \in S, NEW z \in S, rank[x] = rank[z], x # z
               PROVE  FALSE
    OBVIOUS
  <2>1. x < z \/ z < x
    OBVIOUS
  <2>2. rank[x] \in Nat /\ rank[z] \in Nat
    BY <1>1, <1>2
  <2> HIDE DEF rank
  <2> QED
    BY <1>3, <2>1, <2>2
<1>6. rank \in Injection(S, 1..Cardinality(S))
  BY <1>4, <1>5 DEF Injection, IsInjective
<1>7. rank \in Surjection(S, 1..Cardinality(S))
  BY <1>1, <1>6, FS_Injection, FS_Interval
<1>8. \A i \in 1..Cardinality(S) : \E x \in S : rank[x] = i
  BY <1>7 DEF Surjection
<1> HIDE DEF rank
<1> DEFINE s == [i \in 1..Cardinality(S) |-> CHOOSE x \in S : rank[x] = i]
<1>9. \A i \in 1..Cardinality(S) : s[i] \in S /\ rank[s[i]] = i
  BY <1>8
<1>10. s \in [1..Cardinality(S) -> S]
  BY <1>9
<1>11. \A i, j \in 1..Cardinality(S) : i < j => s[i] < s[j]
  <2> SUFFICES ASSUME NEW i \in 1..Cardinality(S), NEW j \in 1..Cardinality(S),
                      i < j, ~(s[i] < s[j])
               PROVE  FALSE
    OBVIOUS
  <2>1. s[i] \in S /\ s[j] \in S /\ rank[s[i]] = i /\ rank[s[j]] = j
    BY <1>9
  <2> HIDE DEF s
  <2>2. s[i] \in Int /\ s[j] \in Int
    BY <1>0, <2>1
  <2>3. CASE s[i] = s[j]
    BY <2>1, <2>3
  <2>4. CASE s[j] < s[i]
    <3>1. rank[s[j]] < rank[s[i]]
      BY <1>3, <2>1, <2>4
    <3>2. i \in Int /\ j \in Int
      BY <1>1
    <3> QED
      BY <2>1, <3>1, <3>2
  <2> QED
    BY <2>2, <2>3, <2>4
<1> HIDE DEF s
<1>12. \E f \in [1..Cardinality(S) -> S] :
         \A i, j \in 1..Cardinality(S) : i < j => f[i] < f[j]
  BY <1>10, <1>11
<1>13. /\ Marketing!InOrder(S) \in [1..Cardinality(S) -> S]
       /\ \A i, j \in 1..Cardinality(S) :
            i < j => Marketing!InOrder(S)[i] < Marketing!InOrder(S)[j]
  <2>1. \E f \in [1..Marketing!Cardinality(S) -> S] :
          \A i, j \in 1..Marketing!Cardinality(S) : i < j => f[i] < f[j]
    BY ONLY <1>12, SameCardinality
  <2>2. /\ Marketing!InOrder(S) \in [1..Marketing!Cardinality(S) -> S]
        /\ \A i, j \in 1..Marketing!Cardinality(S) :
             i < j => Marketing!InOrder(S)[i] < Marketing!InOrder(S)[j]
    BY ONLY <2>1 DEF Marketing!InOrder
  <2> QED
    BY ONLY <2>2, SameCardinality
<1> QED
  BY <1>1, <1>13

\* As a sequence: its length is the size of the set, and it is injective and onto.
LEMMA InOrderIsSeq ==
  ASSUME NEW n \in Nat, NEW S \in SUBSET (1..n)
  PROVE  /\ Marketing!InOrder(S) \in Seq(S)
         /\ Len(Marketing!InOrder(S)) = Cardinality(S)
         /\ Cardinality(S) \in Nat /\ IsFiniteSet(S)
         /\ Marketing!NobodyTwice(Marketing!InOrder(S))
         /\ \A x \in S : \E k \in 1..Cardinality(S) : Marketing!InOrder(S)[k] = x
<1>1. PICK s : s = Marketing!InOrder(S)
  OBVIOUS
<1>2. /\ IsFiniteSet(S) /\ Cardinality(S) \in Nat
      /\ s \in [1..Cardinality(S) -> S]
      /\ \A i, j \in 1..Cardinality(S) : i < j => s[i] < s[j]
  BY <1>1, InOrderEnumerates
<1>3. s \in Seq(S) /\ Len(s) = Cardinality(S)
  BY <1>2
<1>4. \A i, j \in 1..Cardinality(S) : s[i] = s[j] => i = j
  <2> SUFFICES ASSUME NEW i \in 1..Cardinality(S), NEW j \in 1..Cardinality(S),
                      s[i] = s[j], i # j
               PROVE  FALSE
    OBVIOUS
  <2>1. i < j \/ j < i
    OBVIOUS
  <2>2. s[i] \in S /\ s[j] \in S
    BY <1>2
  <2>3. s[i] \in Int /\ s[j] \in Int
    <3>1. \A y \in S : y \in Int
      OBVIOUS
    <3> QED
      BY ONLY <2>2, <3>1
  <2>4. s[i] < s[j] \/ s[j] < s[i]
    BY <1>2, <2>1
  <2> QED
    BY <2>3, <2>4
<1>5. s \in Injection(1..Cardinality(S), S)
  BY <1>2, <1>4 DEF Injection, IsInjective
<1>6. Cardinality(1..Cardinality(S)) = Cardinality(S)
  BY <1>2, FS_Interval
<1>7. s \in Surjection(1..Cardinality(S), S)
  BY <1>2, <1>5, <1>6, FS_Injection
<1> QED
  BY <1>1, <1>2, <1>3, <1>4, <1>7 DEF Surjection, Marketing!NobodyTwice

\* The lower of two numbers.
LEMMA MinOfTwo ==
  ASSUME NEW a \in Nat, NEW b \in Nat
  PROVE  Marketing!Min({a, b}) = IF a <= b THEN a ELSE b
<1>1. PICK m \in {a, b} : m = IF a <= b THEN a ELSE b
  OBVIOUS
<1>2. \A y \in {a, b} : m <= y
  BY <1>1
<1>3. \A x \in {a, b} : (\A y \in {a, b} : x <= y) => x = m
  BY <1>1
<1> QED
  BY <1>1, <1>2, <1>3 DEF Marketing!Min

\* A chunk that begins within the recipients: ChunkSize of them, or what is left.
LEMMA ChunkIsCut ==
  ASSUME Marketing!TypeOK, NEW i \in Nat, i * ChunkSize < Len(valid)
  PROVE  /\ Marketing!Chunk(i) \in Seq(Marketing!UserIds)
         /\ Len(Marketing!Chunk(i)) \in 1..ChunkSize
         /\ i * ChunkSize + Len(Marketing!Chunk(i)) <= Len(valid)
         /\ \/ Len(Marketing!Chunk(i)) = ChunkSize
            \/ i * ChunkSize + Len(Marketing!Chunk(i)) = Len(valid)
         /\ \A j \in 1..Len(Marketing!Chunk(i)) :
              Marketing!Chunk(i)[j] = valid[i * ChunkSize + j]
<1>1. valid \in Seq(Marketing!UserIds) /\ Len(valid) \in Nat
  BY DEF Marketing!TypeOK
<1>2. PICK from \in Nat : from = i * ChunkSize
  OBVIOUS
<1>3. (i + 1) * ChunkSize = from + ChunkSize
  BY <1>2
<1>4. PICK end \in Nat :
        end = IF Len(valid) <= from + ChunkSize THEN Len(valid) ELSE from + ChunkSize
  BY <1>1
<1>5. Marketing!Min({Len(valid), (i + 1) * ChunkSize}) = end
  BY <1>1, <1>3, <1>4, MinOfTwo
<1>6. Marketing!Chunk(i) = SubSeq(valid, from + 1, end)
  BY <1>2, <1>5 DEF Marketing!Chunk
<1>7. from < Len(valid) /\ end <= Len(valid) /\ from + 1 <= end
  BY <1>1, <1>2, <1>4
<1>8. \A k \in (from + 1)..end : valid[k] \in Marketing!UserIds
  BY <1>1, <1>7
<1>9. /\ SubSeq(valid, from + 1, end) \in Seq(Marketing!UserIds)
      /\ Len(SubSeq(valid, from + 1, end)) = end - from
      /\ \A j \in 1..(end - from) :
           SubSeq(valid, from + 1, end)[j] = valid[from + j]
  <2>1. /\ SubSeq(valid, from + 1, end) \in Seq(Marketing!UserIds)
        /\ Len(SubSeq(valid, from + 1, end)) = end - (from + 1) + 1
        /\ \A j \in 1..(end - (from + 1) + 1) :
             SubSeq(valid, from + 1, end)[j] = valid[(from + 1) + j - 1]
    BY <1>7, <1>8, SubSeqProperties
  <2>2. end - (from + 1) + 1 = end - from
    OBVIOUS
  <2>3. \A j \in Nat : (from + 1) + j - 1 = from + j
    OBVIOUS
  <2> QED
    BY <2>1, <2>2, <2>3
<1>10. end - from \in 1..ChunkSize
  BY <1>1, <1>4, <1>7
<1> QED
  BY <1>1, <1>2, <1>4, <1>6, <1>7, <1>9, <1>10

\* What leaves no remainder is a multiple.
LEMMA Multiple ==
  ASSUME NEW a \in Nat, a % ChunkSize = 0
  PROVE  \E q \in Nat : a = q * ChunkSize
<1>1. a \div ChunkSize \in Nat
  OBVIOUS
<1>2. a = ChunkSize * (a \div ChunkSize) + (a % ChunkSize)
  OBVIOUS
<1>3. a = (a \div ChunkSize) * ChunkSize
  BY <1>1, <1>2
<1> QED
  BY <1>1, <1>3

\* Whose ticket the loop takes number j of chunk i to be: a recipient, and the right
\* one when the chunks have one length.
LEMMA RecipientOfIsRecipient ==
  ASSUME Marketing!TypeOK, NEW i \in Nat, i * ChunkSize < Len(valid),
         NEW j \in 1..Len(Marketing!Chunk(i))
  PROVE  /\ Marketing!RecipientOf(i, j) \in Marketing!UserIds
         /\ Marketing!AllOneLength =>
              Marketing!RecipientOf(i, j) = Marketing!Chunk(i)[j]
<1>1. valid \in Seq(Marketing!UserIds) /\ Len(valid) \in Nat
  BY DEF Marketing!TypeOK
<1>2. PICK n \in 1..ChunkSize : n = Len(Marketing!Chunk(i))
  BY ChunkIsCut
<1>3. /\ i * ChunkSize + n <= Len(valid)
      /\ n = ChunkSize \/ i * ChunkSize + n = Len(valid)
      /\ Marketing!Chunk(i)[j] = valid[i * ChunkSize + j]
  BY <1>2, ChunkIsCut
<1>4. Marketing!RecipientOf(i, j) = valid[i * n + j]
  BY <1>2 DEF Marketing!RecipientOf
<1>5. i * n \in Nat /\ i * n <= i * ChunkSize /\ i * ChunkSize \in Nat
  BY <1>2
<1>6. i * n + j \in 1..Len(valid)
  BY <1>1, <1>2, <1>3, <1>5
<1>7. ASSUME Marketing!AllOneLength PROVE i * n = i * ChunkSize
  <2>1. CASE Len(valid) <= ChunkSize
    <3>1. i = 0
      BY <1>1, <2>1
    <3> QED
      BY <3>1
  <2>2. CASE Len(valid) % ChunkSize = 0
    <3>1. PICK q \in Nat : Len(valid) = q * ChunkSize
      BY <1>1, <2>2, Multiple
    <3>2. i < q
      BY <3>1
    <3>3. i * ChunkSize + ChunkSize <= q * ChunkSize
      BY <3>2
    <3>4. n = ChunkSize
      BY <1>2, <1>3, <1>5, <3>1, <3>3
    <3> QED
      BY <3>4
  <2> QED
    BY <1>7, <2>1, <2>2 DEF Marketing!AllOneLength
<1>8. valid[i * n + j] \in Marketing!UserIds
  BY <1>1, <1>6
<1>9. Marketing!AllOneLength => valid[i * n + j] = Marketing!Chunk(i)[j]
  BY <1>3, <1>7
<1> QED
  BY <1>4, <1>8, <1>9

\* Whom a chunk reaches when Expo says ok of the numbers in ok, and whom the loop adds
\* to sentNotifications.
Told(ok) == {Marketing!Chunk(chunk)[j] : j \in ok}
Credited(ok) ==
  LET js == Marketing!InOrder(ok)
  IN [k \in 1..Len(js) |-> Marketing!RecipientOf(chunk, js[k])]

Members(s) == {s[k] : k \in 1..Len(s)}

\* Whom a chunk reaches was not reached before, and each ticket is another user.
LEMMA NewlyReached ==
  ASSUME Marketing!Inductive, phase = "chunk",
         NEW ok \in SUBSET (1..Len(Marketing!Chunk(chunk))),
         NEW got, got = Told(ok)
  PROVE  /\ got \in SUBSET Marketing!UserIds
         /\ got \cap reached = {}
         /\ IsFiniteSet(got) /\ Cardinality(got) = Cardinality(ok)
         /\ \A i, j \in ok : Marketing!Chunk(chunk)[i] = Marketing!Chunk(chunk)[j] => i = j
         /\ \A u \in got : \E k \in 1..Len(valid) :
              k <= (chunk + 1) * ChunkSize /\ valid[k] = u
<1>1. /\ Marketing!TypeOK /\ chunk \in Nat /\ chunk * ChunkSize < Len(valid)
      /\ valid \in Seq(Marketing!UserIds) /\ Len(valid) \in Nat
      /\ Marketing!NobodyTwice(valid)
      /\ \A u \in reached : \E k \in 1..Len(valid) :
           k <= chunk * ChunkSize /\ valid[k] = u
  BY DEF Marketing!Inductive, Marketing!TypeOK, Marketing!ChunksOK
<1>2. PICK c : c = Marketing!Chunk(chunk)
  OBVIOUS
<1>3. PICK from \in Nat : from = chunk * ChunkSize
  BY <1>1
<1>4. /\ c \in Seq(Marketing!UserIds) /\ Len(c) \in 1..ChunkSize
      /\ from + Len(c) <= Len(valid)
      /\ \A j \in 1..Len(c) : c[j] = valid[from + j]
  BY <1>1, <1>2, <1>3, ChunkIsCut
<1>5. (chunk + 1) * ChunkSize = from + ChunkSize
  BY <1>1, <1>3
<1>6. ok \in SUBSET (1..Len(c)) /\ got = {c[j] : j \in ok}
  BY <1>2 DEF Told
<1>7. ASSUME NEW j \in ok
      PROVE  /\ c[j] \in Marketing!UserIds /\ c[j] = valid[from + j]
             /\ from + j \in 1..Len(valid) /\ from < from + j
             /\ from + j <= from + ChunkSize
  <2>1. j \in 1..Len(c) /\ j \in Nat
    BY <1>4, <1>6
  <2>2. c[j] \in Marketing!UserIds /\ c[j] = valid[from + j]
    BY <1>4, <2>1
  <2>3. j >= 1 /\ j <= Len(c) /\ Len(c) <= ChunkSize /\ Len(c) \in Nat
    BY <1>4, <2>1
  <2> QED
    BY <1>1, <1>4, <2>2, <2>3
<1>8. \A i, j \in ok : c[i] = c[j] => i = j
  <2> SUFFICES ASSUME NEW i \in ok, NEW j \in ok, c[i] = c[j]
               PROVE  i = j
    OBVIOUS
  <2>1. from + i = from + j
    BY <1>1, <1>7 DEF Marketing!NobodyTwice
  <2> QED
    BY <1>4, <1>6, <2>1
<1>9. got \cap reached = {}
  <2> SUFFICES ASSUME NEW j \in ok, c[j] \in reached PROVE FALSE
    BY <1>6
  <2>1. PICK k \in 1..Len(valid) : k <= from /\ valid[k] = c[j]
    BY <1>1, <1>3
  <2>2. from + j = k
    BY <1>1, <1>7, <2>1 DEF Marketing!NobodyTwice
  <2> QED
    BY <1>7, <2>1, <2>2
<1>10. IsFiniteSet(got) /\ Cardinality(got) = Cardinality(ok)
  <2> DEFINE f == [j \in ok |-> c[j]]
  <2>1. f \in Surjection(ok, got) /\ f \in Injection(ok, got)
    BY <1>6, <1>8 DEF Surjection, Injection, IsInjective
  <2>2. IsFiniteSet(ok)
    <3>1. Len(c) \in Nat /\ ok \in SUBSET (1..Len(c))
      BY <1>4, <1>6
    <3> QED
      BY <3>1, PartIsFinite
  <2> HIDE DEF f
  <2> QED
    BY <2>1, <2>2, FS_Surjection
<1>11. \A u \in got : \E k \in 1..Len(valid) :
         k <= (chunk + 1) * ChunkSize /\ valid[k] = u
  BY <1>5, <1>6, <1>7
<1> QED
  BY <1>2, <1>6, <1>7, <1>8, <1>9, <1>10, <1>11

\* What the chunks after this one still rely on.
LEMMA NextChunkKeeps ==
  ASSUME Marketing!Inductive, phase = "chunk", Marketing!NextChunk,
         NEW got \in SUBSET Marketing!UserIds,
         \A u \in got : \E k \in 1..Len(valid) :
           k <= (chunk + 1) * ChunkSize /\ valid[k] = u,
         reached' = reached \cup got, valid' = valid
  PROVE  Marketing!ChunksOK' /\ chunk' \in Nat /\ phase' \in {"chunk", "save"}
<1>1. /\ chunk \in Nat /\ valid \in Seq(Marketing!UserIds) /\ Len(valid) \in Nat
      /\ Marketing!NobodyTwice(valid)
      /\ \A u \in reached : \E k \in 1..Len(valid) :
           k <= chunk * ChunkSize /\ valid[k] = u
  BY DEF Marketing!Inductive, Marketing!TypeOK, Marketing!ChunksOK
<1>2. /\ chunk' = chunk + 1 /\ chunk' \in Nat /\ phase' \in {"chunk", "save"}
      /\ phase' = "chunk" => chunk' * ChunkSize < Len(valid)
  BY <1>1 DEF Marketing!NextChunk
<1>3. chunk * ChunkSize <= chunk' * ChunkSize /\ chunk * ChunkSize \in Nat
      /\ chunk' * ChunkSize \in Nat
  <2>1. (chunk + 1) * ChunkSize = chunk * ChunkSize + ChunkSize
    BY <1>1
  <2>2. chunk * ChunkSize \in Nat
    BY <1>1
  <2> QED
    BY <1>2, <2>1, <2>2
<1>4. \A u \in reached' : \E k \in 1..Len(valid) :
        k <= chunk' * ChunkSize /\ valid[k] = u
  <2> SUFFICES ASSUME NEW u \in reached'
               PROVE  \E k \in 1..Len(valid) : k <= chunk' * ChunkSize /\ valid[k] = u
    OBVIOUS
  <2>1. CASE u \in reached
    <3>1. PICK k \in 1..Len(valid) : k <= chunk * ChunkSize /\ valid[k] = u
      BY <1>1, <2>1
    <3>2. k <= chunk' * ChunkSize
      BY <1>3, <3>1
    <3> QED
      BY <3>1, <3>2
  <2>2. CASE u \in got
    BY <1>2, <2>2
  <2> QED
    BY <2>1, <2>2
<1>5. Marketing!NobodyTwice(valid)'
  BY <1>1 DEF Marketing!NobodyTwice
<1> QED
  BY <1>2, <1>4, <1>5 DEF Marketing!ChunksOK

\* The users a chunk adds to sentNotifications: as many as its tickets say ok of, and
\* with chunks of one length those of the tickets.
LEMMA NewlySent ==
  ASSUME Marketing!Inductive, phase = "chunk",
         NEW ok \in SUBSET (1..Len(Marketing!Chunk(chunk))),
         NEW new, new = Credited(ok)
  PROVE  /\ new \in Seq(Marketing!UserIds) /\ Len(new) = Cardinality(ok)
         /\ Cardinality(ok) \in Nat
         /\ Marketing!AllOneLength =>
              /\ Marketing!NobodyTwice(new)
              /\ Members(new) = Told(ok)
<1>0. PICK js : js = Marketing!InOrder(ok)
  OBVIOUS
<1>a. new = [k \in 1..Len(js) |-> Marketing!RecipientOf(chunk, js[k])]
  BY <1>0 DEF Credited
<1>1. Marketing!TypeOK /\ chunk \in Nat /\ chunk * ChunkSize < Len(valid)
  BY DEF Marketing!Inductive, Marketing!TypeOK, Marketing!ChunksOK
<1>2. PICK n \in 1..ChunkSize : n = Len(Marketing!Chunk(chunk))
  BY <1>1, ChunkIsCut
<1>3. /\ js \in Seq(ok) /\ Len(js) = Cardinality(ok) /\ Cardinality(ok) \in Nat
      /\ Marketing!NobodyTwice(js)
      /\ \A j \in ok : \E k \in 1..Len(js) : js[k] = j
  <2>1. n \in Nat /\ ok \in SUBSET (1..n)
    BY <1>2
  <2> QED
    BY ZenonT(40), <1>0, <2>1, InOrderIsSeq
<1>4. \A k \in 1..Len(js) : js[k] \in ok /\ js[k] \in 1..Len(Marketing!Chunk(chunk))
  <2>1. ASSUME NEW k \in 1..Len(js) PROVE js[k] \in ok
    BY <1>3
  <2> QED
    BY <2>1
<1>5. \A k \in 1..Len(js) : Marketing!RecipientOf(chunk, js[k]) \in Marketing!UserIds
  BY <1>1, <1>4, RecipientOfIsRecipient
<1>6. new \in [1..Len(js) -> Marketing!UserIds] /\ Len(js) \in Nat
  BY <1>a, <1>3, <1>5
<1>7. new \in Seq(Marketing!UserIds) /\ Len(new) = Len(js)
  BY <1>6
<1>8. ASSUME Marketing!AllOneLength
      PROVE  \A k \in 1..Len(js) : new[k] = Marketing!Chunk(chunk)[js[k]]
  BY <1>a, <1>1, <1>4, <1>8, RecipientOfIsRecipient
<1>9. \A i, j \in ok : Marketing!Chunk(chunk)[i] = Marketing!Chunk(chunk)[j] => i = j
  <2>1. PICK got : got = Told(ok)
    OBVIOUS
  <2> QED
    BY <2>1, NewlyReached
<1>10. ASSUME Marketing!AllOneLength
       PROVE  /\ Marketing!NobodyTwice(new)
              /\ Members(new) = Told(ok)
  <2>1. Marketing!NobodyTwice(new)
    BY <1>3, <1>4, <1>7, <1>8, <1>9, <1>10 DEF Marketing!NobodyTwice
  <2>2. \A k \in 1..Len(new) : new[k] \in {Marketing!Chunk(chunk)[j] : j \in ok}
    BY <1>4, <1>7, <1>8, <1>10
  <2>3. \A j \in ok : \E k \in 1..Len(new) : new[k] = Marketing!Chunk(chunk)[j]
    BY <1>3, <1>7, <1>8, <1>10
  <2>4. {new[k] : k \in 1..Len(new)} = {Marketing!Chunk(chunk)[j] : j \in ok}
    BY ONLY <2>2, <2>3
  <2> QED
    BY <2>1, <2>4 DEF Told, Members
<1> QED
  BY <1>3, <1>7, <1>10

\* What the two outcomes of a chunk leave alone.
LEMMA ChunkSteps ==
  ASSUME Marketing!Inductive, Marketing!SendChunk \/ Marketing!ChunkFails
  PROVE  /\ phase = "chunk" /\ Marketing!NextChunk
         /\ UNCHANGED <<takes, audit, valid, marketingRows>>
         /\ marketingFailed' \in Nat
         /\ IsFiniteSet(reached) /\ Cardinality(reached) \in Nat
<1>1. marketingFailed \in Nat /\ reached \in SUBSET (1..MaxUser)
  BY DEF Marketing!Inductive, Marketing!TypeOK, Marketing!UserIds
<1>2. IsFiniteSet(reached) /\ Cardinality(reached) \in Nat
  <2>1. MaxUser \in Nat
    BY NotificationsAssumption
  <2> QED
    BY <1>1, <2>1, PartIsFinite
<1> QED
  BY <1>1, <1>2 DEF Marketing!SendChunk, Marketing!ChunkFails, Marketing!Failure

\* A chunk answered by Expo.
LEMMA SendChunkKeeps ==
  ASSUME Marketing!Inductive, Marketing!SendChunk PROVE Marketing!Inductive'
<1>0. /\ phase = "chunk" /\ Marketing!NextChunk
      /\ UNCHANGED <<takes, audit, valid, marketingRows>>
      /\ marketingFailed' \in Nat
      /\ IsFiniteSet(reached) /\ Cardinality(reached) \in Nat
  BY ChunkSteps
<1>1. /\ Marketing!TypeOK /\ Marketing!AuditOK /\ Marketing!RowsOK
      /\ sent \in Seq(Marketing!UserIds) /\ reached \in SUBSET Marketing!UserIds
      /\ Len(sent) \in Nat /\ Len(sent) <= Cardinality(reached)
  <2>1. Marketing!TypeOK /\ Marketing!AuditOK /\ Marketing!RowsOK
    BY DEF Marketing!Inductive
  <2>2. sent \in Seq(Marketing!UserIds) /\ reached \in SUBSET Marketing!UserIds
    BY <2>1 DEF Marketing!TypeOK
  <2>3. Len(sent) <= Cardinality(reached)
    BY <2>1, SameCardinality DEF Marketing!AuditOK
  <2> QED
    BY <2>1, <2>2, <2>3
<1>2. PICK ok \in SUBSET (1..Len(Marketing!Chunk(chunk))) :
        reached' = reached \cup Told(ok) /\ sent' = sent \o Credited(ok)
  BY DEF Marketing!SendChunk, Told, Credited
<1>4. PICK new : new = Credited(ok)
  OBVIOUS
<1>5. PICK got : got = Told(ok)
  OBVIOUS
<1>6. reached' = reached \cup got /\ sent' = sent \o new
  BY <1>2, <1>4, <1>5
<1>7. /\ got \in SUBSET Marketing!UserIds /\ got \cap reached = {}
      /\ IsFiniteSet(got) /\ Cardinality(got) = Cardinality(ok)
      /\ \A u \in got : \E k \in 1..Len(valid) :
           k <= (chunk + 1) * ChunkSize /\ valid[k] = u
  <2>1. phase = "chunk" /\ ok \in SUBSET (1..Len(Marketing!Chunk(chunk)))
    BY <1>0, <1>2
  <2> QED
    BY <1>5, <2>1, NewlyReached
<1>8. /\ new \in Seq(Marketing!UserIds) /\ Len(new) = Cardinality(ok)
      /\ Cardinality(ok) \in Nat
      /\ Marketing!AllOneLength =>
           Marketing!NobodyTwice(new) /\ {new[k] : k \in 1..Len(new)} = got
  <2>1. phase = "chunk" /\ ok \in SUBSET (1..Len(Marketing!Chunk(chunk)))
    BY <1>0, <1>2
  <2>2. /\ new \in Seq(Marketing!UserIds) /\ Len(new) = Cardinality(ok)
        /\ Cardinality(ok) \in Nat
        /\ Marketing!AllOneLength =>
             /\ Marketing!NobodyTwice(new)
             /\ Members(new) = Told(ok)
    BY <1>4, <2>1, NewlySent
  <2> QED
    BY ONLY <1>5, <2>2 DEF Members
<1>9. /\ sent' \in Seq(Marketing!UserIds) /\ Len(sent') = Len(sent) + Len(new)
      /\ \A i \in 1..(Len(sent) + Len(new)) :
           sent'[i] = IF i <= Len(sent) THEN sent[i] ELSE new[i - Len(sent)]
  BY <1>1, <1>6, <1>8, ConcatProperties
<1>10. Cardinality(reached') = Cardinality(reached) + Cardinality(ok)
  <2>1. /\ Cardinality(reached \cup got) =
             Cardinality(reached) + Cardinality(got) - Cardinality(reached \cap got)
    BY <1>0, <1>7, FS_Union
  <2>2. Cardinality(reached \cap got) = 0
    <3>1. reached \cap got = {}
      BY <1>7
    <3> QED
      BY <3>1, FS_EmptySet
  <2> QED
    BY <1>0, <1>6, <1>7, <1>8, <2>1, <2>2
<1>11. Marketing!ChunksOK' /\ chunk' \in Nat /\ phase' \in {"chunk", "save"}
  BY <1>0, <1>6, <1>7, NextChunkKeeps
<1>12. Marketing!TypeOK'
  BY <1>0, <1>1, <1>6, <1>7, <1>9, <1>11 DEF Marketing!TypeOK
<1>13. Marketing!AuditOK'
  <2>1. audit'.status \in {"none", "REQUESTED"}
    BY <1>0, <1>1 DEF Marketing!AuditOK
  <2>2. Len(sent') <= Cardinality(reached')
    BY <1>0, <1>1, <1>8, <1>9, <1>10
  <2>3. Marketing!FailedReachedNobody' /\ Marketing!SentCountIsReal'
    BY <2>1 DEF Marketing!FailedReachedNobody, Marketing!SentCountIsReal
  <2> QED
    BY <2>1, <2>2, <2>3, SameCardinality DEF Marketing!AuditOK
<1>14. Marketing!RowsOK'
  <2>1. \A u \in Marketing!UserIds : marketingRows'[u] = 0
    BY <1>0, <1>1 DEF Marketing!RowsOK
  <2>2. ASSUME marketingFailed' = 0, Marketing!AllOneLength'
        PROVE  Marketing!NobodyTwice(sent') /\ {sent'[k] : k \in 1..Len(sent')} = reached'
    <3>1. marketingFailed = 0 /\ Marketing!AllOneLength
      BY <1>0, <2>2 DEF Marketing!SendChunk, Marketing!AllOneLength
    <3>2. Marketing!NobodyTwice(sent) /\ {sent[k] : k \in 1..Len(sent)} = reached
      BY <1>1, <3>1 DEF Marketing!RowsOK
    <3>3. Marketing!NobodyTwice(new) /\ {new[k] : k \in 1..Len(new)} = got
      BY <1>8, <3>1
    <3>4. \A k \in 1..Len(sent) : sent'[k] = sent[k] /\ sent'[k] \in reached
      BY <1>1, <1>8, <1>9, <3>2
    <3>5. ASSUME NEW k \in 1..Len(sent'), ~(k <= Len(sent))
          PROVE  /\ k - Len(sent) \in 1..Len(new)
                 /\ sent'[k] = new[k - Len(sent)] /\ sent'[k] \in got
      <4>1. k - Len(sent) \in 1..Len(new)
        BY <1>1, <1>8, <1>9, <3>5
      <4>2. sent'[k] = new[k - Len(sent)]
        BY <1>9, <3>5
      <4> QED
        BY <3>3, <4>1, <4>2
    <3>6. \A k \in 1..Len(new) : sent'[Len(sent) + k] = new[k]
      <4> SUFFICES ASSUME NEW k \in 1..Len(new)
                   PROVE  sent'[Len(sent) + k] = new[k]
        OBVIOUS
      <4>1. /\ Len(sent) + k \in 1..(Len(sent) + Len(new)) /\ ~(Len(sent) + k <= Len(sent))
            /\ Len(sent) + k - Len(sent) = k
        BY <1>1, <1>8
      <4> QED
        BY <1>9, <4>1
    <3>7. Marketing!NobodyTwice(sent')
      <4> SUFFICES ASSUME NEW i \in 1..Len(sent'), NEW j \in 1..Len(sent'),
                          sent'[i] = sent'[j]
                   PROVE  i = j
        BY DEF Marketing!NobodyTwice
      <4>1. i \in Nat /\ j \in Nat /\ Len(sent) \in Nat
        BY <1>1
      <4>2. CASE i <= Len(sent) /\ j <= Len(sent)
        BY <3>2, <3>4, <4>1, <4>2 DEF Marketing!NobodyTwice
      <4>3. CASE ~(i <= Len(sent)) /\ ~(j <= Len(sent))
        <5>1. i - Len(sent) = j - Len(sent)
          BY <3>3, <3>5, <4>3 DEF Marketing!NobodyTwice
        <5> QED
          BY <4>1, <5>1
      <4>4. CASE i <= Len(sent) /\ ~(j <= Len(sent))
        BY <1>7, <3>4, <3>5, <4>1, <4>4
      <4>5. CASE ~(i <= Len(sent)) /\ j <= Len(sent)
        BY <1>7, <3>4, <3>5, <4>1, <4>5
      <4> QED
        BY <4>2, <4>3, <4>4, <4>5
    <3>8. \A k \in 1..Len(sent') : sent'[k] \in reached'
      <4> SUFFICES ASSUME NEW k \in 1..Len(sent') PROVE sent'[k] \in reached'
        OBVIOUS
      <4>1. CASE k <= Len(sent)
        BY <1>6, <3>4, <4>1
      <4>2. CASE ~(k <= Len(sent))
        BY <1>6, <3>5, <4>2
      <4> QED
        BY <4>1, <4>2
    <3>9. \A u \in reached' : \E k \in 1..Len(sent') : sent'[k] = u
      <4> SUFFICES ASSUME NEW u \in reached' PROVE \E k \in 1..Len(sent') : sent'[k] = u
        OBVIOUS
      <4>1. CASE u \in reached
        <5>1. PICK k \in 1..Len(sent) : sent[k] = u
          BY <3>2, <4>1
        <5>2. k \in 1..Len(sent')
          BY <1>1, <1>8, <1>9
        <5> QED
          BY <3>4, <5>1, <5>2
      <4>2. CASE u \in got
        <5>1. PICK k \in 1..Len(new) : new[k] = u
          BY <3>3, <4>2
        <5>2. Len(sent) + k \in 1..Len(sent')
          BY <1>1, <1>8, <1>9
        <5> QED
          BY <3>6, <5>1, <5>2
      <4> QED
        BY <1>6, <4>1, <4>2
    <3> QED
      BY <3>7, <3>8, <3>9
  <2>3. Marketing!NobodyTwice(sent)' <=> Marketing!NobodyTwice(sent')
    BY DEF Marketing!NobodyTwice
  <2> QED
    BY <1>11, <2>1, <2>2, <2>3 DEF Marketing!RowsOK, Marketing!SavedAreReached
<1> QED
  BY <1>11, <1>12, <1>13, <1>14 DEF Marketing!Inductive

\* A chunk whose answer does not come: a failure, of whom nobody is saved.
LEMMA ChunkFailsKeeps ==
  ASSUME Marketing!Inductive, Marketing!ChunkFails PROVE Marketing!Inductive'
<1>0. /\ phase = "chunk" /\ Marketing!NextChunk
      /\ UNCHANGED <<takes, audit, valid, marketingRows>>
      /\ marketingFailed' \in Nat
      /\ IsFiniteSet(reached) /\ Cardinality(reached) \in Nat
  BY ChunkSteps
<1>1. /\ Marketing!TypeOK /\ Marketing!AuditOK /\ Marketing!RowsOK
      /\ sent' = sent /\ reached \in SUBSET Marketing!UserIds
      /\ Len(sent) \in Nat /\ Len(sent) <= Cardinality(reached)
      /\ marketingFailed' # 0
  <2>1. Marketing!TypeOK /\ Marketing!AuditOK /\ Marketing!RowsOK
    BY DEF Marketing!Inductive
  <2>2. sent \in Seq(Marketing!UserIds) /\ reached \in SUBSET Marketing!UserIds
    BY <2>1 DEF Marketing!TypeOK
  <2>3. Len(sent) <= Cardinality(reached)
    BY <2>1, SameCardinality DEF Marketing!AuditOK
  <2>4. sent' = sent
    BY DEF Marketing!ChunkFails
  <2>5. marketingFailed' # 0
    BY <2>1 DEF Marketing!ChunkFails, Marketing!Failure, Marketing!TypeOK
  <2> QED
    BY <2>1, <2>2, <2>3, <2>4, <2>5
<1>2. PICK ok \in SUBSET (1..Len(Marketing!Chunk(chunk))) :
        reached' = reached \cup Told(ok)
  BY DEF Marketing!ChunkFails, Told
<1>3. PICK got : got = Told(ok)
  OBVIOUS
<1>4. /\ got \in SUBSET Marketing!UserIds /\ IsFiniteSet(got)
      /\ \A u \in got : \E k \in 1..Len(valid) :
           k <= (chunk + 1) * ChunkSize /\ valid[k] = u
  <2>1. phase = "chunk" /\ ok \in SUBSET (1..Len(Marketing!Chunk(chunk)))
    BY <1>0, <1>2
  <2> QED
    BY <1>3, <2>1, NewlyReached
<1>5. reached' = reached \cup got
  BY <1>2, <1>3
<1>6. Marketing!ChunksOK' /\ chunk' \in Nat /\ phase' \in {"chunk", "save"}
  BY <1>0, <1>4, <1>5, NextChunkKeeps
<1>7. Cardinality(reached) <= Cardinality(reached') /\ Cardinality(reached') \in Nat
  <2>1. IsFiniteSet(reached') /\ reached \in SUBSET reached'
    BY <1>0, <1>4, <1>5, FS_Union
  <2> QED
    BY <2>1, FS_Subset, FS_CardinalityType
<1>8. Marketing!TypeOK'
  BY <1>0, <1>1, <1>4, <1>5, <1>6 DEF Marketing!TypeOK
<1>9. Marketing!AuditOK'
  <2>1. audit'.status \in {"none", "REQUESTED"}
    BY <1>0, <1>1 DEF Marketing!AuditOK
  <2>2. Len(sent') <= Cardinality(reached')
    BY <1>0, <1>1, <1>7
  <2>3. Marketing!FailedReachedNobody' /\ Marketing!SentCountIsReal'
    BY <2>1 DEF Marketing!FailedReachedNobody, Marketing!SentCountIsReal
  <2> QED
    BY <2>1, <2>2, <2>3, SameCardinality DEF Marketing!AuditOK
<1>10. Marketing!RowsOK'
  BY <1>0, <1>1, <1>6 DEF Marketing!RowsOK
<1> QED
  BY <1>6, <1>8, <1>9, <1>10 DEF Marketing!Inductive

\* createMany writes a row of each user in sentNotifications.
LEMMA MarketingSaveKeeps ==
  ASSUME Marketing!Inductive, Marketing!Save PROVE Marketing!Inductive'
<1>1. /\ Marketing!TypeOK /\ Marketing!ChunksOK /\ Marketing!AuditOK /\ Marketing!RowsOK
      /\ phase = "save" /\ phase' = "sent"
      /\ UNCHANGED <<takes, audit, valid, chunk, sent, reached, marketingFailed>>
      /\ sent \in Seq(Marketing!UserIds) /\ Len(sent) \in Nat
      /\ marketingRows \in [Marketing!UserIds -> Nat]
  BY DEF Marketing!Inductive, Marketing!TypeOK, Marketing!Save, Marketing!local
<1>2. marketingRows' = [u \in Marketing!UserIds |-> marketingRows[u] +
                          Marketing!Cardinality({k \in 1..Len(sent) : sent[k] = u})]
  BY DEF Marketing!Save
<1>3. ASSUME NEW u \in Marketing!UserIds
      PROVE  Marketing!Cardinality({k \in 1..Len(sent) : sent[k] = u}) \in Nat
  <2>1. PICK of : of = {k \in 1..Len(sent) : sent[k] = u}
    OBVIOUS
  <2>2. Cardinality(of) \in Nat
    <3>1. of \in SUBSET (1..Len(sent)) /\ Len(sent) \in Nat
      BY <1>1, <2>1
    <3> QED
      BY <3>1, PartIsFinite
  <2>3. Marketing!Cardinality(of) \in Nat
    BY <2>2, SameCardinality
  <2> QED
    BY ONLY <2>1, <2>3
<1>4. marketingRows' \in [Marketing!UserIds -> Nat]
  BY <1>1, <1>2, <1>3
<1>5. Marketing!TypeOK' /\ Marketing!ChunksOK' /\ Marketing!AuditOK'
  <2>1. Marketing!TypeOK'
    BY <1>1, <1>4 DEF Marketing!TypeOK
  <2>2. Marketing!ChunksOK'
    BY <1>1 DEF Marketing!ChunksOK, Marketing!NobodyTwice
  <2>3. Marketing!AuditOK'
    BY <1>1 DEF Marketing!AuditOK, Marketing!FailedReachedNobody,
                Marketing!SentCountIsReal
  <2> QED
    BY <2>1, <2>2, <2>3
<1>6. ASSUME marketingFailed = 0, Marketing!AllOneLength
      PROVE  /\ Marketing!NobodyTwice(sent)
             /\ {sent[k] : k \in 1..Len(sent)} = reached
             /\ \A u \in Marketing!UserIds :
                  marketingRows'[u] = IF u \in reached THEN 1 ELSE 0
  <2>1. Marketing!NobodyTwice(sent) /\ {sent[k] : k \in 1..Len(sent)} = reached
    BY <1>1, <1>6 DEF Marketing!RowsOK
  <2>2. ASSUME NEW u \in Marketing!UserIds
        PROVE  marketingRows'[u] = IF u \in reached THEN 1 ELSE 0
    <3>1. PICK of : of = {k \in 1..Len(sent) : sent[k] = u}
      OBVIOUS
    <3>2. marketingRows'[u] = 0 + Cardinality(of)
      <4>1. marketingRows[u] = 0
        BY <1>1 DEF Marketing!RowsOK
      <4>2. marketingRows'[u] = marketingRows[u] + Marketing!Cardinality(of)
        BY <1>2, <3>1
      <4> QED
        BY <4>1, <4>2, SameCardinality
    <3>3. CASE u \in reached
      <4>1. PICK k \in 1..Len(sent) : sent[k] = u
        BY <2>1, <3>3
      <4>2. of = {k}
        BY <2>1, <3>1, <4>1 DEF Marketing!NobodyTwice
      <4> QED
        <5>1. Cardinality(of) = 1
          BY <4>2, FS_Singleton
        <5> QED
          BY <3>2, <3>3, <5>1
    <3>4. CASE u \notin reached
      <4>1. of = {}
        BY <2>1, <3>1, <3>4
      <4> QED
        <5>1. Cardinality(of) = 0
          BY <4>1, FS_EmptySet
        <5> QED
          BY <3>2, <3>4, <5>1
    <3> QED
      BY <3>3, <3>4
  <2> QED
    BY <2>1, <2>2
<1>7. Marketing!RowsOK'
  BY <1>1, <1>6
  DEF Marketing!RowsOK, Marketing!SavedAreReached, Marketing!AllOneLength,
      Marketing!NobodyTwice
<1> QED
  BY <1>5, <1>7 DEF Marketing!Inductive

\* The recipients are read once, before anybody is reached.
LEMMA ReadKeeps ==
  ASSUME Marketing!Inductive, Marketing!Read PROVE Marketing!Inductive'
<1>1. /\ Marketing!TypeOK /\ Marketing!AuditOK /\ Marketing!RowsOK
      /\ phase = "read" /\ phase' = (IF takes = {} THEN "sent" ELSE "chunk")
      /\ UNCHANGED <<takes, audit, chunk, sent, reached, marketingRows, marketingFailed>>
      /\ valid' = Marketing!InOrder(takes)
      /\ takes \in SUBSET (1..MaxUser)
  BY DEF Marketing!Inductive, Marketing!TypeOK, Marketing!Read, Marketing!UserIds
<1>2. reached = {} /\ sent = <<>> /\ chunk = 0
  BY <1>1 DEF Marketing!Inductive, Marketing!ChunksOK
<1>3. /\ valid' \in Seq(takes) /\ Len(valid') = Cardinality(takes)
      /\ Cardinality(takes) \in Nat /\ IsFiniteSet(takes)
      /\ Marketing!NobodyTwice(valid')
  BY <1>1, InOrderIsSeq
<1>4. valid' \in Seq(Marketing!UserIds)
  <2>1. ASSUME NEW k \in 1..Len(valid') PROVE valid'[k] \in 1..MaxUser
    <3>1. valid'[k] \in takes
      BY <1>3
    <3> QED
      BY <1>1, <3>1
  <2>2. valid' \in Seq(1..MaxUser)
    BY <1>3, <2>1
  <2> QED
    BY <2>2 DEF Marketing!UserIds
<1>5. takes # {} => 0 < Len(valid')
  BY <1>3, FS_EmptySet
<1>6. Marketing!TypeOK'
  BY <1>1, <1>4 DEF Marketing!TypeOK
<1>7. Marketing!ChunksOK'
  <2>1. Marketing!NobodyTwice(valid)' <=> Marketing!NobodyTwice(valid')
    BY DEF Marketing!NobodyTwice
  <2>2. phase' = "chunk" => chunk' * ChunkSize < Len(valid')
    BY <1>1, <1>2, <1>5
  <2> QED
    BY <1>1, <1>2, <1>3, <2>1, <2>2 DEF Marketing!ChunksOK
<1>8. Marketing!AuditOK'
  BY <1>1, <1>2
  DEF Marketing!AuditOK, Marketing!FailedReachedNobody, Marketing!SentCountIsReal
<1>9. Marketing!RowsOK'
  <2>1. \A u \in Marketing!UserIds : marketingRows'[u] = 0
    BY <1>1 DEF Marketing!RowsOK
  <2>2. Len(sent') = 0 /\ reached' = {} /\ phase' # "threw"
    BY <1>1, <1>2
  <2>3. {sent'[k] : k \in 1..Len(sent')} = reached'
    BY <2>2
  <2>4. Marketing!NobodyTwice(sent)'
    BY <2>2 DEF Marketing!NobodyTwice
  <2>5. Marketing!SavedAreReached'
    BY <2>1, <2>2 DEF Marketing!SavedAreReached
  <2> QED
    BY <2>1, <2>2, <2>3, <2>4, <2>5 DEF Marketing!RowsOK
<1> QED
  BY <1>6, <1>7, <1>8, <1>9 DEF Marketing!Inductive

\* The steps that move no recipient: the audit log, failures, and users' changes.
LEMMA MarketingQuietStepKeeps ==
  ASSUME Marketing!Inductive,
         \/ \E u \in Marketing!UserIds : Marketing!Change(u)
         \/ Marketing!Request \/ Marketing!ReadFails \/ Marketing!SaveFails
         \/ Marketing!MarkSuccess \/ Marketing!MarkFailure \/ Marketing!MarkFails
  PROVE  Marketing!Inductive'
<1>1. /\ Marketing!TypeOK /\ Marketing!ChunksOK /\ Marketing!AuditOK /\ Marketing!RowsOK
      /\ UNCHANGED <<valid, chunk, sent, reached, marketingRows>>
      /\ Len(sent) \in Nat
  BY DEF Marketing!Inductive, Marketing!TypeOK, Marketing!Change, Marketing!Request,
         Marketing!ReadFails, Marketing!SaveFails, Marketing!MarkSuccess,
         Marketing!MarkFailure, Marketing!MarkFails, Marketing!local
<1>2. takes' \in SUBSET Marketing!UserIds
  BY <1>1 DEF Marketing!TypeOK, Marketing!Change, Marketing!Request,
         Marketing!ReadFails, Marketing!SaveFails, Marketing!MarkSuccess,
         Marketing!MarkFailure, Marketing!MarkFails, Marketing!local
<1>3. /\ marketingFailed' \in Nat
      /\ marketingFailed' = marketingFailed \/ marketingFailed' # 0
      /\ marketingFailed' = 0 => marketingFailed = 0
  BY <1>1 DEF Marketing!TypeOK, Marketing!Change, Marketing!Request,
         Marketing!ReadFails, Marketing!SaveFails, Marketing!MarkSuccess,
         Marketing!MarkFailure, Marketing!MarkFails, Marketing!local, Marketing!Failure
<1>4. \/ phase' = phase /\ audit' = audit
      \/ /\ phase = "idle" /\ phase' = "read"
         /\ audit' \in {audit, [status |-> "REQUESTED"]}
      \/ phase = "read" /\ phase' = "threw" /\ audit' = audit /\ marketingFailed' # 0
      \/ phase = "save" /\ phase' = "sent" /\ audit' = audit /\ marketingFailed' # 0
      \/ /\ phase = "sent" /\ phase' = "done"
         /\ audit' \in {audit, [status |-> "SENT", sentCount |-> Len(sent)]}
      \/ /\ phase = "threw" /\ phase' = "done"
         /\ audit' \in {audit, [status |-> "FAILED"]}
  BY <1>1 DEF Marketing!TypeOK, Marketing!Change, Marketing!Request,
         Marketing!ReadFails, Marketing!SaveFails, Marketing!MarkSuccess,
         Marketing!MarkFailure, Marketing!MarkFails, Marketing!local, Marketing!Failure
<1>5. Marketing!TypeOK'
  <2>1. phase' \in {"idle", "read", "chunk", "save", "sent", "threw", "done"}
    BY <1>1, <1>4 DEF Marketing!TypeOK
  <2>2. audit' \in {Marketing!NoAudit} \cup [status : {"REQUESTED", "FAILED"}]
                      \cup [status : {"SENT"}, sentCount : Nat]
    BY <1>1, <1>4 DEF Marketing!TypeOK
  <2> QED
    BY <1>1, <1>2, <1>3, <2>1, <2>2 DEF Marketing!TypeOK
<1>6. Marketing!ChunksOK'
  <2>1. phase' \in {"idle", "read", "threw"} => phase \in {"idle", "read", "threw"}
    BY <1>4
  <2>2. phase' = "chunk" => phase = "chunk"
    BY <1>4
  <2> QED
    BY <1>1, <2>1, <2>2 DEF Marketing!ChunksOK, Marketing!NobodyTwice
<1>7. Marketing!AuditOK'
  <2>1. phase = "threw" => reached = {}
    BY <1>1 DEF Marketing!ChunksOK
  <2>2. phase' # "done" => audit'.status \in {"none", "REQUESTED"}
    BY <1>1, <1>4 DEF Marketing!AuditOK
  <2>3. audit'.status = "FAILED" => reached = {}
    BY <1>1, <1>4, <2>1 DEF Marketing!AuditOK, Marketing!FailedReachedNobody
  <2>4. /\ Len(sent) <= Marketing!Cardinality(reached)
        /\ audit.status = "SENT" => audit.sentCount <= Marketing!Cardinality(reached)
    BY <1>1 DEF Marketing!AuditOK, Marketing!SentCountIsReal
  <2>5. audit'.status = "SENT" =>
          \/ audit' = audit
          \/ audit' = [status |-> "SENT", sentCount |-> Len(sent)]
    BY <1>4
  <2>6. audit'.status = "SENT" => audit'.sentCount <= Marketing!Cardinality(reached)
    BY <2>4, <2>5
  <2>7. Marketing!FailedReachedNobody'
    BY <1>1, <2>3 DEF Marketing!FailedReachedNobody
  <2>8. Marketing!SentCountIsReal'
    BY <1>1, <2>6 DEF Marketing!SentCountIsReal
  <2> QED
    BY <1>1, <2>2, <2>4, <2>7, <2>8 DEF Marketing!AuditOK
<1>8. Marketing!RowsOK'
  <2>1. phase' \notin {"sent", "done"} => \A u \in Marketing!UserIds : marketingRows[u] = 0
    BY <1>1, <1>4 DEF Marketing!RowsOK
  <2>2. ASSUME marketingFailed' = 0, Marketing!AllOneLength
        PROVE  /\ phase' # "threw" /\ Marketing!NobodyTwice(sent)
               /\ {sent[k] : k \in 1..Len(sent)} = reached
               /\ phase' \in {"sent", "done"} => \A u \in Marketing!UserIds :
                    marketingRows[u] = IF u \in reached THEN 1 ELSE 0
    BY <1>1, <1>3, <1>4, <2>2 DEF Marketing!RowsOK, Marketing!SavedAreReached
  <2> QED
    BY <1>1, <2>1, <2>2
    DEF Marketing!RowsOK, Marketing!SavedAreReached, Marketing!AllOneLength,
        Marketing!NobodyTwice
<1> QED
  BY <1>5, <1>6, <1>7, <1>8 DEF Marketing!Inductive

\* Inductive holds at the start.
LEMMA MarketingInit == Marketing!Init => Marketing!Inductive
<1> SUFFICES ASSUME Marketing!Init PROVE Marketing!Inductive
  OBVIOUS
<1> USE DEF Marketing!Init
<1>1. Len(sent) = 0 /\ reached = {} /\ Len(valid) = 0 /\ Cardinality(reached) = 0
  BY FS_EmptySet
<1>2. Marketing!TypeOK
  BY DEF Marketing!TypeOK
<1>3. Marketing!ChunksOK
  BY DEF Marketing!ChunksOK, Marketing!NobodyTwice
<1>4. Marketing!AuditOK
  BY <1>1, SameCardinality DEF Marketing!AuditOK, Marketing!FailedReachedNobody,
              Marketing!SentCountIsReal, Marketing!NoAudit
<1>5. Marketing!RowsOK
  <2>1. {sent[k] : k \in 1..Len(sent)} = reached
    BY <1>1
  <2> QED
    BY <1>1, <2>1 DEF Marketing!RowsOK, Marketing!SavedAreReached, Marketing!NobodyTwice
<1> QED
  BY <1>2, <1>3, <1>4, <1>5 DEF Marketing!Inductive

\* Every step of MarketingSend.
LEMMA MarketingStep ==
  Marketing!Inductive /\ [Marketing!Next]_(Marketing!vars) => Marketing!Inductive'
<1> SUFFICES ASSUME Marketing!Inductive, [Marketing!Next]_(Marketing!vars)
             PROVE  Marketing!Inductive'
  OBVIOUS
<1>1. CASE UNCHANGED Marketing!vars
  <2>1. /\ takes' = takes /\ phase' = phase /\ audit' = audit /\ valid' = valid
        /\ chunk' = chunk /\ sent' = sent /\ reached' = reached
        /\ marketingRows' = marketingRows /\ marketingFailed' = marketingFailed
    BY <1>1 DEF Marketing!vars, Marketing!local
  <2>2. Marketing!TypeOK /\ Marketing!ChunksOK /\ Marketing!AuditOK /\ Marketing!RowsOK
    BY DEF Marketing!Inductive
  <2>3. Marketing!TypeOK'
    BY <2>1, <2>2 DEF Marketing!TypeOK
  <2>4. Marketing!ChunksOK'
    BY <2>1, <2>2 DEF Marketing!ChunksOK, Marketing!NobodyTwice
  <2>5. Marketing!AuditOK'
    BY <2>1, <2>2 DEF Marketing!AuditOK, Marketing!FailedReachedNobody,
                      Marketing!SentCountIsReal
  <2>6. Marketing!RowsOK'
    BY <2>1, <2>2 DEF Marketing!RowsOK, Marketing!SavedAreReached,
                      Marketing!AllOneLength, Marketing!NobodyTwice
  <2> QED
    BY <2>3, <2>4, <2>5, <2>6 DEF Marketing!Inductive
<1>2. CASE Marketing!Next
  <2>1. CASE Marketing!SendChunk
    BY <2>1, SendChunkKeeps
  <2>2. CASE Marketing!ChunkFails
    BY <2>2, ChunkFailsKeeps
  <2>3. CASE Marketing!Save
    BY <2>3, MarketingSaveKeeps
  <2>4. CASE Marketing!Read
    BY <2>4, ReadKeeps
  <2>5. CASE \/ \E u \in Marketing!UserIds : Marketing!Change(u)
             \/ Marketing!Request \/ Marketing!ReadFails \/ Marketing!SaveFails
             \/ Marketing!MarkSuccess \/ Marketing!MarkFailure \/ Marketing!MarkFails
    BY <2>5, MarketingQuietStepKeeps
  <2> QED
    BY <1>2, <2>1, <2>2, <2>3, <2>4, <2>5 DEF Marketing!Next
<1> QED
  BY <1>1, <1>2

\* The audit log tells what happened: a request it calls FAILED reached nobody, one it
\* calls SENT at least as many as it says, and of chunks of one length exactly the
\* reached recipients have a Notification row.
THEOREM AuditIsTrueHolds == MCSpec => []AuditIsTrue
<1>1. MCInit => Marketing!Inductive
  BY MarketingInit DEF MCInit
<1>2. Marketing!Inductive /\ [MCNext]_MCvars => Marketing!Inductive'
  BY MarketingStep, StepsOfSenders
<1>3. Marketing!Inductive => AuditIsTrue
  BY DEF AuditIsTrue, Marketing!Inductive, Marketing!AuditOK, Marketing!RowsOK,
         Marketing!FullChunksAreSaved, Marketing!SavedAreReached
<1>4. QED BY <1>1, <1>2, <1>3, PTL DEF MCSpec
=============================================================================
