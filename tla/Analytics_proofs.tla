--------------------------- MODULE Analytics_proofs ---------------------------
(***************************************************************************)
(* Proofs about AnalyticsIngest and the panel of AnalyticsAudience.        *)
(***************************************************************************)
EXTENDS MCAnalytics, FiniteSetTheorems, FunctionTheorems, SequenceTheorems, TLAPS

USE AnalyticsAssumption

(***************************************************************************)
(* The requests.                                                           *)
(***************************************************************************)

\* A request that is under way carries a summary.
LEMMA BusyIs ==
  ASSUME TypeOK, NEW r \in Requests, req[r].phase # "idle"
  PROVE  /\ req[r] \in [phase : RequestPhases, summary : Summary]
         /\ req[r].summary \in Summary /\ req[r].summary.install \in Keys
<1>1. req[r] \in Standing
  BY DEF TypeOK
<1>2. req[r] \in [phase : RequestPhases, summary : Summary]
  BY <1>1 DEF Standing, At
<1> QED
  BY <1>2 DEF Summary, Keys

LEMMA GotoKeeps ==
  ASSUME TypeOK, NEW r \in Requests, req[r].phase # "idle",
         NEW p \in RequestPhases, Goto(r, p)
  PROVE  req' \in [Requests -> Standing]
<1>1. req[r] \in [phase : RequestPhases, summary : Summary]
  BY BusyIs
<1>2. req \in [Requests -> Standing]
  BY DEF TypeOK
<1>3. [req[r] EXCEPT !.phase = p] \in Standing
  BY <1>1 DEF Standing
<1>4. req' = [req EXCEPT ![r] = [req[r] EXCEPT !.phase = p]]
  BY <1>2 DEF Goto
<1> QED
  BY <1>2, <1>3, <1>4

LEMMA EndKeeps ==
  ASSUME TypeOK, NEW r \in Requests, End(r) PROVE req' \in [Requests -> Standing]
<1>1. At("idle", NoSummary) \in Standing
  BY DEF Standing
<1>2. req \in [Requests -> Standing]
  BY DEF TypeOK
<1>3. req' = [req EXCEPT ![r] = At("idle", NoSummary)]
  BY DEF End
<1> QED
  BY <1>1, <1>2, <1>3

\* What the steps before the queue leave alone.
IngestOnly ==
  /\ job' = job /\ queue' = queue /\ uniqueSession' = uniqueSession
  /\ uniqueInstall' = uniqueInstall /\ firstSeen' = firstSeen /\ daily' = daily
  /\ views' = views /\ receipts' = receipts /\ crashes' = crashes /\ whole' = whole

LEMMA IncrKeeps ==
  ASSUME TypeOK, NEW r \in Requests, req[r].phase # "idle", NEW k \in Keys,
         NEW expire \in RequestPhases, NEW next \in RequestPhases,
         Incr(r, k, expire, next)
  PROVE  /\ count' \in [Keys -> Nat] /\ expires' = expires /\ failures' = failures
         /\ req' \in [Requests -> Standing] /\ IngestOnly
<1>1. count \in [Keys -> Nat]
  BY DEF TypeOK
<1>2. /\ count' = [count EXCEPT ![k] = @ + 1] /\ expires' = expires
      /\ failures' = failures
      /\ Goto(r, expire) \/ Goto(r, next) \/ End(r)
  BY DEF Incr, Judge, faults
<1>3. IngestOnly
  BY DEF Incr, IngestOnly, bull, tables, faults
<1>4. req' \in [Requests -> Standing]
  BY <1>2, GotoKeeps, EndKeeps
<1> QED
  BY <1>1, <1>2, <1>3, <1>4

LEMMA ExpireKeeps ==
  ASSUME TypeOK, NEW r \in Requests, req[r].phase # "idle", NEW k \in Keys,
         NEW next \in RequestPhases, Expire(r, k, next)
  PROVE  /\ count' = count /\ expires' \in SUBSET Keys /\ failures' = failures
         /\ req' \in [Requests -> Standing] /\ IngestOnly
<1>1. expires \in SUBSET Keys
  BY DEF TypeOK
<1>2. /\ expires' = expires \cup {k} /\ count' = count /\ failures' = failures
      /\ Goto(r, next)
  BY DEF Expire, faults
<1>3. IngestOnly
  BY DEF Expire, IngestOnly, bull, tables, faults
<1> QED
  BY <1>1, <1>2, <1>3, GotoKeeps

\* The steps of a request before its summary is queued, and the end of a window.
LEMMA IngestStep ==
  ASSUME TypeOK,
         \/ \E r \in Requests : \/ IpIncr(r) \/ IpExpire(r) \/ Validate(r)
                                \/ InstallIncr(r) \/ InstallExpire(r)
                                \/ EnqueueBeyondBound(r) \/ RequestFails(r)
         \/ \E r \in Requests, s \in Summary : Receive(r, s)
         \/ \E k \in Keys : WindowEnds(k)
  PROVE  /\ count' \in [Keys -> Nat] /\ expires' \in SUBSET Keys /\ failures' \in Nat
         /\ req' \in [Requests -> Standing] /\ IngestOnly
<1>1. /\ count \in [Keys -> Nat] /\ expires \in SUBSET Keys /\ failures \in Nat
      /\ req \in [Requests -> Standing]
  BY DEF TypeOK
<1>2. /\ "ip" \in Keys
      /\ {"ip", "ipExpire", "validate", "install", "installExpire", "add"}
           = RequestPhases
  BY DEF Keys, RequestPhases
<1>3. ASSUME NEW r \in Requests, IpIncr(r) \/ InstallIncr(r)
      PROVE  /\ count' \in [Keys -> Nat] /\ expires' = expires /\ failures' = failures
             /\ req' \in [Requests -> Standing] /\ IngestOnly
  <2>1. CASE IpIncr(r)
    <3>1. req[r].phase # "idle" /\ Incr(r, "ip", "ipExpire", "validate")
      BY <2>1 DEF IpIncr
    <3> QED
      BY <1>2, <3>1, IncrKeeps
  <2>2. CASE InstallIncr(r)
    <3>1. /\ req[r].phase # "idle"
          /\ Incr(r, req[r].summary.install, "installExpire", "add")
      BY <2>2 DEF InstallIncr
    <3>2. req[r].summary.install \in Keys
      BY <3>1, BusyIs
    <3> QED
      BY <1>2, <3>1, <3>2, IncrKeeps
  <2> QED
    BY <1>3, <2>1, <2>2
<1>4. ASSUME NEW r \in Requests, IpExpire(r) \/ InstallExpire(r)
      PROVE  /\ count' = count /\ expires' \in SUBSET Keys /\ failures' = failures
             /\ req' \in [Requests -> Standing] /\ IngestOnly
  <2>1. CASE IpExpire(r)
    <3>1. req[r].phase # "idle" /\ Expire(r, "ip", "validate")
      BY <2>1 DEF IpExpire
    <3> QED
      BY <1>2, <3>1, ExpireKeeps
  <2>2. CASE InstallExpire(r)
    <3>1. req[r].phase # "idle" /\ Expire(r, req[r].summary.install, "add")
      BY <2>2 DEF InstallExpire
    <3>2. req[r].summary.install \in Keys
      BY <3>1, BusyIs
    <3> QED
      BY <1>2, <3>1, <3>2, ExpireKeeps
  <2> QED
    BY <1>4, <2>1, <2>2
<1>5. ASSUME NEW r \in Requests, Validate(r)
      PROVE  /\ count' = count /\ expires' = expires /\ failures' = failures
             /\ req' \in [Requests -> Standing] /\ IngestOnly
  <2>1. req[r].phase # "idle" /\ (Goto(r, "install") \/ End(r))
    BY <1>5 DEF Validate
  <2>2. req' \in [Requests -> Standing]
    BY <1>2, <2>1, GotoKeeps, EndKeeps
  <2> QED
    BY <1>5, <2>2 DEF Validate, IngestOnly, redis, bull, tables, faults
<1>6. ASSUME NEW r \in Requests, EnqueueBeyondBound(r) \/ RequestFails(r)
      PROVE  /\ count' = count /\ expires' = expires /\ failures' \in Nat
             /\ req' \in [Requests -> Standing] /\ IngestOnly
  <2>1. End(r) /\ count' = count /\ expires' = expires /\ failures' \in Nat
    BY <1>1, <1>6 DEF EnqueueBeyondBound, RequestFails, redis, faults
  <2>2. IngestOnly
    BY <1>6 DEF EnqueueBeyondBound, RequestFails, IngestOnly, bull, tables, faults
  <2> QED
    BY <2>1, <2>2, EndKeeps
<1>7. ASSUME NEW r \in Requests, NEW s \in Summary, Receive(r, s)
      PROVE  /\ count' = count /\ expires' = expires /\ failures' = failures
             /\ req' \in [Requests -> Standing] /\ IngestOnly
  <2>1. PICK p \in {"ip", "add"} : req' = [req EXCEPT ![r] = At(p, s)]
    BY <1>7 DEF Receive
  <2>2. At(p, s) \in Standing
    BY <1>2, <2>1 DEF At, Standing
  <2>3. req' \in [Requests -> Standing]
    BY <1>1, <2>1, <2>2
  <2> QED
    BY <1>7, <2>3 DEF Receive, IngestOnly, redis, bull, tables, faults
<1>8. ASSUME NEW k \in Keys, WindowEnds(k)
      PROVE  /\ count' \in [Keys -> Nat] /\ expires' \in SUBSET Keys
             /\ failures' = failures /\ req' = req /\ IngestOnly
  <2>1. IngestOnly
    BY <1>8 DEF WindowEnds, IngestOnly, bull, tables, faults
  <2> QED
    BY <1>1, <1>8, <2>1 DEF WindowEnds, faults
<1> QED
  BY <1>1, <1>3, <1>4, <1>5, <1>6, <1>7, <1>8

(***************************************************************************)
(* The jobs.                                                               *)
(***************************************************************************)

Phases == {"waiting", "active", "committed", "delayed", "failed", "done"}

LEMMA JobIs ==
  ASSUME TypeOK, NEW i \in JobIds
  PROVE  /\ job[i] # NoJob \/ job[i].phase # "none" => job[i] \in JobRecords
         /\ job[i] \in JobRecords =>
              job[i] # NoJob /\ job[i].summary \in Summary /\ job[i].phase \in Phases
<1>1. job[i] \in JobRecords \cup {NoJob}
  BY DEF TypeOK
<1>2. NoJob.phase = "none"
  BY DEF NoJob
<1>3. job[i] \in JobRecords => job[i].summary \in Summary /\ job[i].phase \in Phases
  BY DEF JobRecords, Phases
<1>4. "none" \notin Phases
  BY DEF Phases
<1> QED
  BY <1>1, <1>2, <1>3, <1>4

\* A job that only moves on.
LEMMA JobMoves ==
  ASSUME TypeOK, NEW i \in JobIds, job[i] \in JobRecords, NEW p \in Phases,
         NEW j \in JobRecords, j.summary = job[i].summary, j.phase = p,
         job' = [job EXCEPT ![i] = j]
  PROVE  /\ job' \in [JobIds -> JobRecords \cup {NoJob}]
         /\ job'[i].phase = p /\ \A k \in JobIds : k # i => job'[k] = job[k]
         /\ \A k \in JobIds : job[k] # NoJob =>
              job'[k] # NoJob /\ job'[k].summary = job[k].summary
<1>1. job \in [JobIds -> JobRecords \cup {NoJob}]
  BY DEF TypeOK
<1>2. job'[i] = j /\ \A k \in JobIds : k # i => job'[k] = job[k]
  BY <1>1
<1>3. j # NoJob
  <2>1. NoJob.phase = "none" /\ "none" \notin Phases
    BY DEF NoJob, Phases
  <2> QED
    BY <2>1
<1> QED
  BY <1>1, <1>2, <1>3

LEMMA SetJobIs ==
  ASSUME TypeOK, NEW i \in JobIds, job[i].phase # "none", NEW p \in Phases, SetJob(i, p)
  PROVE  /\ job' \in [JobIds -> JobRecords \cup {NoJob}]
         /\ job'[i].phase = p /\ \A k \in JobIds : k # i => job'[k] = job[k]
         /\ \A k \in JobIds : job[k] # NoJob =>
              job'[k] # NoJob /\ job'[k].summary = job[k].summary
<1>1. job[i] \in JobRecords
  BY JobIs
<1>2. PICK j : j = [job[i] EXCEPT !.phase = p]
  OBVIOUS
<1>3. j \in JobRecords /\ j.summary = job[i].summary /\ j.phase = p
  BY <1>1, <1>2 DEF JobRecords, Phases
<1>4. job' = [job EXCEPT ![i] = j]
  <2>1. job \in [JobIds -> JobRecords \cup {NoJob}]
    BY DEF TypeOK
  <2> QED
    BY <1>2, <2>1 DEF SetJob
<1> QED
  BY <1>1, <1>3, <1>4, JobMoves

\* The queue, when the jobs in it still wait.
LEMMA QueueStays ==
  ASSUME TypeOK, QueueOK, queue' = queue,
         \A k \in JobIds : job[k].phase = "waiting" => job'[k].phase = "waiting"
  PROVE  queue' \in Seq(JobIds) /\ QueueOK'
<1>1. queue \in Seq(JobIds) /\ \A k \in 1..Len(queue) : queue[k] \in JobIds
  BY DEF TypeOK
<1> QED
  BY <1>1 DEF QueueOK

\* A job that did not wait joins it.
LEMMA QueueGrows ==
  ASSUME TypeOK, QueueOK, NEW i \in JobIds, queue' = Append(queue, i),
         job[i].phase # "waiting", job'[i].phase = "waiting",
         \A k \in JobIds : job[k].phase = "waiting" => job'[k].phase = "waiting"
  PROVE  queue' \in Seq(JobIds) /\ QueueOK'
<1>1. /\ queue \in Seq(JobIds) /\ Len(queue) \in Nat
      /\ \A k \in 1..Len(queue) : queue[k] \in JobIds
  BY DEF TypeOK
<1>2. /\ queue' \in Seq(JobIds) /\ Len(queue') = Len(queue) + 1
      /\ \A k \in 1..Len(queue) : queue'[k] = queue[k]
      /\ queue'[Len(queue) + 1] = i
  BY <1>1
<1>3. \A k \in 1..Len(queue) : job[queue[k]].phase = "waiting" /\ queue[k] # i
  BY DEF QueueOK
<1>4. ASSUME NEW k \in 1..Len(queue')
      PROVE  \/ k \in 1..Len(queue) /\ queue'[k] = queue[k] /\ queue'[k] # i
             \/ k = Len(queue) + 1 /\ queue'[k] = i
  BY <1>1, <1>2, <1>3
<1>5. \A k \in 1..Len(queue') : job'[queue'[k]].phase = "waiting"
  BY <1>1, <1>3, <1>4
<1>6. \A k, l \in 1..Len(queue') : queue'[k] = queue'[l] => k = l
  BY <1>4 DEF QueueOK
<1> QED
  BY <1>2, <1>5, <1>6 DEF QueueOK

\* A job that did not wait goes to its front.
LEMMA QueueGrowsInFront ==
  ASSUME TypeOK, QueueOK, NEW i \in JobIds, queue' = <<i>> \o queue,
         job[i].phase # "waiting", job'[i].phase = "waiting",
         \A k \in JobIds : job[k].phase = "waiting" => job'[k].phase = "waiting"
  PROVE  queue' \in Seq(JobIds) /\ QueueOK'
<1>1. /\ queue \in Seq(JobIds) /\ Len(queue) \in Nat
      /\ \A k \in 1..Len(queue) : queue[k] \in JobIds
  BY DEF TypeOK
<1>2. /\ <<i>> \in Seq(JobIds) /\ Len(<<i>>) = 1 /\ <<i>>[1] = i
  OBVIOUS
<1>3. /\ queue' \in Seq(JobIds) /\ Len(queue') = 1 + Len(queue)
      /\ \A k \in 1..(1 + Len(queue)) :
           queue'[k] = IF k <= 1 THEN <<i>>[k] ELSE queue[k - 1]
  BY <1>1, <1>2, ConcatProperties
<1>4. \A k \in 1..Len(queue) : job[queue[k]].phase = "waiting" /\ queue[k] # i
  BY DEF QueueOK
<1>5. ASSUME NEW k \in 1..Len(queue')
      PROVE  \/ k = 1 /\ queue'[k] = i
             \/ k - 1 \in 1..Len(queue) /\ queue'[k] = queue[k - 1] /\ queue'[k] # i
  <2>1. k \in 1..(1 + Len(queue)) /\ k \in Nat
    BY <1>1, <1>3
  <2>2. CASE k = 1
    BY <1>2, <1>3, <2>1, <2>2
  <2>3. CASE k # 1
    <3>1. k - 1 \in 1..Len(queue) /\ ~(k <= 1)
      BY <1>1, <2>1, <2>3
    <3> QED
      BY <1>3, <1>4, <2>1, <3>1
  <2> QED
    BY <2>2, <2>3
<1>6. \A k \in 1..Len(queue') : job'[queue'[k]].phase = "waiting"
  BY <1>1, <1>4, <1>5
<1>7. ASSUME NEW k \in 1..Len(queue'), NEW l \in 1..Len(queue'), queue'[k] = queue'[l]
      PROVE  k = l
  <2>1. k \in Int /\ l \in Int
    OBVIOUS
  <2>2. CASE k = 1 /\ queue'[k] = i
    BY <1>5, <1>7, <2>2
  <2>3. CASE k - 1 \in 1..Len(queue) /\ queue'[k] = queue[k - 1] /\ queue'[k] # i
    <3>1. l - 1 \in 1..Len(queue) /\ queue'[l] = queue[l - 1]
      BY <1>5, <1>7, <2>3
    <3>2. k - 1 = l - 1
      BY <1>7, <2>3, <3>1 DEF QueueOK
    <3> QED
      BY <2>1, <3>2
  <2> QED
    BY <1>5, <2>2, <2>3
<1> QED
  BY <1>3, <1>6, <1>7 DEF QueueOK

\* The first job leaves it.
LEMMA QueueShrinks ==
  ASSUME TypeOK, QueueOK, queue # <<>>, queue' = Tail(queue),
         \A k \in JobIds : k # Head(queue) => job'[k] = job[k]
  PROVE  /\ queue' \in Seq(JobIds) /\ QueueOK'
         /\ Head(queue) \in JobIds /\ job[Head(queue)].phase = "waiting"
<1>1. /\ queue \in Seq(JobIds) /\ Len(queue) \in Nat
      /\ \A k \in 1..Len(queue) : queue[k] \in JobIds
  BY DEF TypeOK
<1>2. /\ Head(queue) = queue[1] /\ 1 \in 1..Len(queue)
      /\ queue' \in Seq(JobIds) /\ Len(queue') = Len(queue) - 1
      /\ \A k \in 1..Len(queue') : queue'[k] = queue[k + 1]
  BY <1>1, HeadTailProperties
<1>3. ASSUME NEW k \in 1..Len(queue')
      PROVE  /\ k + 1 \in 1..Len(queue) /\ queue'[k] = queue[k + 1]
             /\ queue'[k] # Head(queue) /\ queue'[k] \in JobIds
  <2>1. k + 1 \in 1..Len(queue) /\ k + 1 # 1
    BY <1>1, <1>2
  <2> QED
    BY <1>1, <1>2, <2>1 DEF QueueOK
<1>4. ASSUME NEW k \in 1..Len(queue') PROVE job'[queue'[k]].phase = "waiting"
  <2>1. job[queue[k + 1]].phase = "waiting"
    BY <1>3 DEF QueueOK
  <2>2. job'[queue'[k]] = job[queue[k + 1]]
    BY <1>3
  <2> QED
    BY <2>1, <2>2
<1>5. ASSUME NEW k \in 1..Len(queue'), NEW l \in 1..Len(queue'), queue'[k] = queue'[l]
      PROVE  k = l
  <2>1. k + 1 = l + 1
    BY <1>3, <1>5 DEF QueueOK
  <2>2. k \in Int /\ l \in Int
    OBVIOUS
  <2> QED
    BY <2>1, <2>2
<1> QED
  BY <1>1, <1>2, <1>4, <1>5 DEF QueueOK

TablesAlone ==
  /\ uniqueSession' = uniqueSession /\ uniqueInstall' = uniqueInstall
  /\ firstSeen' = firstSeen /\ daily' = daily /\ views' = views
  /\ receipts' = receipts /\ whole' = whole
RequestsAlone == count' = count /\ expires' = expires /\ req' = req
SummariesStay ==
  \A k \in JobIds : job[k] # NoJob => job'[k] # NoJob /\ job'[k].summary = job[k].summary

LEMMA TablesStay ==
  ASSUME Inductive, TablesAlone, SummariesStay PROVE CountersOK' /\ DevicesOK'
<1>1. CountersOK /\ DevicesOK
  BY DEF Inductive
<1>2. CountersOK'
  BY <1>1 DEF CountersOK, CountersMatchRows, TablesAlone
<1>3. DevicesOK'
  <2>1. \A u, w \in uniqueInstall' : u.day = w.day /\ u.install = w.install => u = w
    BY <1>1 DEF DevicesOK, TablesAlone
  <2>2. \A i \in JobIds : receipts'[i] > 0 => job'[i] # NoJob
    BY <1>1 DEF DevicesOK, TablesAlone, SummariesStay
  <2>4. ASSUME NEW i \in whole'
        PROVE  /\ receipts'[i] > 0
               /\ \E u \in uniqueInstall' : /\ u.day = job'[i].summary.day
                                            /\ u.install = job'[i].summary.install
    <3>1. /\ receipts[i] > 0 /\ i \in JobIds
          /\ \E u \in uniqueInstall : /\ u.day = job[i].summary.day
                                      /\ u.install = job[i].summary.install
      BY <1>1, <2>4 DEF DevicesOK, TablesAlone, Inductive, TypeOK
    <3>2. job[i] # NoJob
      BY <1>1, <3>1 DEF DevicesOK
    <3> QED
      BY <3>1, <3>2 DEF TablesAlone, SummariesStay
  <2>3. \A n \in Installs : firstSeen'[n] # Unseen =>
          [day |-> firstSeen'[n].day, install |-> n, version |-> firstSeen'[n].version]
            \in uniqueInstall'
    BY <1>1 DEF DevicesOK, TablesAlone
  <2> QED
    BY <2>1, <2>2, <2>3, <2>4 DEF DevicesOK
<1> QED
  BY <1>2, <1>3

\* A step that leaves the tables alone keeps Inductive when it keeps these.
LEMMA QuietStepKeeps ==
  ASSUME Inductive, TablesAlone, SummariesStay,
         count' \in [Keys -> Nat], expires' \in SUBSET Keys,
         req' \in [Requests -> Standing],
         job' \in [JobIds -> JobRecords \cup {NoJob}], queue' \in Seq(JobIds),
         failures' \in Nat, crashes' \in Nat, QueueOK', ReceiptsOK'
  PROVE  Inductive'
<1>1. TypeOK'
  <2>1. /\ uniqueSession \in SUBSET [day : Days, session : Sessions, version : Versions]
        /\ uniqueInstall \in SUBSET [day : Days, install : Installs, version : Versions]
        /\ firstSeen \in [Installs -> [day : Days, version : Versions] \cup {Unseen}]
        /\ daily \in [Cells -> [sessions : Nat, installs : Nat]]
        /\ views \in [Cells -> Nat]
        /\ receipts \in [JobIds -> Nat] /\ whole \in SUBSET JobIds
    BY DEF Inductive, TypeOK
  <2> QED
    BY <2>1 DEF TypeOK, TablesAlone
<1> QED
  BY <1>1, TablesStay DEF Inductive

\* The steps before the queue.
LEMMA IngestKeeps ==
  ASSUME Inductive,
         \/ \E r \in Requests : \/ IpIncr(r) \/ IpExpire(r) \/ Validate(r)
                                \/ InstallIncr(r) \/ InstallExpire(r)
                                \/ EnqueueBeyondBound(r) \/ RequestFails(r)
         \/ \E r \in Requests, s \in Summary : Receive(r, s)
         \/ \E k \in Keys : WindowEnds(k)
  PROVE  Inductive'
<1>1. TypeOK /\ QueueOK /\ ReceiptsOK
  BY DEF Inductive
<1>2. /\ count' \in [Keys -> Nat] /\ expires' \in SUBSET Keys /\ failures' \in Nat
      /\ req' \in [Requests -> Standing] /\ IngestOnly
  BY <1>1, IngestStep
<1>3. TablesAlone /\ SummariesStay
  BY <1>2 DEF IngestOnly, TablesAlone, SummariesStay
<1>4. /\ job' \in [JobIds -> JobRecords \cup {NoJob}] /\ queue' \in Seq(JobIds)
      /\ crashes' \in Nat
  BY <1>1, <1>2 DEF IngestOnly, TypeOK
<1>5. QueueOK'
  BY <1>1, <1>2, QueueStays DEF IngestOnly
<1>6. ReceiptsOK'
  BY <1>1, <1>2 DEF IngestOnly, ReceiptsOK
<1> QED
  BY <1>2, <1>3, <1>4, <1>5, <1>6, QuietStepKeeps

\* ReceiptsOK, when no job that was counted goes back.
LEMMA ReceiptsStay ==
  ASSUME Inductive, TablesAlone,
         crashes' = 0 => crashes = 0 /\ \A k \in JobIds :
           job[k].phase \in {"committed", "done"} => job'[k].phase \in {"committed", "done"}
  PROVE  ReceiptsOK'
BY DEF Inductive, ReceiptsOK, TablesAlone

LEMMA EnqueueKeeps ==
  ASSUME Inductive, NEW r \in Requests, NEW i \in JobIds, Enqueue(r, i)
  PROVE  Inductive'
<1>1. TypeOK /\ QueueOK
  BY DEF Inductive
<1>2. /\ req[r].phase = "add" /\ i \notin Queued
      /\ job' = [job EXCEPT ![i] = Job(req[r].summary, "waiting", 0, 0)]
      /\ queue' = Append(queue, i) /\ End(r)
      /\ count' = count /\ expires' = expires
      /\ failures' = failures /\ crashes' = crashes
  BY DEF Enqueue, redis, faults
<1>3. TablesAlone
  BY DEF Enqueue, TablesAlone, tables
<1>4. PICK j \in JobRecords : j = Job(req[r].summary, "waiting", 0, 0) /\ j.phase = "waiting"
  <2>1. PICK s \in Summary : s = req[r].summary
    BY <1>1, <1>2, BusyIs
  <2>2. Job(s, "waiting", 0, 0) \in JobRecords /\ Job(s, "waiting", 0, 0).phase = "waiting"
    BY DEF Job, JobRecords
  <2> QED
    BY <2>1, <2>2
<1>5. job[i] = NoJob /\ job[i].phase = "none"
  BY <1>2 DEF Queued, NoJob
<1>6. /\ job' \in [JobIds -> JobRecords \cup {NoJob}] /\ job'[i] = j
      /\ \A k \in JobIds : k # i => job'[k] = job[k]
  BY <1>1, <1>2, <1>4 DEF TypeOK
<1>7. SummariesStay
  BY <1>5, <1>6 DEF SummariesStay
<1>8. queue' \in Seq(JobIds) /\ QueueOK'
  <2>1. job[i].phase # "waiting" /\ job'[i].phase = "waiting"
    BY <1>4, <1>5, <1>6
  <2>2. \A k \in JobIds : job[k].phase = "waiting" => job'[k].phase = "waiting"
    BY <1>6, <2>1
  <2> QED
    BY <1>1, <1>2, <2>1, <2>2, QueueGrows
<1>9. ReceiptsOK'
  <2>1. \A k \in JobIds :
          job[k].phase \in {"committed", "done"} => job'[k].phase \in {"committed", "done"}
    BY <1>5, <1>6
  <2> QED
    BY <1>2, <1>3, <2>1, ReceiptsStay
<1>10. req' \in [Requests -> Standing]
  BY <1>1, <1>2, EndKeeps
<1>11. /\ count' \in [Keys -> Nat] /\ expires' \in SUBSET Keys
       /\ failures' \in Nat /\ crashes' \in Nat
  BY <1>1, <1>2 DEF TypeOK
<1> QED
  BY <1>3, <1>6, <1>7, <1>8, <1>9, <1>10, <1>11, QuietStepKeeps

\* What a step of the worker leaves alone, and that it only moves a job.
LEMMA WorkerStepKeeps ==
  ASSUME Inductive, RequestsAlone, TablesAlone, SummariesStay,
         job' \in [JobIds -> JobRecords \cup {NoJob}], queue' \in Seq(JobIds), QueueOK',
         failures' \in Nat, crashes' \in Nat, ReceiptsOK'
  PROVE  Inductive'
<1>1. /\ count' \in [Keys -> Nat] /\ expires' \in SUBSET Keys
      /\ req' \in [Requests -> Standing]
  BY DEF Inductive, TypeOK, RequestsAlone
<1> QED
  BY <1>1, QuietStepKeeps

LEMMA TakeJobKeeps ==
  ASSUME Inductive, TakeJob PROVE Inductive'
<1>1. TypeOK /\ QueueOK
  BY DEF Inductive
<1>2. /\ queue # <<>> /\ SetJob(Head(queue), "active") /\ queue' = Tail(queue)
      /\ failures' = failures /\ crashes' = crashes
  BY DEF TakeJob, faults
<1>3. RequestsAlone /\ TablesAlone
  BY DEF TakeJob, RequestsAlone, TablesAlone, redis, tables
<1>4. \A k \in JobIds : k # Head(queue) => job'[k] = job[k]
  BY <1>1, <1>2 DEF SetJob, TypeOK
<1>5. /\ queue' \in Seq(JobIds) /\ QueueOK'
      /\ Head(queue) \in JobIds /\ job[Head(queue)].phase = "waiting"
  BY <1>1, <1>2, <1>4, QueueShrinks
<1>6. job' \in [JobIds -> JobRecords \cup {NoJob}] /\ SummariesStay
  <2>1. "active" \in Phases /\ job[Head(queue)].phase # "none"
    BY <1>5 DEF Phases
  <2> QED
    BY <1>1, <1>2, <1>5, <2>1, SetJobIs DEF SummariesStay
<1>7. ReceiptsOK'
  <2>1. \A k \in JobIds :
          job[k].phase \in {"committed", "done"} => job'[k].phase \in {"committed", "done"}
    BY <1>4, <1>5
  <2> QED
    BY <1>2, <1>3, <2>1, ReceiptsStay
<1>8. failures' \in Nat /\ crashes' \in Nat
  BY <1>1, <1>2 DEF TypeOK
<1> QED
  BY <1>3, <1>5, <1>6, <1>7, <1>8, WorkerStepKeeps

\* The job leaves the worker: it ends, or its transaction was rolled back.
LEMMA JobLeavesKeeps ==
  ASSUME Inductive, NEW i \in JobIds, Complete(i) \/ JobFails(i) PROVE Inductive'
<1>1. TypeOK /\ QueueOK
  BY DEF Inductive
<1>2. /\ queue' = queue /\ failures' \in Nat /\ crashes' = crashes
      /\ job[i].phase \in {"active", "committed"}
  BY <1>1 DEF Complete, JobFails, TypeOK, faults
<1>3. RequestsAlone /\ TablesAlone
  BY DEF Complete, JobFails, RequestsAlone, TablesAlone, redis, tables
<1>4. /\ job' \in [JobIds -> JobRecords \cup {NoJob}] /\ SummariesStay
      /\ \A k \in JobIds : k # i => job'[k] = job[k]
      /\ job[i].phase = "committed" => job'[i].phase = "done"
  <2>1. CASE Complete(i)
    <3>1. SetJob(i, "done") /\ "done" \in Phases /\ job[i].phase # "none"
      BY <2>1 DEF Complete, Phases
    <3> QED
      BY <1>1, <3>1, SetJobIs DEF SummariesStay
  <2>2. CASE JobFails(i)
    <3>1. job[i] \in JobRecords /\ job[i].phase = "active"
      BY <1>1, <2>2, JobIs DEF JobFails
    <3>2. PICK p \in Phases : p = Thrown(job[i])
      BY DEF Thrown, Phases
    <3>3. PICK j : j = [job[i] EXCEPT !.phase = Thrown(job[i]),
                                       !.attempts = job[i].attempts + 1]
      OBVIOUS
    <3>4. j \in JobRecords /\ j.summary = job[i].summary /\ j.phase = p
      <4>1. PICK h : h = [job[i] EXCEPT !.phase = p]
        OBVIOUS
      <4>2. /\ h \in JobRecords /\ h.summary = job[i].summary /\ h.phase = p
            /\ h.attempts = job[i].attempts /\ h.attempts \in Nat
        BY <3>1, <4>1 DEF JobRecords, Phases
      <4>3. j = [h EXCEPT !.attempts = h.attempts + 1]
        BY <3>1, <3>2, <3>3, <4>1, <4>2 DEF JobRecords
      <4> QED
        BY ONLY <4>2, <4>3 DEF JobRecords
    <3>5. job' = [job EXCEPT ![i] = j]
      <4>1. job' = [job EXCEPT ![i] = [job[i] EXCEPT !.phase = Thrown(job[i]),
                                                     !.attempts = job[i].attempts + 1]]
        BY <2>2 DEF JobFails
      <4> QED
        BY <3>3, <4>1
    <3> QED
      BY <1>1, <3>1, <3>4, <3>5, JobMoves DEF SummariesStay
  <2> QED
    BY <2>1, <2>2
<1>5. queue' \in Seq(JobIds) /\ QueueOK'
  <2>1. \A k \in JobIds : job[k].phase = "waiting" => job'[k].phase = "waiting"
    BY <1>2, <1>4
  <2> QED
    BY <1>1, <1>2, <2>1, QueueStays
<1>6. ReceiptsOK'
  <2>1. \A k \in JobIds :
          job[k].phase \in {"committed", "done"} => job'[k].phase \in {"committed", "done"}
    BY <1>2, <1>4
  <2> QED
    BY <1>2, <1>3, <2>1, ReceiptsStay
<1>7. crashes' \in Nat
  BY <1>1, <1>2 DEF TypeOK
<1> QED
  BY <1>2, <1>3, <1>4, <1>5, <1>6, <1>7, WorkerStepKeeps

LEMMA BackoffEndsKeeps ==
  ASSUME Inductive, NEW i \in JobIds, BackoffEnds(i) PROVE Inductive'
<1>1. TypeOK /\ QueueOK
  BY DEF Inductive
<1>2. /\ job[i].phase = "delayed" /\ SetJob(i, "waiting") /\ queue' = Append(queue, i)
      /\ failures' = failures /\ crashes' = crashes
  BY DEF BackoffEnds, faults
<1>3. RequestsAlone /\ TablesAlone
  BY DEF BackoffEnds, RequestsAlone, TablesAlone, redis, tables
<1>4. /\ job' \in [JobIds -> JobRecords \cup {NoJob}] /\ SummariesStay
      /\ job'[i].phase = "waiting" /\ \A k \in JobIds : k # i => job'[k] = job[k]
  <2>1. "waiting" \in Phases /\ job[i].phase # "none"
    BY <1>2 DEF Phases
  <2> QED
    BY <1>1, <1>2, <2>1, SetJobIs DEF SummariesStay
<1>5. queue' \in Seq(JobIds) /\ QueueOK'
  <2>1. /\ job[i].phase # "waiting"
        /\ \A k \in JobIds : job[k].phase = "waiting" => job'[k].phase = "waiting"
    BY <1>2, <1>4
  <2> QED
    BY <1>1, <1>2, <1>4, <2>1, QueueGrows
<1>6. ReceiptsOK'
  <2>1. \A k \in JobIds :
          job[k].phase \in {"committed", "done"} => job'[k].phase \in {"committed", "done"}
    BY <1>2, <1>4
  <2> QED
    BY <1>2, <1>3, <2>1, ReceiptsStay
<1>7. failures' \in Nat /\ crashes' \in Nat
  BY <1>1, <1>2 DEF TypeOK
<1> QED
  BY <1>3, <1>4, <1>5, <1>6, <1>7, WorkerStepKeeps

\* A restart: what was active waits in front of the queue again, or fails.
LEMMA CrashKeeps ==
  ASSUME Inductive, Crash PROVE Inductive'
<1>1. TypeOK /\ QueueOK
  BY DEF Inductive
<1> DEFINE again == {i \in Active : job[i].stalls < MaxStalledCount}
<1>3. /\ crashes' = crashes + 1 /\ failures' = failures
      /\ count' = count /\ expires' = expires
      /\ req' = [r \in Requests |-> At("idle", NoSummary)]
      /\ job' = [i \in JobIds |->
           IF i \in again THEN [job[i] EXCEPT !.phase = "waiting", !.stalls = @ + 1]
           ELSE IF i \in Active THEN [job[i] EXCEPT !.phase = "failed"] ELSE job[i]]
      /\ queue' = IF again = {} THEN queue
                  ELSE <<CHOOSE i \in again : TRUE>> \o queue
  BY DEF Crash, redis
<1>4. TablesAlone
  BY DEF Crash, TablesAlone, tables
<1>5. ASSUME NEW i \in Active
      PROVE  i \in JobIds /\ job[i] \in JobRecords /\ job[i].phase \in {"active", "committed"}
  <2>1. i \in JobIds /\ job[i].phase \in {"active", "committed"}
    BY DEF Active, Queued
  <2> QED
    BY <1>1, <2>1, JobIs
<1>6. again \in SUBSET Active
  OBVIOUS
<1> HIDE DEF again
<1>7. ASSUME NEW i \in JobIds
      PROVE  /\ job'[i] \in JobRecords \cup {NoJob}
             /\ job[i] # NoJob => job'[i] # NoJob /\ job'[i].summary = job[i].summary
             /\ i \in again => job'[i].phase = "waiting"
             /\ i \notin Active => job'[i] = job[i]
  <2>1. CASE i \in again
    <3>0. job[i] \in JobRecords
      BY <1>5, <1>6, <2>1
    <3>1. PICK j : j = [job[i] EXCEPT !.phase = "waiting", !.stalls = @ + 1]
      OBVIOUS
    <3>2. j \in JobRecords /\ j.summary = job[i].summary /\ j.phase = "waiting"
      <4>1. PICK h : h = [job[i] EXCEPT !.phase = "waiting"]
        OBVIOUS
      <4>2. /\ h \in JobRecords /\ h.summary = job[i].summary /\ h.phase = "waiting"
            /\ h.stalls = job[i].stalls /\ h.stalls \in Nat
        BY <3>0, <4>1 DEF JobRecords
      <4>3. j = [h EXCEPT !.stalls = h.stalls + 1]
        BY <3>0, <3>1, <4>1, <4>2 DEF JobRecords
      <4> QED
        BY ONLY <4>2, <4>3 DEF JobRecords
    <3>3. job'[i] = j /\ j # NoJob
      BY <1>3, <2>1, <3>1, <3>2 DEF NoJob
    <3> QED
      BY <1>6, <2>1, <3>2, <3>3
  <2>2. CASE i \notin again /\ i \in Active
    <3>1. PICK j : j = [job[i] EXCEPT !.phase = "failed"]
      OBVIOUS
    <3>2. j \in JobRecords /\ j.summary = job[i].summary /\ j.phase = "failed"
      BY <1>5, <2>2, <3>1 DEF JobRecords
    <3>3. job'[i] = j /\ j # NoJob
      BY <1>3, <2>2, <3>1, <3>2 DEF NoJob
    <3> QED
      BY <2>2, <3>2, <3>3
  <2>3. CASE i \notin Active
    BY <1>1, <1>3, <1>6, <2>3 DEF TypeOK
  <2> QED
    BY <2>1, <2>2, <2>3
<1>8. job' \in [JobIds -> JobRecords \cup {NoJob}] /\ SummariesStay
  BY <1>3, <1>7 DEF SummariesStay
<1>9. \A k \in JobIds : job[k].phase = "waiting" => job'[k].phase = "waiting"
  BY <1>5, <1>7
<1>10. queue' \in Seq(JobIds) /\ QueueOK'
  <2>1. CASE again = {}
    BY <1>1, <1>3, <1>9, <2>1, QueueStays
  <2>2. CASE again # {}
    <3>1. PICK i \in again : i = CHOOSE k \in again : TRUE
      BY <2>2
    <3>2. queue' = <<i>> \o queue
      BY <1>3, <2>2, <3>1
    <3>3. i \in JobIds /\ job[i].phase # "waiting" /\ job'[i].phase = "waiting"
      BY <1>5, <1>6, <1>7
    <3> QED
      BY <1>1, <1>9, <3>2, <3>3, QueueGrowsInFront
  <2> QED
    BY <2>1, <2>2
<1>11. crashes' \in Nat /\ crashes' # 0 /\ failures' \in Nat
  <2>1. crashes \in Nat /\ failures \in Nat
    BY <1>1 DEF TypeOK
  <2>2. crashes' = crashes + 1 /\ failures' = failures
    BY <1>3
  <2> QED
    BY ONLY <2>1, <2>2
<1>12. ReceiptsOK'
  BY <1>11 DEF ReceiptsOK
<1>13. req' \in [Requests -> Standing]
  BY <1>3 DEF Standing
<1>14. count' \in [Keys -> Nat] /\ expires' \in SUBSET Keys
  BY <1>1, <1>3 DEF TypeOK
<1> QED
  BY <1>4, <1>8, <1>10, <1>11, <1>12, <1>13, <1>14, QuietStepKeeps

(***************************************************************************)
(* The transaction.                                                        *)
(***************************************************************************)

\* The rows of a day and a version, which the counters of that day count.
RowsOf(T, d, v) == {u \in T : u.day = d /\ u.version = v}

AddsRow(T, x, d, v) ==
  /\ Cardinality(RowsOf(T, d, v)) \in Nat
  /\ x.day = d /\ x.version = v =>
       Cardinality(RowsOf(T \cup {x}, d, v)) = Cardinality(RowsOf(T, d, v)) + 1
  /\ ~(x.day = d /\ x.version = v) =>
       RowsOf(T \cup {x}, d, v) = RowsOf(T, d, v)

LEMMA RowAdded ==
  ASSUME NEW T, IsFiniteSet(T), NEW x, x \notin T, NEW d, NEW v
  PROVE  AddsRow(T, x, d, v)
<1>2. IsFiniteSet(RowsOf(T, d, v))
  <2>1. RowsOf(T, d, v) \in SUBSET T
    BY DEF RowsOf
  <2> QED
    BY <2>1, FS_Subset
<1>3. Cardinality(RowsOf(T, d, v)) \in Nat
  BY <1>2, FS_CardinalityType
<1>4. CASE x.day = d /\ x.version = v
  <2>1. RowsOf(T \cup {x}, d, v) = RowsOf(T, d, v) \cup {x} /\ x \notin RowsOf(T, d, v)
    BY <1>4 DEF RowsOf
  <2>2. Cardinality(RowsOf(T, d, v) \cup {x}) = Cardinality(RowsOf(T, d, v)) + 1
    BY <1>2, <2>1, FS_AddElement
  <2> QED
    BY <1>3, <1>4, <2>1, <2>2 DEF AddsRow
<1>5. CASE ~(x.day = d /\ x.version = v)
  <2>1. RowsOf(T \cup {x}, d, v) = RowsOf(T, d, v)
    BY <1>5 DEF RowsOf
  <2> QED
    BY <1>3, <1>5, <2>1 DEF AddsRow
<1> QED
  BY <1>4, <1>5

CountersAre ==
  \A d \in Days, v \in Versions :
    /\ daily[<<d, v>>].sessions = Cardinality(RowsOf(uniqueSession, d, v))
    /\ daily[<<d, v>>].installs = Cardinality(RowsOf(uniqueInstall, d, v))

LEMMA CountersAgree ==
  ASSUME TypeOK PROVE CountersMatchRows <=> CountersAre
<1>1. \A d \in Days, v \in Versions :
        daily[<<d, v>>] \in [sessions : Nat, installs : Nat]
  BY DEF TypeOK, Cells
<1>2. ASSUME NEW a, NEW b, NEW c \in [sessions : Nat, installs : Nat]
      PROVE  c = [sessions |-> a, installs |-> b] <=> c.sessions = a /\ c.installs = b
  OBVIOUS
<1>3. CountersMatchRows <=>
        \A d \in Days, v \in Versions :
          daily[<<d, v>>] = [sessions |-> Cardinality(RowsOf(uniqueSession, d, v)),
                             installs |-> Cardinality(RowsOf(uniqueInstall, d, v))]
  BY DEF CountersMatchRows, RowsOf
<1>4. ASSUME NEW d \in Days, NEW v \in Versions
      PROVE  daily[<<d, v>>] = [sessions |-> Cardinality(RowsOf(uniqueSession, d, v)),
                                installs |-> Cardinality(RowsOf(uniqueInstall, d, v))]
             <=> /\ daily[<<d, v>>].sessions = Cardinality(RowsOf(uniqueSession, d, v))
                 /\ daily[<<d, v>>].installs = Cardinality(RowsOf(uniqueInstall, d, v))
  BY <1>1, <1>2
<1> QED
  BY <1>3, <1>4 DEF CountersAre

LEMMA CreatesAreFinite ==
  ASSUME NEW lost \in SUBSET Creates PROVE IsFiniteSet(lost)
<1>1. IsFiniteSet({}) /\ IsFiniteSet({"session"})
  BY FS_EmptySet, FS_Singleton
<1>2. IsFiniteSet({"session"} \cup {"install"})
  BY <1>1, FS_AddElement
<1>3. IsFiniteSet(({"session"} \cup {"install"}) \cup {"firstSeen"})
  BY <1>2, FS_AddElement
<1>4. Creates = ({"session"} \cup {"install"}) \cup {"firstSeen"}
  BY DEF Creates
<1> QED
  BY <1>3, <1>4, FS_Subset

LEMMA CommitIs ==
  ASSUME Inductive, NEW i \in JobIds, NEW lost \in SUBSET Creates, Commit(i, lost)
  PROVE  /\ job[i] \in JobRecords /\ job[i].phase = "active"
         /\ job[i].summary \in Summary
         /\ RequestsAlone /\ queue' = queue
         /\ failures' \in Nat /\ crashes' = crashes
         /\ receipts' = [receipts EXCEPT ![i] = receipts[i] + 1]
         /\ job' \in [JobIds -> JobRecords \cup {NoJob}] /\ SummariesStay
         /\ job'[i].phase = "committed" /\ \A k \in JobIds : k # i => job'[k] = job[k]
<1>1. TypeOK
  BY DEF Inductive
<1>2. job[i].phase = "active" /\ SetJob(i, "committed") /\ queue' = queue
      /\ failures' = failures + Cardinality(lost) /\ crashes' = crashes
      /\ receipts' = [receipts EXCEPT ![i] = receipts[i] + 1]
  BY DEF Commit
<1>3. RequestsAlone
  BY DEF Commit, RequestsAlone, redis
<1>4. job[i] \in JobRecords /\ job[i].summary \in Summary
  BY <1>1, <1>2, JobIs
<1>5. "committed" \in Phases /\ job[i].phase # "none"
  BY <1>2 DEF Phases
<1>6. failures' \in Nat
  <2>1. IsFiniteSet(lost)
    BY CreatesAreFinite
  <2>2. Cardinality(lost) \in Nat
    BY <2>1, FS_CardinalityType
  <2>3. failures \in Nat
    BY <1>1 DEF TypeOK
  <2> QED
    BY <1>2, <2>2, <2>3
<1> QED
  BY <1>1, <1>2, <1>3, <1>4, <1>5, <1>6, SetJobIs DEF SummariesStay

\* The rows that a summary adds.
SessionRow(s) == [day |-> s.day, session |-> s.session, version |-> s.version]
InstallRow(s) == [day |-> s.day, install |-> s.install, version |-> s.version]

LEMMA CommitWrites ==
  ASSUME NEW i \in JobIds, NEW lost, Commit(i, lost), NEW s, s = job[i].summary
  PROVE  /\ CountSession(s, lost) /\ CountInstall(s, lost) /\ CountDaily(s, lost)
         /\ views' = [views EXCEPT ![<<s.day, s.version>>] = @ + 1]
         /\ whole' = IF lost \cap {"session", "install"} = {} THEN whole \cup {i} ELSE whole
BY DEF Commit

LEMMA SessionWritten ==
  ASSUME NEW s \in Summary, NEW lost, CountSession(s, lost)
  PROVE  /\ SessionRow(s) \in [day : Days, session : Sessions, version : Versions]
         /\ SessionCreated(s, lost) => /\ uniqueSession' = uniqueSession \cup {SessionRow(s)}
                               /\ SessionRow(s) \notin uniqueSession
         /\ ~SessionCreated(s, lost) => uniqueSession' = uniqueSession
<1>1. SessionRow(s) \in [day : Days, session : Sessions, version : Versions]
  BY DEF SessionRow, Summary
<1>2. SessionCreated(s, lost) => SessionRow(s) \notin uniqueSession
  BY DEF SessionCreated, SessionIsNew, SessionRow
<1>3. uniqueSession' = IF SessionCreated(s, lost) THEN uniqueSession \cup {SessionRow(s)}
                                          ELSE uniqueSession
  BY DEF CountSession, SessionRow
<1> QED
  BY <1>1, <1>2, <1>3

LEMMA InstallWritten ==
  ASSUME NEW s \in Summary, NEW lost, CountInstall(s, lost)
  PROVE  /\ InstallRow(s) \in [day : Days, install : Installs, version : Versions]
         /\ InstallCreated(s, lost) =>
              /\ uniqueInstall' = uniqueInstall \cup {InstallRow(s)}
              /\ InstallRow(s) \notin uniqueInstall
              /\ firstSeen' = [firstSeen EXCEPT ![s.install] =
                   IF firstSeen[s.install] = Unseen /\ "firstSeen" \notin lost
                   THEN [day |-> s.day, version |-> s.version] ELSE firstSeen[s.install]]
         /\ ~InstallCreated(s, lost) => uniqueInstall' = uniqueInstall /\ firstSeen' = firstSeen
<1>1. InstallRow(s) \in [day : Days, install : Installs, version : Versions]
  BY DEF InstallRow, Summary
<1>2. InstallCreated(s, lost) => InstallRow(s) \notin uniqueInstall
  BY DEF InstallCreated, InstallIsNew, InstallRow
<1>3. InstallCreated(s, lost) =>
        /\ uniqueInstall' = uniqueInstall \cup {InstallRow(s)}
        /\ firstSeen' = [firstSeen EXCEPT ![s.install] =
             IF firstSeen[s.install] = Unseen /\ "firstSeen" \notin lost
             THEN [day |-> s.day, version |-> s.version] ELSE firstSeen[s.install]]
  BY DEF CountInstall, InstallRow
<1>4. ~InstallCreated(s, lost) => uniqueInstall' = uniqueInstall /\ firstSeen' = firstSeen
  BY DEF CountInstall
<1> QED
  BY <1>1, <1>2, <1>3, <1>4

LEMMA CommitTypeOK ==
  ASSUME Inductive, NEW i \in JobIds, NEW lost \in SUBSET Creates, Commit(i, lost)
  PROVE  TypeOK'
<1>1. PICK s : s = job[i].summary
  OBVIOUS
<1>2. TypeOK
  BY DEF Inductive
<1>3. /\ s \in Summary /\ s.day \in Days /\ s.version \in Versions
      /\ s.install \in Installs /\ <<s.day, s.version>> \in Cells
  BY <1>1, CommitIs DEF Summary, Cells
<1>a. /\ CountSession(s, lost) /\ CountInstall(s, lost) /\ CountDaily(s, lost)
      /\ views' = [views EXCEPT ![<<s.day, s.version>>] = @ + 1]
  BY <1>1, CommitWrites
<1>4. uniqueSession' \in SUBSET [day : Days, session : Sessions, version : Versions]
  <2>1. uniqueSession \in SUBSET [day : Days, session : Sessions, version : Versions]
    BY <1>2 DEF TypeOK
  <2> QED
    BY <1>3, <1>a, <2>1, SessionWritten
<1>5. uniqueInstall' \in SUBSET [day : Days, install : Installs, version : Versions]
  <2>1. uniqueInstall \in SUBSET [day : Days, install : Installs, version : Versions]
    BY <1>2 DEF TypeOK
  <2> QED
    BY <1>3, <1>a, <2>1, InstallWritten
<1>6. firstSeen' \in [Installs -> [day : Days, version : Versions] \cup {Unseen}]
  <2>1. firstSeen \in [Installs -> [day : Days, version : Versions] \cup {Unseen}]
    BY <1>2 DEF TypeOK
  <2>2. [day |-> s.day, version |-> s.version] \in [day : Days, version : Versions]
    BY <1>3
  <2>3. \/ firstSeen' = firstSeen
        \/ firstSeen' = [firstSeen EXCEPT ![s.install] =
             IF firstSeen[s.install] = Unseen /\ "firstSeen" \notin lost
             THEN [day |-> s.day, version |-> s.version] ELSE firstSeen[s.install]]
    BY <1>3, <1>a, InstallWritten
  <2> QED
    BY <1>3, <2>1, <2>2, <2>3
<1>7. daily' \in [Cells -> [sessions : Nat, installs : Nat]]
  <2>1. daily \in [Cells -> [sessions : Nat, installs : Nat]]
    BY <1>2 DEF TypeOK
  <2>2. PICK c \in Cells : c = <<s.day, s.version>>
    BY <1>3
  <2>3. PICK now : now = [sessions |-> Plus(daily[c].sessions, SessionCreated(s, lost)),
                          installs |-> Plus(daily[c].installs, InstallCreated(s, lost))]
    OBVIOUS
  <2>4. daily[c].sessions \in Nat /\ daily[c].installs \in Nat
    BY <2>1
  <2>5. /\ Plus(daily[c].sessions, SessionCreated(s, lost)) \in Nat
        /\ Plus(daily[c].installs, InstallCreated(s, lost)) \in Nat
    BY <2>4 DEF Plus
  <2>6. now \in [sessions : Nat, installs : Nat]
    BY <2>3, <2>5
  <2>7. daily' = [daily EXCEPT ![c] = now]
    BY <1>a, <2>2, <2>3 DEF CountDaily
  <2> QED
    BY <2>1, <2>6, <2>7
<1>8. views' \in [Cells -> Nat]
  <2>1. views \in [Cells -> Nat]
    BY <1>2 DEF TypeOK
  <2> QED
    BY <1>3, <1>a, <2>1
<1>9. receipts' \in [JobIds -> Nat]
  <2>1. receipts \in [JobIds -> Nat]
    BY <1>2 DEF TypeOK
  <2>2. receipts' = [receipts EXCEPT ![i] = receipts[i] + 1]
    BY CommitIs
  <2> QED
    BY <2>1, <2>2
<1>10. /\ count' = count /\ expires' = expires /\ req' = req /\ queue' = queue
       /\ failures' \in Nat /\ crashes' = crashes
       /\ job' \in [JobIds -> JobRecords \cup {NoJob}]
  BY CommitIs DEF RequestsAlone
<1>11. whole' \in SUBSET JobIds
  <2>1. whole' = IF lost \cap {"session", "install"} = {} THEN whole \cup {i} ELSE whole
    BY <1>1, CommitWrites
  <2>2. whole \in SUBSET JobIds
    BY <1>2 DEF TypeOK
  <2> QED
    BY <2>1, <2>2
<1> QED
  BY <1>2, <1>4, <1>5, <1>6, <1>7, <1>8, <1>9, <1>10, <1>11 DEF TypeOK

LEMMA CommitCountersOK ==
  ASSUME Inductive, NEW i \in JobIds, NEW lost \in SUBSET Creates, Commit(i, lost)
  PROVE  CountersOK'
<1>1. PICK s : s = job[i].summary
  OBVIOUS
<1>2. /\ s \in Summary /\ CountSession(s, lost) /\ CountInstall(s, lost) /\ CountDaily(s, lost)
  BY <1>1, CommitIs, CommitWrites
<1>3. /\ TypeOK /\ IsFiniteSet(uniqueSession) /\ IsFiniteSet(uniqueInstall)
      /\ CountersAre
  BY CountersAgree DEF Inductive, CountersOK
<1>4. PICK newSession \in BOOLEAN : newSession <=> SessionCreated(s, lost)
  OBVIOUS
<1>5. PICK newInstall \in BOOLEAN : newInstall <=> InstallCreated(s, lost)
  OBVIOUS
<1>6. ASSUME NEW d, NEW v
      PROVE  /\ IsFiniteSet(uniqueSession')
             /\ Cardinality(RowsOf(uniqueSession', d, v)) =
                  IF s.day = d /\ s.version = v
                  THEN Plus(Cardinality(RowsOf(uniqueSession, d, v)), newSession)
                  ELSE Cardinality(RowsOf(uniqueSession, d, v))
  <2>1. /\ newSession => /\ uniqueSession' = uniqueSession \cup {SessionRow(s)}
                         /\ SessionRow(s) \notin uniqueSession
        /\ ~newSession => uniqueSession' = uniqueSession
    BY <1>2, <1>4, SessionWritten
  <2>2. SessionRow(s).day = s.day /\ SessionRow(s).version = s.version
    BY DEF SessionRow
  <2>3. CASE newSession
    <3>1. PICK x : x = SessionRow(s)
      OBVIOUS
    <3>a. IsFiniteSet(uniqueSession) /\ x \notin uniqueSession
      BY <1>3, <2>1, <2>3, <3>1
    <3>2. AddsRow(uniqueSession, x, d, v)
      BY ONLY <3>a, RowAdded
    <3>3. IsFiniteSet(uniqueSession \cup {x})
      BY <3>a, FS_AddElement
    <3> QED
      BY <2>1, <2>2, <2>3, <3>1, <3>2, <3>3 DEF Plus, AddsRow
  <2>4. CASE ~newSession
    BY <1>3, <2>1, <2>4 DEF Plus
  <2> QED
    BY <2>3, <2>4
<1>7. ASSUME NEW d, NEW v
      PROVE  /\ IsFiniteSet(uniqueInstall')
             /\ Cardinality(RowsOf(uniqueInstall', d, v)) =
                  IF s.day = d /\ s.version = v
                  THEN Plus(Cardinality(RowsOf(uniqueInstall, d, v)), newInstall)
                  ELSE Cardinality(RowsOf(uniqueInstall, d, v))
  <2>1. /\ newInstall => /\ uniqueInstall' = uniqueInstall \cup {InstallRow(s)}
                         /\ InstallRow(s) \notin uniqueInstall
        /\ ~newInstall => uniqueInstall' = uniqueInstall
    BY <1>2, <1>5, InstallWritten
  <2>2. InstallRow(s).day = s.day /\ InstallRow(s).version = s.version
    BY DEF InstallRow
  <2>3. CASE newInstall
    <3>1. PICK x : x = InstallRow(s)
      OBVIOUS
    <3>a. IsFiniteSet(uniqueInstall) /\ x \notin uniqueInstall
      BY <1>3, <2>1, <2>3, <3>1
    <3>2. AddsRow(uniqueInstall, x, d, v)
      BY ONLY <3>a, RowAdded
    <3>3. IsFiniteSet(uniqueInstall \cup {x})
      BY <3>a, FS_AddElement
    <3> QED
      BY <2>1, <2>2, <2>3, <3>1, <3>2, <3>3 DEF Plus, AddsRow
  <2>4. CASE ~newInstall
    BY <1>3, <2>1, <2>4 DEF Plus
  <2> QED
    BY <2>3, <2>4
<1>8. ASSUME NEW d \in Days, NEW v \in Versions
      PROVE  /\ daily'[<<d, v>>].sessions = Cardinality(RowsOf(uniqueSession', d, v))
             /\ daily'[<<d, v>>].installs = Cardinality(RowsOf(uniqueInstall', d, v))
  <2>1. /\ daily[<<d, v>>].sessions = Cardinality(RowsOf(uniqueSession, d, v))
        /\ daily[<<d, v>>].installs = Cardinality(RowsOf(uniqueInstall, d, v))
    BY <1>3 DEF CountersAre
  <2>2. <<d, v>> \in DOMAIN daily
    BY <1>3 DEF TypeOK, Cells
  <2>3. CASE s.day = d /\ s.version = v
    <3>1. PICK now : now = [sessions |-> Plus(daily[<<d, v>>].sessions, newSession),
                            installs |-> Plus(daily[<<d, v>>].installs, newInstall)]
      OBVIOUS
    <3>2. daily' = [daily EXCEPT ![<<d, v>>] = now]
      <4>1. /\ Plus(daily[<<d, v>>].sessions, SessionCreated(s, lost)) =
                 Plus(daily[<<d, v>>].sessions, newSession)
            /\ Plus(daily[<<d, v>>].installs, InstallCreated(s, lost)) =
                 Plus(daily[<<d, v>>].installs, newInstall)
        BY <1>4, <1>5 DEF Plus
      <4> QED
        BY <1>2, <2>3, <3>1, <4>1 DEF CountDaily
    <3>3. daily'[<<d, v>>] = now
      BY <2>2, <3>2
    <3> QED
      BY <1>6, <1>7, <2>1, <2>3, <3>1, <3>3
  <2>4. CASE ~(s.day = d /\ s.version = v)
    <3>1. <<d, v>> # <<s.day, s.version>>
      BY <2>4
    <3>2. daily'[<<d, v>>] = daily[<<d, v>>]
      BY <1>2, <2>2, <3>1 DEF CountDaily
    <3> QED
      BY <1>6, <1>7, <2>1, <2>4, <3>2
  <2> QED
    BY <2>3, <2>4
<1>9. CountersAre'
  BY <1>8 DEF CountersAre
<1>10. CountersMatchRows'
  <2>1. TypeOK'
    BY CommitTypeOK
  <2>2. (TypeOK => (CountersMatchRows <=> CountersAre))'
    BY CountersAgree, PTL
  <2> QED
    BY <1>9, <2>1, <2>2
<1>11. IsFiniteSet(uniqueSession') /\ IsFiniteSet(uniqueInstall')
  BY <1>6, <1>7
<1> QED
  BY <1>10, <1>11 DEF CountersOK

LEMMA CommitDevicesOK ==
  ASSUME Inductive, NEW i \in JobIds, NEW lost \in SUBSET Creates, Commit(i, lost)
  PROVE  DevicesOK'
<1>1. PICK s : s = job[i].summary
  OBVIOUS
<1>2. s \in Summary /\ CountInstall(s, lost) /\ s.install \in Installs
  BY <1>1, CommitIs, CommitWrites DEF Summary
<1>3. TypeOK /\ DevicesOK
  BY DEF Inductive
<1>4. /\ InstallRow(s).day = s.day /\ InstallRow(s).install = s.install
      /\ InstallRow(s) = [day |-> s.day, install |-> s.install, version |-> s.version]
  BY DEF InstallRow
<1>5. uniqueInstall \in SUBSET uniqueInstall'
  BY <1>2, InstallWritten
<1>6. "install" \notin lost =>
        \E u \in uniqueInstall' : u.day = s.day /\ u.install = s.install
  <2> SUFFICES ASSUME "install" \notin lost
               PROVE  \E u \in uniqueInstall' : u.day = s.day /\ u.install = s.install
    OBVIOUS
  <2>1. CASE InstallCreated(s, lost)
    <3>1. InstallRow(s) \in uniqueInstall'
      BY <1>2, <2>1, InstallWritten
    <3> QED
      BY <1>4, <3>1
  <2>2. CASE ~InstallCreated(s, lost)
    <3>1. \E u \in uniqueInstall : u.day = s.day /\ u.install = s.install
      BY <2>2 DEF InstallCreated, InstallIsNew
    <3> QED
      BY <1>5, <3>1
  <2> QED
    BY <2>1, <2>2
<1>7. \A u, w \in uniqueInstall' : u.day = w.day /\ u.install = w.install => u = w
  <2>0. \A u, w \in uniqueInstall : u.day = w.day /\ u.install = w.install => u = w
    BY <1>3 DEF DevicesOK
  <2>1. CASE InstallCreated(s, lost)
    <3>1. uniqueInstall' = uniqueInstall \cup {InstallRow(s)}
      BY <1>2, <2>1, InstallWritten
    <3>2. \A u \in uniqueInstall : ~(u.day = s.day /\ u.install = s.install)
      BY <2>1 DEF InstallCreated, InstallIsNew
    <3> QED
      BY <1>4, <2>0, <3>1, <3>2
  <2>2. CASE ~InstallCreated(s, lost)
    BY <1>2, <2>0, <2>2, InstallWritten
  <2> QED
    BY <2>1, <2>2
<1>8. SummariesStay /\ job[i] # NoJob
  BY <1>3, CommitIs, JobIs
<1>9. /\ receipts' = [receipts EXCEPT ![i] = receipts[i] + 1]
      /\ receipts \in [JobIds -> Nat]
  BY <1>3, CommitIs DEF TypeOK
<1>10. ASSUME NEW k \in JobIds, receipts'[k] > 0
       PROVE  job'[k] # NoJob
  <2>1. k # i => receipts[k] > 0
    BY <1>9, <1>10
  <2>2. job[k] # NoJob
    BY <1>3, <1>8, <2>1 DEF DevicesOK
  <2> QED
    BY <1>8, <2>2 DEF SummariesStay
<1>11. ASSUME NEW k \in whole'
       PROVE  /\ receipts'[k] > 0
              /\ \E u \in uniqueInstall' : /\ u.day = job'[k].summary.day
                                           /\ u.install = job'[k].summary.install
  <2>1. whole' = IF lost \cap {"session", "install"} = {} THEN whole \cup {i} ELSE whole
    BY <1>1, CommitWrites
  <2>2. CASE k \in whole
    <3>1. /\ k \in JobIds /\ receipts[k] > 0
          /\ \E u \in uniqueInstall : /\ u.day = job[k].summary.day
                                      /\ u.install = job[k].summary.install
      BY <1>3, <2>2 DEF DevicesOK, TypeOK
    <3>2. job[k] # NoJob
      BY <1>3, <3>1 DEF DevicesOK
    <3>3. job'[k].summary = job[k].summary
      BY <1>8, <3>1, <3>2 DEF SummariesStay
    <3>4. receipts'[k] > 0
      BY <1>9, <3>1
    <3> QED
      BY <1>5, <3>1, <3>3, <3>4
  <2>3. CASE k \notin whole
    <3>1. k = i /\ "install" \notin lost
      BY <1>11, <2>1, <2>3
    <3>2. job'[k].summary = s
      BY <1>1, <1>8, <3>1 DEF SummariesStay
    <3>3. receipts'[k] > 0
      BY <1>9, <3>1
    <3> QED
      BY <1>6, <3>1, <3>2, <3>3
  <2> QED
    BY <2>2, <2>3
<1>12. ASSUME NEW n \in Installs, firstSeen'[n] # Unseen
       PROVE  [day |-> firstSeen'[n].day, install |-> n, version |-> firstSeen'[n].version]
                \in uniqueInstall'
  <2>1. firstSeen[n] # Unseen =>
          [day |-> firstSeen[n].day, install |-> n, version |-> firstSeen[n].version]
            \in uniqueInstall'
    BY <1>3, <1>5 DEF DevicesOK
  <2>2. CASE firstSeen'[n] = firstSeen[n]
    BY <1>12, <2>1, <2>2
  <2>3. CASE firstSeen'[n] # firstSeen[n]
    <3>1. InstallCreated(s, lost)
      BY <1>2, <2>3, InstallWritten
    <3>2. /\ InstallRow(s) \in uniqueInstall'
          /\ firstSeen' = [firstSeen EXCEPT ![s.install] =
               IF firstSeen[s.install] = Unseen /\ "firstSeen" \notin lost
               THEN [day |-> s.day, version |-> s.version] ELSE firstSeen[s.install]]
      BY <1>2, <3>1, InstallWritten
    <3>3. n = s.install /\ firstSeen'[n] = [day |-> s.day, version |-> s.version]
      BY <1>2, <1>3, <2>3, <3>2 DEF TypeOK
    <3> QED
      BY <1>4, <3>2, <3>3
  <2> QED
    BY <2>2, <2>3
<1> QED
  BY <1>7, <1>10, <1>11, <1>12 DEF DevicesOK

LEMMA CommitKeeps ==
  ASSUME Inductive, NEW i \in JobIds, NEW lost \in SUBSET Creates, Commit(i, lost)
  PROVE  Inductive'
<1>1. TypeOK /\ QueueOK /\ ReceiptsOK
  BY DEF Inductive
<1>2. /\ job[i].phase = "active" /\ queue' = queue /\ crashes' = crashes
      /\ receipts' = [receipts EXCEPT ![i] = receipts[i] + 1]
      /\ job'[i].phase = "committed" /\ \A k \in JobIds : k # i => job'[k] = job[k]
  BY CommitIs
<1>3. QueueOK'
  <2>1. \A k \in JobIds : job[k].phase = "waiting" => job'[k].phase = "waiting"
    BY <1>2
  <2> QED
    BY <1>1, <1>2, <2>1, QueueStays
<1>4. ReceiptsOK'
  <2> SUFFICES ASSUME crashes = 0, NEW k \in JobIds
               PROVE  /\ receipts'[k] <= 1
                      /\ receipts'[k] > 0 => job'[k].phase \in {"committed", "done"}
    BY <1>2 DEF ReceiptsOK
  <2>1. /\ receipts \in [JobIds -> Nat]
        /\ receipts[k] <= 1
        /\ receipts[k] > 0 => job[k].phase \in {"committed", "done"}
    BY <1>1 DEF ReceiptsOK, TypeOK
  <2>2. CASE k = i
    <3>1. receipts[k] = 0
      BY <1>2, <2>1, <2>2
    <3> QED
      BY <1>2, <2>1, <2>2, <3>1
  <2>3. CASE k # i
    BY <1>2, <2>1, <2>3
  <2> QED
    BY <2>2, <2>3
<1> QED
  BY <1>3, <1>4, CommitTypeOK, CommitCountersOK, CommitDevicesOK DEF Inductive

(***************************************************************************)
(* The invariant.                                                          *)
(***************************************************************************)

LEMMA InitIsInductive == Init => Inductive
<1> SUFFICES ASSUME Init PROVE Inductive
  OBVIOUS
<1> USE DEF Init
<1>1. TypeOK
  BY DEF TypeOK, Standing, Cells
<1>2. QueueOK
  BY DEF QueueOK
<1>3. CountersOK
  <2>1. IsFiniteSet({}) /\ Cardinality({}) = 0
    BY FS_EmptySet
  <2>2. \A d, v : RowsOf({}, d, v) = {}
    BY DEF RowsOf
  <2>3. CountersAre
    BY <2>1, <2>2 DEF CountersAre, Cells
  <2> QED
    BY <1>1, <2>1, <2>3, CountersAgree DEF CountersOK
<1>4. DevicesOK
  BY DEF DevicesOK
<1>5. ReceiptsOK
  BY DEF ReceiptsOK
<1> QED
  BY <1>1, <1>2, <1>3, <1>4, <1>5 DEF Inductive

LEMMA NextIsInductive == Inductive /\ [Next]_vars => Inductive'
<1> SUFFICES ASSUME Inductive, [Next]_vars PROVE Inductive'
  OBVIOUS
<1>1. CASE UNCHANGED vars
  <2>1. TypeOK /\ QueueOK /\ ReceiptsOK
    BY DEF Inductive
  <2>2. RequestsAlone /\ TablesAlone
    BY <1>1 DEF vars, redis, tables, RequestsAlone, TablesAlone
  <2>3. job' = job /\ queue' = queue /\ failures' = failures /\ crashes' = crashes
    BY <1>1 DEF vars, bull, faults
  <2>4. /\ job' \in [JobIds -> JobRecords \cup {NoJob}]
        /\ failures' \in Nat /\ crashes' \in Nat
    BY <2>1, <2>3 DEF TypeOK
  <2>5. queue' \in Seq(JobIds) /\ QueueOK'
    BY <2>1, <2>3, QueueStays
  <2>6. ReceiptsOK' /\ SummariesStay
    BY <2>1, <2>2, <2>3 DEF ReceiptsOK, TablesAlone, SummariesStay
  <2> QED
    BY <2>2, <2>4, <2>5, <2>6, WorkerStepKeeps
<1>2. CASE Next
  <2>1. CASE \/ \E r \in Requests : \/ IpIncr(r) \/ IpExpire(r) \/ Validate(r)
                                    \/ InstallIncr(r) \/ InstallExpire(r)
                                    \/ EnqueueBeyondBound(r) \/ RequestFails(r)
             \/ \E r \in Requests, s \in Summary : Receive(r, s)
             \/ \E k \in Keys : WindowEnds(k)
    BY <2>1, IngestKeeps
  <2>2. CASE \E r \in Requests, i \in JobIds : Enqueue(r, i)
    BY <2>2, EnqueueKeeps
  <2>3. CASE TakeJob
    BY <2>3, TakeJobKeeps
  <2>4. CASE \E i \in JobIds, lost \in SUBSET Creates : Commit(i, lost)
    BY <2>4, CommitKeeps
  <2>5. CASE \E i \in JobIds : Complete(i) \/ JobFails(i)
    BY <2>5, JobLeavesKeeps
  <2>6. CASE \E i \in JobIds : BackoffEnds(i)
    BY <2>6, BackoffEndsKeeps
  <2>7. CASE Crash
    BY <2>7, CrashKeeps
  <2> QED
    BY <1>2, <2>1, <2>2, <2>3, <2>4, <2>5, <2>6, <2>7 DEF Next, Request, Work
<1> QED
  BY <1>1, <1>2

\* Inductive holds in every reachable state.
LEMMA InductiveHolds == Spec => []Inductive
BY InitIsInductive, NextIsInductive, PTL DEF Spec

\* A summary is added to the tables once for all the retries of its job, unless the
\* process restarts.
THEOREM CountedOnceHolds == Spec => []CountedOnce
<1>1. Inductive => CountedOnce
  BY DEF Inductive, ReceiptsOK, CountedOnce
<1> QED
  BY <1>1, InductiveHolds, PTL

\* RowsAgree follows from the inductive invariant.
LEMMA RowsAgreeIn == Inductive => RowsAgree
<1> SUFFICES ASSUME Inductive PROVE RowsAgree
  OBVIOUS
<1>1. DevicesOK /\ CountersMatchRows
  BY DEF Inductive, CountersOK
<1>2. ASSUME NEW d \in Days, NEW n \in Installs
      PROVE  Cardinality({u \in uniqueInstall : u.day = d /\ u.install = n}) <= 1
  <2> DEFINE rows == {u \in uniqueInstall : u.day = d /\ u.install = n}
  <2>1. CASE rows = {}
    BY <2>1, FS_EmptySet
  <2>2. CASE rows # {}
    <3>1. PICK u : u \in rows
      BY <2>2
    <3>2. rows = {u}
      BY <1>1, <3>1 DEF DevicesOK
    <3> HIDE DEF rows
    <3>3. Cardinality(rows) = 1
      BY <3>2, FS_Singleton
    <3> QED
      BY <3>3 DEF rows
  <2> QED
    BY <2>1, <2>2
<1>3. OneDeviceDay
  BY <1>1, <1>2 DEF OneDeviceDay, DevicesOK
<1> QED
  BY <1>1, <1>3 DEF RowsAgree

\* The daily counters and the first appearances say what the tables hold, whatever create
\* was lost; an install has one row of a day at most, and one if a summary of that day was
\* counted with no create lost.
THEOREM RowsAgreeHolds == Spec => []RowsAgree
BY InductiveHolds, RowsAgreeIn, PTL

(***************************************************************************)
(* The panel.                                                              *)
(***************************************************************************)

\* The rows of a period are finitely many.
LEMMA DeviceRowsAreFinite ==
  ASSUME Inductive, NEW q \in Queries
  PROVE  IsFiniteSet(DeviceRows(q))
<1>1. IsFiniteSet(uniqueInstall)
  BY DEF Inductive, CountersOK
<1>2. DeviceRows(q) \in SUBSET uniqueInstall
  BY DEF DeviceRows
<1> QED
  BY <1>1, <1>2, FS_Subset

\* An install that is new in a period has a row of it: that of its first appearance.
LEMMA NewRowsAreDevices ==
  ASSUME Inductive, NEW q \in Queries
  PROVE  /\ NewRows(q) \in SUBSET {u.install : u \in DeviceRows(q)}
         /\ Cardinality(NewRows(q)) <= Cardinality({u.install : u \in DeviceRows(q)})
<1> DEFINE rows == DeviceRows(q)
           install == [u \in rows |-> u.install]
           devices == {u.install : u \in rows}
<1>1. IsFiniteSet(devices)
  <2>1. install \in Surjection(rows, devices)
    BY DEF Surjection
  <2>2. IsFiniteSet(rows)
    BY DeviceRowsAreFinite
  <2> HIDE DEF rows, install, devices
  <2> QED
    BY <2>1, <2>2, FS_Surjection
<1>2. NewRows(q) \in SUBSET devices
  <2> SUFFICES ASSUME NEW n \in NewRows(q) PROVE n \in devices
    OBVIOUS
  <2>1. /\ n \in Installs /\ firstSeen[n] # Unseen
        /\ InDays(q, firstSeen[n].day) /\ OfVersion(q, firstSeen[n].version)
    BY DEF NewRows
  <2>2. PICK u \in uniqueInstall :
          u = [day |-> firstSeen[n].day, install |-> n, version |-> firstSeen[n].version]
    BY <2>1 DEF Inductive, DevicesOK
  <2>3. u.install = n /\ u.day = firstSeen[n].day /\ u.version = firstSeen[n].version
    BY <2>2
  <2>4. u \in rows
    BY <2>1, <2>3 DEF DeviceRows
  <2> QED
    BY <2>3, <2>4
<1>3. Cardinality(NewRows(q)) <= Cardinality(devices)
  <2> HIDE DEF devices
  <2> QED
    BY <1>1, <1>2, FS_Subset
<1> QED
  BY <1>2, <1>3

\* The installs counted in the cells of a query one by one, and the rows that they are.
Tallies(q) == UNION {{c} \X (1..daily[c].installs) : c \in CellsOf(q)}
RowsCounted(q) ==
  {u \in uniqueInstall : InInstants(q, u.day) /\ OfVersion(q, u.version)}

\* An enumeration of the rows of each cell.
Enumerates(f) ==
  \A c \in Cells : f[c] \in Bijection(1..daily[c].installs,
                                      RowsOf(uniqueInstall, c[1], c[2]))

LEMMA CellsAreEnumerated ==
  ASSUME Inductive PROVE \E f : Enumerates(f)
<1> DEFINE rows(c) == RowsOf(uniqueInstall, c[1], c[2])
<1>1. ASSUME NEW c \in Cells
      PROVE  Bijection(1..daily[c].installs, rows(c)) # {}
  <2>1. PICK d \in Days, v \in Versions : c = <<d, v>>
    <3>1. c = <<c[1], c[2]>> /\ c[1] \in Days /\ c[2] \in Versions
      BY DEF Cells
    <3> QED
      BY <3>1
  <2>2. rows(c) = RowsOf(uniqueInstall, d, v)
    BY <2>1
  <2>3. daily[c].installs = Cardinality(rows(c))
    <3>1. CountersAre
      BY CountersAgree DEF Inductive, CountersOK
    <3> QED
      BY <2>1, <2>2, <3>1 DEF CountersAre
  <2>4. IsFiniteSet(rows(c))
    <3>1. rows(c) \in SUBSET uniqueInstall
      BY DEF RowsOf
    <3>2. IsFiniteSet(uniqueInstall)
      BY DEF Inductive, CountersOK
    <3> HIDE DEF rows
    <3> QED
      BY <3>1, <3>2, FS_Subset
  <2> HIDE DEF rows
  <2>5. ExistsBijection(1..Cardinality(rows(c)), rows(c))
    BY <2>4, FS_CardinalityType
  <2> QED
    BY <2>3, <2>5 DEF ExistsBijection
<1>2. PICK f : f = [c \in Cells |-> CHOOSE g : g \in Bijection(1..daily[c].installs, rows(c))]
  OBVIOUS
<1>3. ASSUME NEW c \in Cells
      PROVE  f[c] \in Bijection(1..daily[c].installs, rows(c))
  <2> HIDE DEF rows
  <2>1. PICK B : B = Bijection(1..daily[c].installs, rows(c))
    OBVIOUS
  <2>2. f[c] = CHOOSE g : g \in B
    BY <1>2, <2>1
  <2> QED
    BY <1>1, <2>1, <2>2
<1> QED
  BY <1>3 DEF Enumerates

\* The rows of a period are the installs counted in its cells: the enumerations of the
\* cells, taken together, run through its rows once.
LEMMA TalliesAreRows ==
  ASSUME Inductive, NEW q \in Queries
  PROVE  InstallsCounted(q) = Cardinality(RowsCounted(q))
<1> DEFINE rows == RowsCounted(q)
           tallies == Tallies(q)
<1>1. PICK f : Enumerates(f)
  BY CellsAreEnumerated
<1>2. ASSUME NEW t \in tallies
      PROVE  \E c \in CellsOf(q) : \E k \in 1..daily[c].installs : t = <<c, k>>
  BY DEF Tallies
<1>3. ASSUME NEW c \in Cells, NEW k \in 1..daily[c].installs
      PROVE  /\ f[c][k] \in uniqueInstall
             /\ f[c][k].day = c[1] /\ f[c][k].version = c[2]
  <2>1. f[c] \in Bijection(1..daily[c].installs, RowsOf(uniqueInstall, c[1], c[2]))
    BY <1>1 DEF Enumerates
  <2>2. f[c][k] \in RowsOf(uniqueInstall, c[1], c[2])
    BY <2>1 DEF Bijection, Injection
  <2> QED
    BY <2>2 DEF RowsOf
<1>4. PICK h : h = [t \in tallies |-> f[t[1]][t[2]]]
  OBVIOUS
<1>5. h \in [tallies -> rows]
  <2> SUFFICES ASSUME NEW t \in tallies PROVE f[t[1]][t[2]] \in rows
    BY <1>4
  <2>0. PICK c \in CellsOf(q) : \E k \in 1..daily[c].installs : t = <<c, k>>
    BY <1>2
  <2>1. PICK k \in 1..daily[c].installs : t = <<c, k>>
    BY <2>0
  <2>2. /\ c \in Cells /\ InInstants(q, c[1]) /\ OfVersion(q, c[2])
    BY DEF CellsOf, Cells
  <2>3. PICK u : u = f[c][k]
    OBVIOUS
  <2>4. u \in uniqueInstall /\ u.day = c[1] /\ u.version = c[2]
    BY <1>3, <2>2, <2>3
  <2>5. InInstants(q, u.day) /\ OfVersion(q, u.version)
    BY <2>2, <2>4
  <2> QED
    BY <2>1, <2>3, <2>4, <2>5 DEF RowsCounted
<1>6. ASSUME NEW t \in tallies, NEW w \in tallies, h[t] = h[w]
      PROVE  t = w
  <2>a. PICK c \in CellsOf(q) : \E k \in 1..daily[c].installs : t = <<c, k>>
    BY <1>2
  <2>b. PICK e \in CellsOf(q) : \E l \in 1..daily[e].installs : w = <<e, l>>
    BY <1>2
  <2>1. PICK k \in 1..daily[c].installs : t = <<c, k>>
    BY <2>a
  <2>2. PICK l \in 1..daily[e].installs : w = <<e, l>>
    BY <2>b
  <2>3. c \in Cells /\ e \in Cells
    BY DEF CellsOf, Cells
  <2>4. f[c][k] = f[e][l]
    BY <1>4, <1>6, <2>1, <2>2
  <2>5. c[1] = e[1] /\ c[2] = e[2]
    BY <1>3, <2>3, <2>4
  <2>6. c = e
    BY <2>3, <2>5 DEF Cells
  <2>7. f[c] \in Bijection(1..daily[c].installs, RowsOf(uniqueInstall, c[1], c[2]))
    BY <1>1, <2>3 DEF Enumerates
  <2>8. k = l
    BY <2>4, <2>6, <2>7 DEF Bijection, Injection, IsInjective
  <2> QED
    BY <2>1, <2>2, <2>6, <2>8
<1>7. ASSUME NEW u \in rows PROVE \E t \in tallies : h[t] = u
  <2>1. u \in uniqueInstall /\ InInstants(q, u.day) /\ OfVersion(q, u.version)
    BY DEF RowsCounted
  <2>2. u \in [day : Days, install : Installs, version : Versions]
    BY <2>1 DEF Inductive, TypeOK
  <2>3. PICK c : c = <<u.day, u.version>>
    OBVIOUS
  <2>4. c \in Cells /\ c[1] = u.day /\ c[2] = u.version
    BY <2>2, <2>3 DEF Cells
  <2>5. c \in CellsOf(q)
    BY <2>1, <2>4 DEF CellsOf, Cells
  <2>6. f[c] \in Bijection(1..daily[c].installs, RowsOf(uniqueInstall, c[1], c[2]))
    BY <1>1, <2>4 DEF Enumerates
  <2>7. u \in RowsOf(uniqueInstall, c[1], c[2])
    BY <2>1, <2>4 DEF RowsOf
  <2>8. PICK k \in 1..daily[c].installs : f[c][k] = u
    BY <2>6, <2>7 DEF Bijection, Surjection
  <2>9. <<c, k>> \in tallies
    BY <2>5 DEF Tallies
  <2>10. h[<<c, k>>] = u
    BY <1>4, <2>8, <2>9
  <2> QED
    BY <2>9, <2>10
<1> HIDE DEF rows, tallies
<1>8. h \in Bijection(tallies, rows)
  BY <1>5, <1>6, <1>7 DEF Bijection, Injection, Surjection, IsInjective
<1>9. ExistsBijection(rows, tallies)
  <2>1. ExistsBijection(tallies, rows)
    BY <1>8 DEF ExistsBijection
  <2> QED
    BY <2>1, Fun_ExistsBijSymmetric
<1>10. IsFiniteSet(rows)
  <2>1. IsFiniteSet(uniqueInstall) /\ rows \in SUBSET uniqueInstall
    BY DEF Inductive, CountersOK, rows, RowsCounted
  <2> QED
    BY <2>1, FS_Subset
<1>11. Cardinality(tallies) = Cardinality(rows)
  BY <1>9, <1>10, FS_Bijection
<1>12. InstallsCounted(q) = Cardinality(tallies)
  BY DEF InstallsCounted, tallies, Tallies
<1> QED
  BY <1>11, <1>12 DEF rows

\* What two instants keep of the days that they cut to: all, but the first of them when
\* the period begins later in the day.
LEMMA InstantsAreDays ==
  ASSUME NEW q \in Queries, NEW d \in Days
  PROVE  InInstants(q, d) <=>
           InDays(q, d) /\ (BeginsWhole(q) \/ d # DayOf(q.from))
<1>0. CASE CutsToDays
  BY <1>0 DEF InInstants, BeginsWhole
<1>1. q.from \in Instants /\ q.to \in Instants
  BY DEF Queries
<1>2. d \in Nat
  OBVIOUS
<1>3. PICK a \in Nat : q.from = 2 * a \/ q.from = 2 * a + 1
  BY <1>1 DEF Instants, Midnight
<1>4. PICK b \in Nat : q.to = 2 * b \/ q.to = 2 * b + 1
  BY <1>1 DEF Instants, Midnight
<1>5. DayOf(q.from) = a /\ DayOf(q.to) = b
  BY <1>3, <1>4 DEF DayOf
<1>6. InDays(q, d) <=> a <= d /\ d <= b
  BY <1>5 DEF InDays
<1>7. CASE ~CutsToDays
  <2>1. InInstants(q, d) <=> q.from <= 2 * d /\ 2 * d <= q.to
    BY <1>7 DEF InInstants, Midnight
  <2>2. BeginsWhole(q) <=> q.from = 2 * a
    BY <1>5, <1>7 DEF BeginsWhole, Midnight
  <2> QED
    BY <1>2, <1>3, <1>4, <1>5, <1>6, <2>1, <2>2
<1> QED
  BY <1>0, <1>7, AudienceAssumption

LEMMA DaysAreCounted == Inductive => DeviceDaysAreCounted
<1> SUFFICES ASSUME Inductive, NEW q \in Queries
             PROVE  InstallsCounted(q) =
                      IF BeginsWhole(q) THEN DeviceDays(q)
                      ELSE Cardinality({u \in DeviceRows(q) : u.day # DayOf(q.from)})
  BY DEF DeviceDaysAreCounted
<1>1. \A u \in uniqueInstall : u.day \in Days
  BY DEF Inductive, TypeOK
<1>2. \A u \in uniqueInstall :
        InInstants(q, u.day) <=>
          InDays(q, u.day) /\ (BeginsWhole(q) \/ u.day # DayOf(q.from))
  BY <1>1, InstantsAreDays
<1>3. CASE BeginsWhole(q)
  <2>1. RowsCounted(q) = DeviceRows(q)
    BY <1>2, <1>3 DEF RowsCounted, DeviceRows
  <2> QED
    BY <1>3, <2>1, TalliesAreRows DEF DeviceDays
<1>4. CASE ~BeginsWhole(q)
  <2>1. RowsCounted(q) = {u \in DeviceRows(q) : u.day # DayOf(q.from)}
    BY <1>2, <1>4 DEF RowsCounted, DeviceRows
  <2> QED
    BY <1>4, <2>1, TalliesAreRows
<1> QED
  BY <1>3, <1>4

\* Rows are written by a transaction alone, which writes a receipt as well.
LEMMA RowsStayOrAreCounted ==
  ASSUME Inductive, [Next]_vars, receipts' = receipts
  PROVE  uniqueInstall' = uniqueInstall /\ firstSeen' = firstSeen
<1>1. CASE UNCHANGED vars
  BY <1>1 DEF vars, tables
<1>2. CASE Next
  <2>1. CASE \/ \E r \in Requests : \/ IpIncr(r) \/ IpExpire(r) \/ Validate(r)
                                    \/ InstallIncr(r) \/ InstallExpire(r)
                                    \/ EnqueueBeyondBound(r) \/ RequestFails(r)
             \/ \E r \in Requests, s \in Summary : Receive(r, s)
             \/ \E k \in Keys : WindowEnds(k)
    BY <2>1 DEF IpIncr, IpExpire, Validate, InstallIncr, InstallExpire, Incr, Expire,
       EnqueueBeyondBound, RequestFails, Receive, WindowEnds, tables
  <2>2. CASE \/ \E r \in Requests, i \in JobIds : Enqueue(r, i)
             \/ TakeJob
             \/ \E i \in JobIds : Complete(i) \/ JobFails(i) \/ BackoffEnds(i)
             \/ Crash
    BY <2>2 DEF Enqueue, TakeJob, Complete, JobFails, BackoffEnds, Crash, tables
  <2>3. ~ \E i \in JobIds, lost \in SUBSET Creates : Commit(i, lost)
    <3> SUFFICES ASSUME NEW i \in JobIds, NEW lost \in SUBSET Creates, Commit(i, lost)
                 PROVE  FALSE
      OBVIOUS
    <3>1. receipts' = [receipts EXCEPT ![i] = receipts[i] + 1]
      BY CommitIs
    <3>2. receipts \in [JobIds -> Nat]
      BY DEF Inductive, TypeOK
    <3> QED
      BY <3>1, <3>2
  <2> QED
    BY <1>2, <2>1, <2>2, <2>3 DEF Next, Request, Work
<1> QED
  BY <1>1, <1>2

\* The figures of a request that nothing overtook, when its last query has answered.
LEMMA FreshFiguresAgree ==
  ASSUME Inductive, panel \in Requested, Fresh
  PROVE  NewDevicesAreDevices
<1> SUFFICES ASSUME panel.pending = {}
             PROVE  NewDevices <= UniqueDevices /\ NewDevices = NewDevicesDaily
  BY DEF NewDevicesAreDevices
<1>1. PICK q \in Queries : q = panel.query
  BY DEF Requested
<1>2. panel.devices = DeviceRows(q) /\ panel.new = NewRows(q) /\ panel.newDaily = NewRows(q)
  BY <1>1 DEF Fresh
<1>3. /\ NewRows(q) \in SUBSET {u.install : u \in DeviceRows(q)}
      /\ Cardinality(NewRows(q)) <= Cardinality({u.install : u \in DeviceRows(q)})
  BY NewRowsAreDevices
<1>4. CASE panel.devices = {}
  <2>1. NewRows(q) = {} /\ {u.install : u \in panel.devices} = {}
    BY <1>2, <1>3, <1>4
  <2>2. NewDevices = 0 /\ NewDevicesDaily = 0 /\ UniqueDevices = 0
    BY <1>2, <1>4, <2>1, FS_EmptySet DEF NewDevices, NewDevicesDaily, UniqueDevices
  <2> QED
    BY <2>2
<1>5. CASE panel.devices # {}
  BY <1>2, <1>3, <1>5 DEF NewDevices, NewDevicesDaily, UniqueDevices
<1> QED
  BY <1>4, <1>5

LEMMA IngestKeepsThePanel ==
  ASSUME Inductive, PanelOK, [Next]_vars, Overtakes
  PROVE  PanelOK'
<1>1. panel \in Requested \cup {Idle}
  BY DEF PanelOK
<1>2. CASE Halfway /\ receipts' # receipts
  <2>1. panel \in Requested /\ panel.pending # {}
    BY <1>1, <1>2 DEF Halfway
  <2>2. panel' = [panel EXCEPT !.overtaken = TRUE]
    BY <1>2 DEF Overtakes
  <2>3. panel' \in Requested /\ panel'.overtaken = TRUE
    BY <2>1, <2>2 DEF Requested
  <2> QED
    BY <2>3 DEF PanelOK, NewDevicesAreDevices
<1>3. CASE ~(Halfway /\ receipts' # receipts)
  <2>1. panel' = panel
    BY <1>3 DEF Overtakes
  <2>2. NewDevicesAreDevices'
    BY <2>1 DEF PanelOK, NewDevicesAreDevices, NewDevices, UniqueDevices, NewDevicesDaily
  <2>3. ASSUME panel # Idle, panel.pending # {}, ~panel.overtaken
        PROVE  Fresh'
    <3>1. CASE receipts' = receipts
      <4>1. uniqueInstall' = uniqueInstall /\ firstSeen' = firstSeen
        BY <3>1, RowsStayOrAreCounted
      <4>2. Fresh
        BY <2>3 DEF PanelOK
      <4> QED
        BY <2>1, <4>1, <4>2 DEF Fresh, DeviceRows, NewRows
    <3>2. CASE receipts' # receipts
      <4>1. panel.pending = Reads
        BY <1>3, <2>3, <3>2 DEF Halfway
      <4> QED
        BY <2>1, <4>1 DEF Fresh, Reads
    <3> QED
      BY <3>1, <3>2
  <2> QED
    BY <1>1, <2>1, <2>2, <2>3 DEF PanelOK
<1> QED
  BY <1>2, <1>3

LEMMA RowsAreTyped ==
  ASSUME Inductive, NEW q
  PROVE  /\ DeviceRows(q) \in SUBSET [day : Days, install : Installs, version : Versions]
         /\ NewRows(q) \in SUBSET Installs
BY DEF DeviceRows, NewRows, Inductive, TypeOK

LEMMA PanelStepKeeps ==
  ASSUME Inductive, Inductive', PanelOK, PanelStep
  PROVE  PanelOK'
<1>1. panel \in Requested \cup {Idle}
  BY DEF PanelOK
<1>2. uniqueInstall' = uniqueInstall /\ firstSeen' = firstSeen
  BY DEF PanelStep, vars, tables
<1>3. Idle.pending = {"request"}
  BY DEF Idle
<1>4. ASSUME NEW q \in Queries, Ask(q) PROVE PanelOK'
  <2>1. panel' = [query |-> q, pending |-> Reads, devices |-> {}, new |-> {},
                  newDaily |-> {}, overtaken |-> FALSE]
    BY <1>4 DEF Ask
  <2>2. panel' \in Requested /\ panel'.pending = Reads
    BY <2>1 DEF Requested
  <2>3. Fresh' /\ NewDevicesAreDevices'
    BY <2>2 DEF Fresh, NewDevicesAreDevices, Reads
  <2> QED
    BY <2>2, <2>3 DEF PanelOK
<1>5. CASE ReadDevices \/ ReadNew \/ ReadNewDaily
  <2>1. panel \in Requested /\ panel.pending # {} /\ panel # Idle
    BY <1>1, <1>3, <1>5 DEF ReadDevices, ReadNew, ReadNewDaily, Requested, Reads
  <2>a. PICK q : q = panel.query
    OBVIOUS
  <2>b. /\ DeviceRows(q) \in SUBSET [day : Days, install : Installs, version : Versions]
        /\ NewRows(q) \in SUBSET Installs
    BY RowsAreTyped
  <2>2. panel' \in Requested /\ panel'.overtaken = panel.overtaken
    <3>1. CASE ReadDevices
      <4>1. PICK todo \in SUBSET Reads : todo = panel.pending \ {"devices"}
        BY <2>1 DEF Requested
      <4>2. panel' = [panel EXCEPT !.pending = todo, !.devices = DeviceRows(q)]
        BY <2>a, <3>1, <4>1 DEF ReadDevices
      <4> QED
        BY ONLY <2>1, <2>b, <4>1, <4>2 DEF Requested
    <3>2. CASE ReadNew
      <4>1. PICK todo \in SUBSET Reads : todo = panel.pending \ {"new"}
        BY <2>1 DEF Requested
      <4>2. panel' = [panel EXCEPT !.pending = todo, !.new = NewRows(q)]
        BY <2>a, <3>2, <4>1 DEF ReadNew
      <4> QED
        BY ONLY <2>1, <2>b, <4>1, <4>2 DEF Requested
    <3>3. CASE ReadNewDaily
      <4>1. PICK todo \in SUBSET Reads : todo = panel.pending \ {"newDaily"}
        BY <2>1 DEF Requested
      <4>2. panel' = [panel EXCEPT !.pending = todo, !.newDaily = NewRows(q)]
        BY <2>a, <3>3, <4>1 DEF ReadNewDaily
      <4> QED
        BY ONLY <2>1, <2>b, <4>1, <4>2 DEF Requested
    <3> QED
      BY <1>5, <3>1, <3>2, <3>3
  <2>3. ASSUME ~panel.overtaken PROVE Fresh'
    <3>1. Fresh
      BY <2>1, <2>3 DEF PanelOK
    <3>2. /\ DeviceRows(panel.query)' = DeviceRows(panel.query)
          /\ NewRows(panel.query)' = NewRows(panel.query)
          /\ panel'.query = panel.query
      BY <1>2, <1>5, <2>1 DEF ReadDevices, ReadNew, ReadNewDaily, Requested,
         DeviceRows, NewRows
    <3>3. CASE ReadDevices
      BY <1>2, <2>1, <3>1, <3>3 DEF ReadDevices, Requested, Fresh, DeviceRows, NewRows
    <3>4. CASE ReadNew
      BY <1>2, <2>1, <3>1, <3>4 DEF ReadNew, Requested, Fresh, DeviceRows, NewRows
    <3>5. CASE ReadNewDaily
      BY <1>2, <2>1, <3>1, <3>5 DEF ReadNewDaily, Requested, Fresh, DeviceRows, NewRows
    <3> QED
      BY <1>5, <3>3, <3>4, <3>5
  <2>4. NewDevicesAreDevices'
    <3>1. CASE panel.overtaken
      BY <2>2, <3>1 DEF NewDevicesAreDevices
    <3>2. CASE ~panel.overtaken
      <4>1. (Inductive /\ panel \in Requested /\ Fresh)'
        BY <2>2, <2>3, <3>2
      <4>2. (Inductive /\ panel \in Requested /\ Fresh => NewDevicesAreDevices)'
        BY FreshFiguresAgree, PTL
      <4> QED
        BY <4>1, <4>2
    <3> QED
      BY <3>1, <3>2
  <2> QED
    BY <2>2, <2>3, <2>4 DEF PanelOK
<1>6. CASE Answer
  <2>1. panel' = Idle
    BY <1>6 DEF Answer
  <2>2. panel'.pending # {}
    BY <1>3, <2>1
  <2> QED
    BY <2>1, <2>2 DEF PanelOK, NewDevicesAreDevices
<1> QED
  BY <1>4, <1>5, <1>6 DEF PanelStep

\* The figures that the panel of the dashboard computes in two ways, or shows side by
\* side, agree: the new devices of a period are among its unique devices and add up by
\* day, unless a summary was counted between two queries of the request; and the sum of
\* the daily counters is the number of rows, of the days whose midnight the period has.
THEOREM PanelAgreesHolds == PanelSpec => []PanelAgrees
<1>1. PanelInit => Inductive /\ PanelOK
  <2> SUFFICES ASSUME PanelInit PROVE Inductive /\ PanelOK
    OBVIOUS
  <2>1. Idle.pending # {}
    BY DEF Idle
  <2> QED
    BY <2>1, InitIsInductive DEF PanelInit, PanelOK, NewDevicesAreDevices
<1>2. Inductive /\ PanelOK /\ [PanelNext]_<<vars, panel>> => (Inductive /\ PanelOK)'
  <2> SUFFICES ASSUME Inductive, PanelOK, [PanelNext]_<<vars, panel>>
               PROVE  (Inductive /\ PanelOK)'
    OBVIOUS
  <2>1. [Next]_vars
    BY DEF PanelNext, PanelStep
  <2>2. Inductive'
    BY <2>1, NextIsInductive
  <2>3. CASE Next /\ Overtakes
    BY <2>2, <2>3, IngestKeepsThePanel
  <2>4. CASE PanelStep
    BY <2>2, <2>4, PanelStepKeeps
  <2>5. CASE UNCHANGED <<vars, panel>>
    <3>1. receipts' = receipts /\ panel' = panel
      BY <2>5 DEF vars, tables
    <3>2. Overtakes
      BY <3>1 DEF Overtakes
    <3> QED
      BY <2>1, <2>2, <3>2, IngestKeepsThePanel
  <2> QED
    BY <2>3, <2>4, <2>5 DEF PanelNext
<1>3. Inductive /\ PanelOK => PanelAgrees
  BY DaysAreCounted DEF PanelOK, PanelAgrees
<1> QED
  BY <1>1, <1>2, <1>3, PTL DEF PanelSpec

(***************************************************************************)
(* The audience.  The steps of the ingestion are those of DailyAudience:   *)
(* Enqueue accepts a summary, Commit takes one in, no other step changes  *)
(* what the mapping reads.                                                 *)
(***************************************************************************)

NoneAppears == \A k \in JobIds : job[k] = NoJob => job'[k] = NoJob

LEMMA WholeIsQueued ==
  ASSUME Inductive PROVE whole \in SUBSET Queued
BY DEF Inductive, TypeOK, DevicesOK, Queued

LEMMA AudienceStays ==
  ASSUME Inductive, TablesAlone, SummariesStay, NoneAppears
  PROVE  UNCHANGED Audience!vars
<1>1. Queued' = Queued
  BY DEF Queued, SummariesStay, NoneAppears
<1>2. \A k \in Queued : job'[k].summary = job[k].summary
  BY DEF Queued, SummariesStay
<1>3. Accepted' = Accepted
  BY <1>1, <1>2 DEF Accepted
<1>4. Received' = Received /\ Counted' = Counted
  <2>1. receipts' = receipts /\ whole' = whole
    BY DEF TablesAlone
  <2> QED
    BY <1>1, <1>2, <2>1, WholeIsQueued DEF Received, Counted
<1>5. DevicesByDay' = DevicesByDay /\ SessionsByDay' = SessionsByDay
  BY DEF TablesAlone, DevicesByDay, SessionsByDay
<1> QED
  BY <1>3, <1>4, <1>5 DEF Audience!vars

LEMMA WaitingStays ==
  ASSUME Inductive,
         \/ TakeJob
         \/ \E i \in JobIds : Complete(i) \/ JobFails(i) \/ BackoffEnds(i)
         \/ Crash
  PROVE  TablesAlone /\ SummariesStay /\ NoneAppears
<1>1. TypeOK /\ QueueOK
  BY DEF Inductive
<1>2. TablesAlone
  BY DEF TakeJob, Complete, JobFails, BackoffEnds, Crash, TablesAlone, tables
<1>3. CASE \E i \in JobIds : \/ Complete(i) \/ BackoffEnds(i)
                             \/ TakeJob /\ i = Head(queue)
  <2>1. PICK i \in JobIds, p \in Phases :
          job[i].phase # "none" /\ SetJob(i, p)
    <3>1. TakeJob => job[Head(queue)].phase = "waiting"
      <4> SUFFICES ASSUME TakeJob PROVE job[Head(queue)].phase = "waiting"
        OBVIOUS
      <4>1. queue # <<>> /\ queue \in Seq(JobIds)
        BY <1>1 DEF TakeJob, TypeOK
      <4>2. Head(queue) = queue[1] /\ 1 \in 1..Len(queue)
        BY <4>1
      <4> QED
        BY <1>1, <4>2 DEF QueueOK
    <3> QED
      BY <1>3, <3>1 DEF Complete, BackoffEnds, TakeJob, Phases
  <2>2. SummariesStay /\ \A k \in JobIds : k # i => job'[k] = job[k]
    BY <1>1, <2>1, SetJobIs DEF SummariesStay
  <2>3. job[i] # NoJob
    BY <2>1 DEF NoJob
  <2> QED
    BY <1>2, <2>2, <2>3 DEF NoneAppears
<1>4. CASE \E i \in JobIds : JobFails(i)
  <2>1. PICK i \in JobIds : JobFails(i)
    BY <1>4
  <2>2. job[i].phase = "active" /\ job[i] \in JobRecords
    BY <1>1, <2>1, JobIs DEF JobFails
  <2>3. PICK j : j = [job[i] EXCEPT !.phase = Thrown(job[i]),
                                    !.attempts = job[i].attempts + 1]
    OBVIOUS
  <2>4. job' = [job EXCEPT ![i] = j]
    BY <2>1, <2>3 DEF JobFails
  <2>5. j.summary = job[i].summary /\ j # NoJob
    <3>1. PICK h : h = [job[i] EXCEPT !.phase = Thrown(job[i])]
      OBVIOUS
    <3>2. /\ DOMAIN h = {"summary", "phase", "attempts", "stalls"}
          /\ h.summary = job[i].summary
      BY <2>2, <3>1 DEF JobRecords
    <3>3. j = [h EXCEPT !.attempts = job[i].attempts + 1]
      BY <2>2, <2>3, <3>1 DEF JobRecords
    <3>4. DOMAIN j = {"summary", "phase", "attempts", "stalls"} /\ j.summary = h.summary
      BY ONLY <3>2, <3>3
    <3> QED
      BY <3>2, <3>4 DEF NoJob
  <2>6. \A k \in JobIds : job'[k] = IF k = i THEN j ELSE job[k]
    BY <1>1, <2>4 DEF TypeOK
  <2>7. job[i] # NoJob
    BY <2>2 DEF NoJob
  <2> QED
    BY <1>2, <2>5, <2>6, <2>7 DEF SummariesStay, NoneAppears
<1>5. CASE Crash
  <2> DEFINE again == {i \in Active : job[i].stalls < MaxStalledCount}
  <2>1. job' = [i \in JobIds |->
          IF i \in again THEN [job[i] EXCEPT !.phase = "waiting", !.stalls = @ + 1]
          ELSE IF i \in Active THEN [job[i] EXCEPT !.phase = "failed"] ELSE job[i]]
    BY <1>5 DEF Crash
  <2>2. again \subseteq Active /\ \A k \in Active : job[k] # NoJob
    BY DEF Active, Queued
  <2> HIDE DEF again
  <2>3. NoneAppears
    BY <2>1, <2>2 DEF NoneAppears
  <2>4. SummariesStay
    <3> SUFFICES ASSUME NEW k \in JobIds, job[k] # NoJob
                 PROVE  job'[k] # NoJob /\ job'[k].summary = job[k].summary
      BY DEF SummariesStay
    <3>1. job[k] \in JobRecords
      BY <1>1 DEF TypeOK
    <3>2. CASE k \in again
      <4>1. PICK h : h = [job[k] EXCEPT !.phase = "waiting"]
        OBVIOUS
      <4>2. /\ DOMAIN h = {"summary", "phase", "attempts", "stalls"}
            /\ h.summary = job[k].summary /\ h.stalls = job[k].stalls
        BY <3>1, <4>1 DEF JobRecords
      <4>3. PICK j : j = [job[k] EXCEPT !.phase = "waiting", !.stalls = @ + 1]
        OBVIOUS
      <4>4. j = [h EXCEPT !.stalls = h.stalls + 1]
        BY <3>1, <4>1, <4>2, <4>3 DEF JobRecords
      <4>5. DOMAIN j = {"summary", "phase", "attempts", "stalls"} /\ j.summary = h.summary
        BY ONLY <4>2, <4>4
      <4>6. job'[k] = j
        BY <2>1, <3>2, <4>3
      <4> QED
        BY <4>2, <4>5, <4>6 DEF NoJob
    <3>3. CASE k \notin again /\ k \in Active
      BY <2>1, <3>1, <3>3 DEF JobRecords, NoJob
    <3>4. CASE k \notin Active
      BY <2>1, <2>2, <3>4
    <3> QED
      BY <3>2, <3>3, <3>4
  <2> QED
    BY <1>2, <2>3, <2>4
<1>6. TakeJob => Head(queue) \in JobIds
  <2> SUFFICES ASSUME TakeJob PROVE Head(queue) \in JobIds
    OBVIOUS
  <2>1. queue # <<>> /\ queue \in Seq(JobIds)
    BY <1>1 DEF TakeJob, TypeOK
  <2> QED
    BY <2>1
<1> QED
  BY <1>3, <1>4, <1>5, <1>6

LEMMA EnqueueAccepts ==
  ASSUME Inductive, NEW r \in Requests, NEW i \in JobIds, Enqueue(r, i)
  PROVE  Audience!Next
<1>1. PICK s : s = req[r].summary
  OBVIOUS
<1>2. TypeOK /\ DevicesOK /\ req[r].phase = "add" /\ i \notin Queued
  BY DEF Inductive, Enqueue
<1>3. s \in Summary
  BY <1>1, <1>2, BusyIs
<1>4. PICK j : j = Job(s, "waiting", 0, 0)
  OBVIOUS
<1>5. j # NoJob /\ j.summary = s
  BY <1>4 DEF Job, NoJob
<1>6. \A k \in JobIds : job'[k] = IF k = i THEN j ELSE job[k]
  BY <1>1, <1>2, <1>4 DEF Enqueue, TypeOK
<1>7. Queued' = Queued \cup {i}
  BY <1>5, <1>6 DEF Queued
<1>8. receipts' = receipts /\ whole' = whole /\ ~(receipts[i] > 0)
  BY <1>2 DEF Enqueue, tables, DevicesOK, Queued
<1>9. PICK p : p = <<i, s>>
  OBVIOUS
<1>10. \A k \in Queued : job'[k].summary = job[k].summary
  BY <1>2, <1>6 DEF Queued
<1>11. job'[i].summary = s
  BY <1>5, <1>6
<1>12. Accepted' = Accepted \cup {p}
  BY <1>7, <1>9, <1>10, <1>11 DEF Accepted
<1>13. Received' = Received /\ Counted' = Counted
  <2>1. {k \in Queued' : receipts'[k] > 0} = {k \in Queued : receipts[k] > 0}
    BY <1>7, <1>8
  <2> QED
    BY <1>8, <1>10, <2>1, WholeIsQueued DEF Received, Counted
<1>14. DevicesByDay' = DevicesByDay /\ SessionsByDay' = SessionsByDay
  BY DEF Enqueue, tables, DevicesByDay, SessionsByDay
<1>15. \A q \in Accepted : q[1] # p[1]
  BY <1>2, <1>9 DEF Accepted
<1>16. p \in JobIds \X Summary
  BY <1>3, <1>9
<1>17. Audience!Accept(p)
  BY <1>12, <1>13, <1>14, <1>15 DEF Audience!Accept
<1> QED
  BY <1>16, <1>17 DEF Audience!Next

LEMMA CommitCounts ==
  ASSUME Inductive, NEW i \in JobIds, NEW lost \in SUBSET Creates, Commit(i, lost)
  PROVE  Audience!Next
<1>1. PICK s : s = job[i].summary
  OBVIOUS
<1>2. PICK p : p = <<i, s>>
  OBVIOUS
<1>3. TypeOK /\ job[i] \in JobRecords /\ s \in Summary /\ SummariesStay
  BY <1>1, CommitIs DEF Inductive
<1>4. i \in Queued
  BY <1>3 DEF Queued, NoJob, JobRecords
<1>5. NoneAppears
  BY <1>4, CommitIs DEF NoneAppears, Queued
<1>6. Queued' = Queued /\ \A k \in Queued : job'[k].summary = job[k].summary
  BY <1>3, <1>5 DEF Queued, SummariesStay, NoneAppears
<1>7. Accepted' = Accepted
  BY <1>6 DEF Accepted
<1>8. p \in Accepted
  BY <1>1, <1>2, <1>4 DEF Accepted
<1>9. Received' = Received \cup {p}
  <2>1. \A k \in JobIds : receipts'[k] = IF k = i THEN receipts[k] + 1 ELSE receipts[k]
    BY <1>3, CommitIs DEF TypeOK
  <2>2. receipts[i] \in Nat
    BY <1>3 DEF TypeOK
  <2>3. {k \in Queued' : receipts'[k] > 0} = {k \in Queued : receipts[k] > 0} \cup {i}
    <3>1. Queued \subseteq JobIds
      BY DEF Queued
    <3> QED
      BY <1>4, <1>6, <2>1, <2>2, <3>1
  <2> QED
    BY <1>1, <1>2, <1>4, <1>6, <2>3 DEF Received
<1>a. /\ lost \cap {"session", "install"} = {} => Counted' = Counted \cup {p}
      /\ lost \cap {"session", "install"} # {} => Counted' = Counted
  <2>1. whole' = IF lost \cap {"session", "install"} = {} THEN whole \cup {i} ELSE whole
    BY <1>1, CommitWrites
  <2>2. \A k \in whole \cup {i} : job'[k].summary = job[k].summary
    BY <1>4, <1>6, WholeIsQueued
  <2> QED
    BY <1>1, <1>2, <2>1, <2>2 DEF Counted
<1>10. /\ DevicesByDay' \in {DevicesByDay, DevicesByDay \cup {<<s.day, s.install>>}}
       /\ "install" \notin lost => DevicesByDay' = DevicesByDay \cup {<<s.day, s.install>>}
  <2>1. /\ InstallCreated(s, lost) => uniqueInstall' = uniqueInstall \cup {InstallRow(s)}
        /\ ~InstallCreated(s, lost) => uniqueInstall' = uniqueInstall
    BY <1>1, <1>3, CommitWrites, InstallWritten
  <2>2. InstallRow(s).day = s.day /\ InstallRow(s).install = s.install
    BY DEF InstallRow
  <2>3. CASE InstallCreated(s, lost)
    BY <2>1, <2>2, <2>3 DEF DevicesByDay
  <2>4. CASE ~InstallCreated(s, lost)
    <3>1. DevicesByDay' = DevicesByDay
      BY <2>1, <2>4 DEF DevicesByDay
    <3>2. ASSUME "install" \notin lost PROVE <<s.day, s.install>> \in DevicesByDay
      <4>1. PICK u \in uniqueInstall : u.day = s.day /\ u.install = s.install
        BY <2>4, <3>2 DEF InstallCreated, InstallIsNew
      <4> QED
        BY <4>1 DEF DevicesByDay
    <3> QED
      BY <3>1, <3>2
  <2> QED
    BY <2>3, <2>4
<1>11. /\ SessionsByDay' \in {SessionsByDay, SessionsByDay \cup {<<s.day, s.session>>}}
       /\ "session" \notin lost => SessionsByDay' = SessionsByDay \cup {<<s.day, s.session>>}
  <2>1. /\ SessionCreated(s, lost) => uniqueSession' = uniqueSession \cup {SessionRow(s)}
        /\ ~SessionCreated(s, lost) => uniqueSession' = uniqueSession
    BY <1>1, <1>3, CommitWrites, SessionWritten
  <2>2. SessionRow(s).day = s.day /\ SessionRow(s).session = s.session
    BY DEF SessionRow
  <2>3. CASE SessionCreated(s, lost)
    BY <2>1, <2>2, <2>3 DEF SessionsByDay
  <2>4. CASE ~SessionCreated(s, lost)
    <3>1. SessionsByDay' = SessionsByDay
      BY <2>1, <2>4 DEF SessionsByDay
    <3>2. ASSUME "session" \notin lost PROVE <<s.day, s.session>> \in SessionsByDay
      <4>1. PICK u \in uniqueSession : u.day = s.day /\ u.session = s.session
        BY <2>4, <3>2 DEF SessionCreated, SessionIsNew
      <4> QED
        BY <4>1 DEF SessionsByDay
    <3> QED
      BY <3>1, <3>2
  <2> QED
    BY <2>3, <2>4
<1>12. Audience!DeviceOf(p) = <<s.day, s.install>> /\ Audience!SessionOf(p) = <<s.day, s.session>>
  BY <1>2 DEF Audience!DeviceOf, Audience!SessionOf
<1>13. CASE lost \cap {"session", "install"} = {}
  <2>1. "install" \notin lost /\ "session" \notin lost
    BY <1>13
  <2>2. Audience!Count(p)
    BY <1>7, <1>8, <1>9, <1>a, <1>10, <1>11, <1>12, <1>13, <2>1 DEF Audience!Count
  <2> QED
    BY <1>8, <2>2 DEF Audience!Next
<1>14. CASE lost \cap {"session", "install"} # {}
  <2>1. Audience!CountInPart(p)
    BY <1>7, <1>8, <1>9, <1>a, <1>10, <1>11, <1>12, <1>14 DEF Audience!CountInPart
  <2> QED
    BY <1>8, <2>1 DEF Audience!Next
<1> QED
  BY <1>13, <1>14

LEMMA StepsKeepTheAudience ==
  ASSUME Inductive, [Next]_vars
  PROVE  [Audience!Next]_Audience!vars
<1>1. CASE UNCHANGED vars
  BY <1>1, AudienceStays DEF vars, bull, tables, TablesAlone, SummariesStay, NoneAppears
<1>2. CASE \/ \E r \in Requests : \/ IpIncr(r) \/ IpExpire(r) \/ Validate(r)
                                  \/ InstallIncr(r) \/ InstallExpire(r)
                                  \/ EnqueueBeyondBound(r) \/ RequestFails(r)
           \/ \E r \in Requests, s \in Summary : Receive(r, s)
           \/ \E k \in Keys : WindowEnds(k)
  <2>1. UNCHANGED <<bull, tables>>
    BY <1>2 DEF IpIncr, IpExpire, Validate, InstallIncr, InstallExpire, Incr, Expire,
       EnqueueBeyondBound, RequestFails, Receive, WindowEnds
  <2> QED
    BY <2>1, AudienceStays DEF bull, tables, TablesAlone, SummariesStay, NoneAppears
<1>3. CASE \E r \in Requests, i \in JobIds : Enqueue(r, i)
  BY <1>3, EnqueueAccepts
<1>4. CASE \/ TakeJob
           \/ \E i \in JobIds : Complete(i) \/ JobFails(i) \/ BackoffEnds(i)
           \/ Crash
  BY <1>4, WaitingStays, AudienceStays
<1>5. CASE \E i \in JobIds, lost \in SUBSET Creates : Commit(i, lost)
  BY <1>5, CommitCounts
<1> QED
  BY <1>1, <1>2, <1>3, <1>4, <1>5 DEF Next, Request, Work

\* The ingestion implements DailyAudience: whatever is retried, overtaken, run again
\* after a restart, failed or lost in part, a summary is accepted once, what is taken in
\* was accepted, and no device or session of a day appears but by taking in a summary of
\* it, or goes; and one counted with no create lost is there.
THEOREM IngestKeepsTheAudience == Spec => KeepsTheAudience
<1>1. Init => Audience!Init
  <2> SUFFICES ASSUME Init PROVE Audience!Init
    OBVIOUS
  <2>1. Queued = {}
    BY DEF Init, Queued
  <2> QED
    BY <2>1 DEF Init, Audience!Init, Accepted, Received, Counted, DevicesByDay,
       SessionsByDay
<1> QED
  BY <1>1, InductiveHolds, StepsKeepTheAudience, PTL DEF Spec, KeepsTheAudience, Audience!Spec

\* "Garante que uma instalação não seja contada mais de uma vez por dia": the devices
\* and sessions of a day are of the summaries taken in, and have all of those counted
\* with no create lost.
THEOREM AudienceIsTrue == Spec => []Audience!AudienceIsOfSummaries
<1>1. Audience!Init => Audience!AudienceIsOfSummaries
  BY DEF Audience!Init, Audience!AudienceIsOfSummaries
<1>2. Audience!AudienceIsOfSummaries /\ [Audience!Next]_Audience!vars
        => Audience!AudienceIsOfSummaries'
  <2> SUFFICES ASSUME Audience!AudienceIsOfSummaries, [Audience!Next]_Audience!vars
               PROVE  Audience!AudienceIsOfSummaries'
    OBVIOUS
  <2> USE DEF Audience!AudienceIsOfSummaries
  <2>1. CASE UNCHANGED Audience!vars
    BY <2>1 DEF Audience!vars
  <2>2. ASSUME NEW p, Audience!Accept(p) PROVE Audience!AudienceIsOfSummaries'
    BY <2>2 DEF Audience!Accept
  <2>3. ASSUME NEW p, Audience!Count(p) PROVE Audience!AudienceIsOfSummaries'
    BY <2>3 DEF Audience!Count
  <2>4. ASSUME NEW p, Audience!CountInPart(p) PROVE Audience!AudienceIsOfSummaries'
    BY <2>4 DEF Audience!CountInPart
  <2> QED
    BY <2>1, <2>2, <2>3, <2>4 DEF Audience!Next
<1> QED
  BY <1>1, <1>2, IngestKeepsTheAudience, PTL DEF KeepsTheAudience, Audience!Spec
====
