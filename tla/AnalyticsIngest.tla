---------------------------- MODULE AnalyticsIngest ----------------------------
(***************************************************************************)
(* Usage summaries of the app: AnalyticsService.ingest, which counts the   *)
(* request against two Redis counters and queues it, and the processor of  *)
(* the queue analytics-summaries, which adds it to the daily tables in one *)
(* transaction.                                                            *)
(*                                                                         *)
(* An install belongs to one platform, so one platform and one address are *)
(* the whole of it.  Screens, actions and forms are added the same way and *)
(* stand as one count, views.  A summary brings one of them.  BullMQ is    *)
(* modelled as the options of the code set it up: three attempts, one      *)
(* stall allowed, one job at a time.                                       *)
(***************************************************************************)
EXTENDS Naturals, Sequences, FiniteSets

CONSTANTS
  Requests,          \* POST /analytics/summaries in flight together
  Days,              \* days of Sao Paulo, as numbers
  Installs,          \* installHash values
  Sessions,          \* sessionHash values
  Versions,          \* appVersion values
  RateLimitEnabled,  \* ANALYTICS_RATE_LIMIT_ENABLED
  IpMax,             \* RATE_LIMIT_IP_MAX, 10 in the code
  InstallMax,        \* RATE_LIMIT_INSTALL_MAX, 20 in the code
  MaxCount,          \* bound: no body arrives while a counter is beyond it
  MaxSummaries,      \* bound: summaries ever queued
  MaxFailures,       \* bound: failures of the database
  MaxCrashes         \* bound: restarts of the process

ASSUME AnalyticsAssumption ==
  /\ Days \subseteq Nat
  /\ RateLimitEnabled \in BOOLEAN
  /\ IpMax \in Nat \ {0} /\ InstallMax \in Nat \ {0}
  /\ MaxCount \in Nat /\ MaxSummaries \in Nat /\ MaxFailures \in Nat /\ MaxCrashes \in Nat
  /\ "ip" \notin Installs

MaxAttempts     == 3
MaxStalledCount == 1

JobIds == 1..MaxSummaries
Keys   == Installs \cup {"ip"}
Limit(k) == IF k = "ip" THEN IpMax ELSE InstallMax

Summary == [day : Days, install : Installs, session : Sessions, version : Versions]
NoSummary == [day |-> "none"]
NoJob     == [phase |-> "none"]
Unseen    == [day |-> "never"]

VARIABLES
  count,          \* Redis: analytics:rl:*, 0 where there is no key
  expires,        \* Redis: keys with a time to live
  req,            \* where each request stands
  job,            \* the jobs, by number
  queue,          \* numbers of the jobs that wait, in order
  uniqueSession,  \* AnalyticsDailyUniqueSession
  uniqueInstall,  \* AnalyticsDailyUniqueInstall
  firstSeen,      \* AnalyticsInstallFirstSeen
  daily,          \* AnalyticsSessionDaily
  views,          \* AnalyticsScreenDaily, ActionDaily and FormDaily
  receipts,       \* AnalyticsSummaryReceipt rows, by the job that wrote them
  failures,
  crashes,
  whole           \* history: jobs that a transaction counted with no create lost

redis  == <<count, expires>>
bull   == <<job, queue>>
tables == <<uniqueSession, uniqueInstall, firstSeen, daily, views, receipts, whole>>
faults == <<failures, crashes>>
vars   == <<redis, req, bull, tables, faults>>

At(phase, s) == [phase |-> phase, summary |-> s]
Job(s, phase, attempts, stalls) ==
  [summary |-> s, phase |-> phase, attempts |-> attempts, stalls |-> stalls]

Init ==
  /\ count = [k \in Keys |-> 0]
  /\ expires = {}
  /\ req = [r \in Requests |-> At("idle", NoSummary)]
  /\ job = [i \in JobIds |-> NoJob]
  /\ queue = <<>>
  /\ uniqueSession = {}
  /\ uniqueInstall = {}
  /\ firstSeen = [n \in Installs |-> Unseen]
  /\ daily = [c \in Days \X Versions |-> [sessions |-> 0, installs |-> 0]]
  /\ views = [c \in Days \X Versions |-> 0]
  /\ receipts = [i \in JobIds |-> 0]
  /\ failures = 0
  /\ crashes = 0
  /\ whole = {}

Goto(r, phase) == req' = [req EXCEPT ![r].phase = phase]
End(r)         == req' = [req EXCEPT ![r] = At("idle", NoSummary)]
Queued         == {i \in JobIds : job[i] # NoJob}

-----------------------------------------------------------------------------
(* ingest *)

\* A body arrives.  One that is too large is refused before anything counts it.
Receive(r, s) ==
  /\ req[r].phase = "idle"
  /\ \A k \in Keys : count[k] <= MaxCount
  /\ req' = [req EXCEPT ![r] = At(IF RateLimitEnabled THEN "ip" ELSE "add", s)]
  /\ UNCHANGED <<redis, bull, tables, faults>>

\* Of a counter over its limit the request is refused; else it goes on.
Judge(r, k, next) == IF count'[k] > Limit(k) THEN End(r) ELSE Goto(r, next)

\* incr of key k: the first of a window goes on to set the time to live.
Incr(r, k, expire, next) ==
  /\ count' = [count EXCEPT ![k] = @ + 1]
  /\ IF count'[k] = 1 THEN Goto(r, expire) ELSE Judge(r, k, next)
  /\ UNCHANGED <<expires, bull, tables, faults>>

\* Mutant: no time to live is set.
ExpireNothing(r, k, next) ==
  /\ Goto(r, next)
  /\ UNCHANGED <<redis, bull, tables, faults>>

Expire(r, k, next) ==
  /\ expires' = expires \cup {k}
  /\ Goto(r, next)
  /\ UNCHANGED <<count, bull, tables, faults>>

IpIncr(r)   == req[r].phase = "ip" /\ Incr(r, "ip", "ipExpire", "validate")
IpExpire(r) == req[r].phase = "ipExpire" /\ Expire(r, "ip", "validate")

\* Prohibited keys, the schema and the dates are looked at after the address.
Validate(r) ==
  /\ req[r].phase = "validate"
  /\ Goto(r, "install") \/ End(r)
  /\ UNCHANGED <<redis, bull, tables, faults>>

InstallIncr(r) ==
  /\ req[r].phase = "install"
  /\ Incr(r, req[r].summary.install, "installExpire", "add")
InstallExpire(r) ==
  /\ req[r].phase = "installExpire"
  /\ Expire(r, req[r].summary.install, "add")

\* analyticsQueue.add
Enqueue(r, i) ==
  /\ req[r].phase = "add"
  /\ i \notin Queued /\ \A k \in JobIds : k < i => k \in Queued
  /\ job' = [job EXCEPT ![i] = Job(req[r].summary, "waiting", 0, 0)]
  /\ queue' = Append(queue, i)
  /\ End(r)
  /\ UNCHANGED <<redis, tables, faults>>

\* Bound: no job beyond MaxSummaries.
EnqueueBeyondBound(r) ==
  /\ req[r].phase = "add"
  /\ Queued = JobIds
  /\ End(r)
  /\ UNCHANGED <<redis, bull, tables, faults>>

\* Redis does not answer one of the calls: 500, and what was done stays done.
RequestFails(r) ==
  /\ req[r].phase \notin {"idle", "validate"}
  /\ failures < MaxFailures
  /\ failures' = failures + 1
  /\ End(r)
  /\ UNCHANGED <<redis, bull, tables, crashes>>

\* Redis: the time to live of a key is over.
WindowEnds(k) ==
  /\ k \in expires
  /\ count' = [count EXCEPT ![k] = 0]
  /\ expires' = expires \ {k}
  /\ UNCHANGED <<req, bull, tables, faults>>

-----------------------------------------------------------------------------
(* AnalyticsIngestProcessor *)

SetJob(i, phase) == job' = [job EXCEPT ![i].phase = phase]
Active == {i \in Queued : job[i].phase \in {"active", "committed"}}

TakeJob ==
  /\ queue # <<>>
  /\ Active = {}
  /\ SetJob(Head(queue), "active")
  /\ queue' = Tail(queue)
  /\ UNCHANGED <<redis, req, tables, faults>>

\* The unique keys leave the version out.
SessionIsNew(s) ==
  \A u \in uniqueSession : u.day = s.day => u.session # s.session

\* Mutant: the version is part of the uniqueness of an install.
InstallIsNewInVersion(s) ==
  \A u \in uniqueInstall :
    u.day = s.day /\ u.version = s.version => u.install # s.install

InstallIsNew(s) ==
  \A u \in uniqueInstall : u.day = s.day => u.install # s.install

\* The creates whose failure the transaction swallows, whatever failed.
Creates == {"session", "install", "firstSeen"}

\* sessionIsNew and installIsNew: the create went through.
SessionCreated(s, lost) == "session" \notin lost /\ SessionIsNew(s)
InstallCreated(s, lost) == "install" \notin lost /\ InstallIsNew(s)

Plus(n, new) == IF new THEN n + 1 ELSE n

CountSession(s, lost) ==
  uniqueSession' = IF SessionCreated(s, lost)
    THEN uniqueSession \cup
           {[day |-> s.day, session |-> s.session, version |-> s.version]}
    ELSE uniqueSession

\* The first appearance is the first one processed, unless its create is lost.
CountInstall(s, lost) ==
  IF InstallCreated(s, lost)
  THEN /\ uniqueInstall' = uniqueInstall \cup
            {[day |-> s.day, install |-> s.install, version |-> s.version]}
       /\ firstSeen' = [firstSeen EXCEPT ![s.install] =
            IF @ = Unseen /\ "firstSeen" \notin lost
            THEN [day |-> s.day, version |-> s.version] ELSE @]
  ELSE UNCHANGED <<uniqueInstall, firstSeen>>

CountDaily(s, lost) ==
  daily' = [daily EXCEPT ![<<s.day, s.version>>] =
    [sessions |-> Plus(@.sessions, SessionCreated(s, lost)),
     installs |-> Plus(@.installs, InstallCreated(s, lost))]]

\* The transaction.  The creates in lost fail for another reason than a row that is
\* there, which nothing tells apart.  payloadHash is stored and not looked for.
Commit(i, lost) ==
  LET s == job[i].summary IN
  /\ job[i].phase = "active"
  /\ failures + Cardinality(lost) <= MaxFailures
  /\ failures' = failures + Cardinality(lost)
  /\ receipts' = [receipts EXCEPT ![i] = @ + 1]
  /\ CountSession(s, lost) /\ CountInstall(s, lost) /\ CountDaily(s, lost)
  /\ views' = [views EXCEPT ![<<s.day, s.version>>] = @ + 1]
  /\ whole' = IF lost \cap {"session", "install"} = {} THEN whole \cup {i} ELSE whole
  /\ SetJob(i, "committed")
  /\ UNCHANGED <<redis, req, queue, crashes>>

Complete(i) ==
  /\ job[i].phase = "committed"
  /\ SetJob(i, "done")
  /\ UNCHANGED <<redis, req, queue, tables, faults>>

\* Mutant: the option attempts is left out, so the first failure is the last.
ThrownAtOnce(j) == "failed"

\* BullMQ: the attempt threw; it is retried after a pause, three in all.
Thrown(j) == IF j.attempts + 1 < MaxAttempts THEN "delayed" ELSE "failed"

\* Mutant: what the attempt had written is not rolled back.
JobFailsHalfway(i) ==
  /\ job[i].phase \in {"active", "committed"}
  /\ failures < MaxFailures
  /\ failures' = failures + 1
  /\ job' = [job EXCEPT ![i] = [job[i] EXCEPT !.phase = Thrown(job[i]),
                                              !.attempts = @ + 1]]
  /\ UNCHANGED <<redis, req, queue, tables, crashes>>

\* The transaction is rolled back, and the job throws.
JobFails(i) ==
  /\ job[i].phase = "active"
  /\ failures < MaxFailures
  /\ failures' = failures + 1
  /\ job' = [job EXCEPT ![i] = [job[i] EXCEPT !.phase = Thrown(job[i]),
                                              !.attempts = @ + 1]]
  /\ UNCHANGED <<redis, req, queue, tables, crashes>>

BackoffEnds(i) ==
  /\ job[i].phase = "delayed"
  /\ SetJob(i, "waiting")
  /\ queue' = Append(queue, i)
  /\ UNCHANGED <<redis, req, tables, faults>>

\* The process restarts.  The active job is stalled: queued again once, and
\* failed the second time; the requests in flight are lost.
Crash ==
  LET again == {i \in Active : job[i].stalls < MaxStalledCount} IN
  /\ crashes < MaxCrashes
  /\ crashes' = crashes + 1
  /\ req' = [r \in Requests |-> At("idle", NoSummary)]
  /\ job' = [i \in JobIds |->
       IF i \in again THEN [job[i] EXCEPT !.phase = "waiting", !.stalls = @ + 1]
       ELSE IF i \in Active THEN [job[i] EXCEPT !.phase = "failed"] ELSE job[i]]
  /\ queue' = IF again = {} THEN queue
               ELSE <<CHOOSE i \in again : TRUE>> \o queue
  /\ UNCHANGED <<redis, tables, failures>>

Request(r) ==
  \/ IpIncr(r) \/ IpExpire(r) \/ Validate(r) \/ InstallIncr(r) \/ InstallExpire(r)
  \/ EnqueueBeyondBound(r) \/ \E i \in JobIds : Enqueue(r, i)

Work(i) ==
  \/ \E lost \in SUBSET Creates : Commit(i, lost)
  \/ Complete(i) \/ JobFails(i) \/ BackoffEnds(i)

Next ==
  \/ \E r \in Requests : Request(r) \/ RequestFails(r)
  \/ \E r \in Requests, s \in Summary : Receive(r, s)
  \/ TakeJob
  \/ \E i \in JobIds : Work(i)
  \/ \E k \in Keys : WindowEnds(k)
  \/ Crash

Spec == Init /\ [][Next]_vars

\* Node runs continuations, BullMQ takes and retries jobs, Redis drops keys.
Fairness ==
  /\ \A r \in Requests : WF_vars(Request(r))
  /\ WF_vars(TakeJob)
  /\ \A i \in JobIds : WF_vars(Work(i))
  /\ \A k \in Keys : WF_vars(WindowEnds(k))

FairSpec == Spec /\ Fairness

-----------------------------------------------------------------------------
(* Properties *)

\* The daily counters say how many rows the tables of unique sessions and
\* installs hold, whatever was retried, overtaken, run twice or lost.
CountersMatchRows ==
  \A d \in Days, v \in Versions :
    daily[<<d, v>>] =
      [sessions |-> Cardinality({u \in uniqueSession : u.day = d /\ u.version = v}),
       installs |-> Cardinality({u \in uniqueInstall : u.day = d /\ u.version = v})]

\* "Um aparelho por dia": an install has at most one row of a day, even if it changed
\* versions, and one if a summary of that day was counted with no create lost; and its
\* first appearance is such a row.
OneDeviceDay ==
  /\ \A d \in Days, n \in Installs :
       Cardinality({u \in uniqueInstall : u.day = d /\ u.install = n}) <= 1
  /\ \A i \in whole :
       LET s == job[i].summary IN
       \E u \in uniqueInstall : u.day = s.day /\ u.install = s.install
  /\ \A n \in Installs : firstSeen[n] # Unseen =>
       [day |-> firstSeen[n].day, install |-> n, version |-> firstSeen[n].version]
         \in uniqueInstall

\* A summary is added to the tables once, for all the retries of its job, as
\* long as no restart comes between the commit and the end of the job.
CountedOnce == crashes = 0 => \A i \in JobIds : receipts[i] <= 1

\* A summary answered with 'accepted' has its receipt in the end, in whatever order
\* the retries come, unless the attempts or the stalls of a job are used up: a job that
\* was queued stays so, and again and again what is queued has been committed.
AcceptedIsCounted ==
  \A i \in JobIds :
    []<>(i \in Queued => \/ receipts[i] > 0
                         \/ failures >= MaxAttempts \/ crashes > MaxStalledCount)

\* Who is over a limit is let through again, and again, as the windows of a minute
\* and of an hour end: unless something failed between incr and expire.
BlockIsLifted ==
  \A k \in Keys : []<>(count[k] <= Limit(k) \/ failures + crashes > 0)

-----------------------------------------------------------------------------
(* The inductive invariant behind them.                                    *)

RequestPhases == {"ip", "ipExpire", "validate", "install", "installExpire", "add"}
JobRecords ==
  [summary : Summary,
   phase : {"waiting", "active", "committed", "delayed", "failed", "done"},
   attempts : Nat, stalls : Nat]
Standing == [phase : RequestPhases, summary : Summary] \cup {At("idle", NoSummary)}
Cells    == Days \X Versions

TypeOK ==
  /\ count \in [Keys -> Nat] /\ expires \in SUBSET Keys
  /\ req \in [Requests -> Standing]
  /\ job \in [JobIds -> JobRecords \cup {NoJob}]
  /\ queue \in Seq(JobIds)
  /\ uniqueSession \in SUBSET [day : Days, session : Sessions, version : Versions]
  /\ uniqueInstall \in SUBSET [day : Days, install : Installs, version : Versions]
  /\ firstSeen \in [Installs -> [day : Days, version : Versions] \cup {Unseen}]
  /\ daily \in [Cells -> [sessions : Nat, installs : Nat]]
  /\ views \in [Cells -> Nat]
  /\ receipts \in [JobIds -> Nat]
  /\ failures \in Nat /\ crashes \in Nat
  /\ whole \in SUBSET JobIds

\* A job waits in the queue once.
QueueOK ==
  /\ \A k \in 1..Len(queue) : job[queue[k]].phase = "waiting"
  /\ \A k, l \in 1..Len(queue) : queue[k] = queue[l] => k = l

\* The tables of unique keys are finite, and the counters count them.
CountersOK ==
  /\ IsFiniteSet(uniqueSession) /\ IsFiniteSet(uniqueInstall)
  /\ CountersMatchRows

\* An install has one row of a day at most, and one if a summary of that day was
\* counted whole.
DevicesOK ==
  /\ \A u, w \in uniqueInstall : u.day = w.day /\ u.install = w.install => u = w
  /\ \A i \in JobIds : receipts[i] > 0 => job[i] # NoJob
  /\ \A i \in whole :
       /\ receipts[i] > 0
       /\ \E u \in uniqueInstall : /\ u.day = job[i].summary.day
                                   /\ u.install = job[i].summary.install
  /\ \A n \in Installs : firstSeen[n] # Unseen =>
       [day |-> firstSeen[n].day, install |-> n, version |-> firstSeen[n].version]
         \in uniqueInstall

\* Without a restart, a job that was counted never runs again.
ReceiptsOK ==
  crashes = 0 => \A i \in JobIds :
    /\ receipts[i] <= 1
    /\ receipts[i] > 0 => job[i].phase \in {"committed", "done"}

Inductive == TypeOK /\ QueueOK /\ CountersOK /\ DevicesOK /\ ReceiptsOK
====
