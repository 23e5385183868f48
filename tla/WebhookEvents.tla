----------------------------- MODULE WebhookEvents -----------------------------
(***************************************************************************)
(* Events of M7 about vehicles: the endpoint queues them, and the worker   *)
(* of the queue webhook-events stores the event and notifies the users of  *)
(* the vehicle one after the other, each by a row and a push of Expo.      *)
(* BullMQ is set up for three attempts.  The code that the job runs        *)
(* catches every error, so only a restart of the process repeats a job.    *)
(***************************************************************************)
EXTENDS Naturals, Sequences, FiniteSets

CONSTANTS
  Vehicles,
  Users,
  UsersOf,      \* users with an active UserVehicle row of the vehicle
  MaxEvents,    \* bound: events ever queued
  MaxChanges,   \* bound: changes of the users' preferences and tokens
  MaxFailures,  \* bound: calls of the database that fail
  MaxCrashes    \* bound: restarts of the process

\* What the constants are.
WebhookAssumption ==
  /\ UsersOf \in [Vehicles -> SUBSET Users]
  /\ MaxEvents \in Nat /\ MaxChanges \in Nat /\ MaxFailures \in Nat /\ MaxCrashes \in Nat

MaxStalledCount == 1

JobIds == 1..MaxEvents
Kinds  == {"ignition", "anchor", "other"}
Scopes == {"cliente", "other"}
Event  == [vehicle : Vehicles, kind : Kinds, scope : Scopes]
NoJob  == [phase |-> "none"]

VARIABLES
  pref,      \* User.notificacaoIgnicao
  token,     \* User.expoPushToken: there is a valid one
  job,       \* the jobs, by number
  queue,     \* numbers of the jobs that wait, in order
  saved,     \* VehicleWebhookEvent rows, by job
  rows,      \* Notification rows, by job and user
  pushes,    \* pushes that Expo delivered, by job and user
  changes,
  failures,
  crashes

bull   == <<job, queue>>
tables == <<saved, rows>>
people == <<pref, token>>
faults == <<failures, crashes>>
vars   == <<people, bull, tables, pushes, changes, faults>>

Init ==
  /\ pref \in [Users -> BOOLEAN] /\ token \in [Users -> BOOLEAN]
  /\ job = [i \in JobIds |-> NoJob]
  /\ queue = <<>>
  /\ saved = [i \in JobIds |-> 0]
  /\ rows = [i \in JobIds |-> [u \in Users |-> 0]]
  /\ pushes = [i \in JobIds |-> [u \in Users |-> 0]]
  /\ changes = 0 /\ failures = 0 /\ crashes = 0

Queued == {i \in JobIds : job[i] # NoJob}
Active == {i \in Queued : job[i].phase \in {"save", "read", "next", "row", "push"}}
SetJob(i, phase) == job' = [job EXCEPT ![i].phase = phase]

\* A user switches the alert of the ignition, or signs in or out of the push.
SetPref(u) ==
  /\ changes < MaxChanges
  /\ changes' = changes + 1
  /\ pref' = [pref EXCEPT ![u] = ~@]
  /\ UNCHANGED <<token, bull, tables, pushes, faults>>
SetToken(u) ==
  /\ changes < MaxChanges
  /\ changes' = changes + 1
  /\ token' = [token EXCEPT ![u] = ~@]
  /\ UNCHANGED <<pref, bull, tables, pushes, faults>>

\* POST webhook-m7
Webhook(i, e) ==
  /\ i \notin Queued /\ \A k \in JobIds : k < i => k \in Queued
  /\ job' = [job EXCEPT ![i] =
       [event |-> e, phase |-> "waiting", todo |-> {}, user |-> {}, stalls |-> 0]]
  /\ queue' = Append(queue, i)
  /\ UNCHANGED <<people, tables, pushes, changes, faults>>

TakeJob ==
  /\ queue # <<>> /\ Active = {}
  /\ SetJob(Head(queue), "save")
  /\ queue' = Tail(queue)
  /\ UNCHANGED <<people, tables, pushes, changes, faults>>

\* saveM7WebhookEvent: only events of the scope cliente are stored.
Save(i) ==
  /\ job[i].phase = "save"
  /\ saved' = IF job[i].event.scope = "cliente" THEN [saved EXCEPT ![i] = @ + 1]
                                                ELSE saved
  /\ SetJob(i, "read")
  /\ UNCHANGED <<people, queue, rows, pushes, changes, faults>>

\* "Nunca lanca erro": the error is logged and the job goes on.
SaveFails(i) ==
  /\ job[i].phase = "save" /\ job[i].event.scope = "cliente"
  /\ failures < MaxFailures
  /\ failures' = failures + 1
  /\ SetJob(i, "read")
  /\ UNCHANGED <<people, queue, tables, pushes, changes, crashes>>

\* Who is notified: users of the vehicle with the preference and with a token.
Recipients(e) ==
  IF e.kind = "other" THEN {}
  ELSE {u \in UsersOf[e.vehicle] : pref[u] /\ token[u]}

ReadRecipients(i) ==
  /\ job[i].phase = "read"
  /\ job' = [job EXCEPT ![i].phase = "next", ![i].todo = Recipients(job[i].event)]
  /\ UNCHANGED <<people, queue, tables, pushes, changes, faults>>

\* Mutant: a user whose preference is off by now stays the next one.
SkippedUserStays(i, u) ==
  /\ job[i].phase = "next" /\ u \in job[i].todo
  /\ LET skipped == job[i].event.kind = "ignition" /\ ~pref[u]
     IN job' = [job EXCEPT ![i].todo = IF skipped THEN @ ELSE @ \ {u},
                           ![i].user = {u},
                           ![i].phase = IF skipped THEN "next" ELSE "row"]
  /\ UNCHANGED <<people, queue, tables, pushes, changes, faults>>

\* sendPushNotification of the next user reads the preference again, for ignition.
NextUser(i, u) ==
  /\ job[i].phase = "next" /\ u \in job[i].todo
  /\ job' = [job EXCEPT
       ![i].todo = @ \ {u},
       ![i].user = {u},
       ![i].phase = IF job[i].event.kind = "ignition" /\ ~pref[u] THEN "next" ELSE "row"]
  /\ UNCHANGED <<people, queue, tables, pushes, changes, faults>>

\* saveNotification, before the push.
SaveRow(i, u) ==
  /\ job[i].phase = "row" /\ job[i].user = {u}
  /\ rows' = [rows EXCEPT ![i][u] = @ + 1]
  /\ SetJob(i, "push")
  /\ UNCHANGED <<people, queue, saved, pushes, changes, faults>>

\* A call of the database in the loop throws: the rest of the users is left out,
\* the error is logged and the job is complete.
ReadFails(i) ==
  /\ job[i].phase \in {"read", "next", "row"}
  /\ failures < MaxFailures
  /\ failures' = failures + 1
  /\ SetJob(i, "done")
  /\ UNCHANGED <<people, queue, tables, pushes, changes, crashes>>

\* Mutant: an error of Expo ends the loop.
PushFailsForAll(i, u) ==
  /\ job[i].phase = "push" /\ job[i].user = {u}
  /\ \E delivered \in 0..1 : pushes' = [pushes EXCEPT ![i][u] = @ + delivered]
  /\ job' = [job EXCEPT ![i].phase = "next", ![i].todo = {}]
  /\ UNCHANGED <<people, queue, tables, changes, faults>>

\* Expo delivers the push or answers with an error; either way the next user follows.
Push(i, u) ==
  /\ job[i].phase = "push" /\ job[i].user = {u}
  /\ \E delivered \in 0..1 : pushes' = [pushes EXCEPT ![i][u] = @ + delivered]
  /\ SetJob(i, "next")
  /\ UNCHANGED <<people, queue, tables, changes, faults>>

Complete(i) ==
  /\ job[i].phase = "next" /\ job[i].todo = {}
  /\ SetJob(i, "done")
  /\ UNCHANGED <<people, queue, tables, pushes, changes, faults>>

\* The process restarts.  BullMQ queues the stalled job again once, from its start,
\* and fails it the second time.
Crash ==
  LET again == {i \in Active : job[i].stalls < MaxStalledCount} IN
  /\ crashes < MaxCrashes
  /\ crashes' = crashes + 1
  /\ job' = [i \in JobIds |->
       IF i \in again THEN [job[i] EXCEPT !.phase = "waiting", !.stalls = @ + 1]
       ELSE IF i \in Active THEN [job[i] EXCEPT !.phase = "failed"] ELSE job[i]]
  /\ queue' = IF again = {} THEN queue ELSE <<CHOOSE i \in again : TRUE>> \o queue
  /\ UNCHANGED <<people, tables, pushes, changes, failures>>

Work(i) ==
  \/ Save(i) \/ SaveFails(i) \/ ReadRecipients(i) \/ ReadFails(i) \/ Complete(i)
  \/ \E u \in Users : NextUser(i, u) \/ SaveRow(i, u) \/ Push(i, u)

Next ==
  \/ \E u \in Users : SetPref(u) \/ SetToken(u)
  \/ \E i \in JobIds, e \in Event : Webhook(i, e)
  \/ TakeJob
  \/ \E i \in JobIds : Work(i)
  \/ Crash

Spec == Init /\ [][Next]_vars

\* The worker takes jobs and Node runs the continuations of the one it took.
Fairness == WF_vars(TakeJob) /\ \A i \in JobIds : WF_vars(Work(i))

FairSpec == Spec /\ Fairness

-----------------------------------------------------------------------------
(* Properties *)

\* "Salvar no banco ANTES de enviar": the app finds a row of every push it got, even
\* if the database failed or the process stopped in the loop.
PushHasRow == \A i \in JobIds, u \in Users : pushes[i][u] <= rows[i][u]

\* The users of a vehicle do not depend on each other: as long as the database
\* answers, a job that is done has a row for each of them, whatever Expo answered.
EveryoneHasRow ==
  failures = 0 /\ changes = 0 =>
    \A i \in Queued : job[i].phase = "done" =>
      \A u \in Recipients(job[i].event) : rows[i][u] > 0

\* A queued event comes to its end, through errors and restarts.
JobEnds ==
  \A i \in JobIds : i \in Queued ~> job[i].phase \in {"done", "failed"}
-----------------------------------------------------------------------------
(* The inductive invariant: a user who is being notified has a row more than *)
(* pushes, and no recipient is lost between the set read and the rows.       *)

JobState == [event : Event, phase : {"waiting", "save", "read", "next", "row", "push",
                                     "done", "failed"},
             todo : SUBSET Users, user : SUBSET Users, stalls : Nat]

\* Every variable keeps its type, and the queue holds numbers of jobs.
TypeOK ==
  /\ pref \in [Users -> BOOLEAN] /\ token \in [Users -> BOOLEAN]
  /\ DOMAIN job = JobIds /\ \A i \in Queued : job[i] \in JobState
  /\ queue \in Seq(Queued)
  /\ saved \in [JobIds -> Nat]
  /\ rows \in [JobIds -> [Users -> Nat]]
  /\ pushes \in [JobIds -> [Users -> Nat]]
  /\ changes \in Nat /\ failures \in Nat /\ crashes \in Nat

\* A push follows its row.
RowsLead(i) ==
  /\ \A u \in Users : pushes[i][u] <= rows[i][u]
  /\ job[i].phase = "push" => \A u \in job[i].user : pushes[i][u] < rows[i][u]

\* Once they are read, a recipient is to come, is served, or has a row.
NobodyIsLost(i) ==
  /\ job[i].phase \in {"next", "row", "push", "done"} =>
       \A u \in Recipients(job[i].event) :
         \/ u \in job[i].todo
         \/ job[i].phase = "row" /\ u \in job[i].user
         \/ rows[i][u] > 0
  /\ job[i].phase = "done" => job[i].todo = {}

Inductive ==
  /\ TypeOK
  /\ \A i \in JobIds : RowsLead(i)
  /\ failures = 0 /\ changes = 0 => \A i \in Queued : NobodyIsLost(i)
=============================================================================
