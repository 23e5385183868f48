------------------------------ MODULE MCAnalytics ------------------------------
(***************************************************************************)
(* An instance of AnalyticsIngest and of the panel on it, in three parts:  *)
(* "ingest", where two summaries of one install come in over two days; and *)
(* two where the worker finds two summaries, of two days and two versions, *)
(* in the queue: "lost", of one install, where creates fail inside         *)
(* transactions, and "panel", of one install or two, where the panel reads *)
(* the rows meanwhile.                                                     *)
(***************************************************************************)
EXTENDS AnalyticsAudience

CONSTANTS r1, n1, n2, s1, v1, v2

VARIABLE part

\* In the other parts the process starts with what Redis holds: a full queue, whose
\* first summary is of n1, for the installs are alike.  The panel reads when the bounds
\* on faults are used up.
PartInit ==
  \/ part = "ingest" /\ PanelInit
  \/ /\ part \in {"lost", "panel"} /\ panel = Idle
     /\ count = [k \in Keys |-> 0] /\ expires = {}
     /\ req = [r \in Requests |-> At("idle", NoSummary)]
     /\ job \in [JobIds -> {Job(s, "waiting", 0, 0) : s \in Summary}]
     /\ \A i \in JobIds : (i = 1 \/ part = "lost") => job[i].summary.install = n1
     /\ queue = [k \in JobIds |-> k]
     /\ uniqueSession = {} /\ uniqueInstall = {} /\ whole = {}
     /\ firstSeen = [n \in Installs |-> Unseen]
     /\ daily = [c \in Days \X Versions |-> [sessions |-> 0, installs |-> 0]]
     /\ views = [c \in Days \X Versions |-> 0]
     /\ receipts = [i \in JobIds |-> 0]
     /\ failures = (IF part = "lost" THEN 0 ELSE MaxFailures)
     /\ crashes = (IF part = "lost" THEN 0 ELSE MaxCrashes)

\* Only the summaries of n1 in v1 are sent, and in the first part alone.  The panel is
\* asked by midnights alone, since the audience cuts a period to its days.
PartNext ==
  /\ \/ part \in {"ingest", "lost"} /\ Next /\ UNCHANGED panel
     \/ part = "panel" /\ PanelNext
  /\ part = "ingest" /\ receipts' # receipts => failures' = failures
  /\ \A r \in Requests : req'[r].phase # "idle" =>
       /\ part = "ingest"
       /\ req'[r].summary.install = n1 /\ req'[r].summary.version = v1
  /\ panel' # Idle =>
       \A t \in {panel'.query.from, panel'.query.to} : t = Midnight(DayOf(t))
  /\ UNCHANGED part

PartSpec == PartInit /\ [][PartNext]_<<vars, panel, part>> /\ Fairness

\* The daily counters and the first appearances say what the tables of unique sessions
\* and installs hold, one row a day of an install at most, whatever was retried,
\* overtaken or lost.
RowsAgree == CountersMatchRows /\ OneDeviceDay

\* The figures that the panel computes in two ways, or shows side by side, agree.
PanelAgrees == NewDevicesAreDevices /\ DeviceDaysAreCounted

\* The audience that the tables stand for: what was accepted, what has a receipt, what
\* was counted whole, and the pairs under the unique keys, whatever version a row names.
Accepted      == {<<i, job[i].summary>> : i \in Queued}
Received      == {<<i, job[i].summary>> : i \in {j \in Queued : receipts[j] > 0}}
Counted       == {<<i, job[i].summary>> : i \in whole}
DevicesByDay  == {<<u.day, u.install>> : u \in uniqueInstall}
SessionsByDay == {<<u.day, u.session>> : u \in uniqueSession}

Audience == INSTANCE DailyAudience WITH
  Ids <- JobIds, Summaries <- Summary, accepted <- Accepted, received <- Received,
  counted <- Counted, devices <- DevicesByDay, sessions <- SessionsByDay

\* The ingestion implements DailyAudience: a retry, a summary overtaken by another or a
\* job run again after its commit changes nothing that was promised.
KeepsTheAudience == Audience!Spec
====
