--------------------------- MODULE AnalyticsAudience ---------------------------
(***************************************************************************)
(* The panel on the rows that AnalyticsIngest keeps.  getDashboardAudience *)
(* asks four queries at once and outside a transaction, so a summary may   *)
(* be counted between two of them; getDashboardSessions asks one.  A query *)
(* names a period, by two instants, and a version or none.  The query for  *)
(* the unique sessions is left out: nothing is compared with its rows.     *)
(***************************************************************************)
EXTENDS AnalyticsIngest, Integers

CONSTANT CutsToDays   \* whether Prisma cuts an instant that it compares with a DATE column

ASSUME AudienceAssumption == CutsToDays \in BOOLEAN

VARIABLE panel   \* the request for the audience under way, and the rows it has read

\* Two instants of each day: its midnight in UTC, and one later in the day.
Midnight(d) == 2 * d
Instants    == {Midnight(d) : d \in Days} \cup {Midnight(d) + 1 : d \in Days}
DayOf(t)    == t \div 2

AnyVersion == "any"
Queries == {q \in [from : Instants, to : Instants, version : Versions \cup {AnyVersion}] :
              q.from <= q.to}

\* The audience cuts both ends to days.  The sessions hand the instants themselves over,
\* which are compared with the midnight of a day unless Prisma cuts them.
InDays(q, day)     == DayOf(q.from) <= day /\ day <= DayOf(q.to)
InInstants(q, day) ==
  IF CutsToDays THEN InDays(q, day)
  ELSE q.from <= Midnight(day) /\ Midnight(day) <= q.to

\* Whether the period has its first day in the sessions, too.
BeginsWhole(q) == CutsToDays \/ q.from = Midnight(DayOf(q.from))
OfVersion(q, version) == q.version \in {AnyVersion, version}

DeviceRows(q) == {u \in uniqueInstall : InDays(q, u.day) /\ OfVersion(q, u.version)}
DeviceDays(q) == Cardinality(DeviceRows(q))

\* Mutant: devices of any version count as new.
NewRowsAnyVersion(q) ==
  {n \in Installs : firstSeen[n] # Unseen /\ InDays(q, firstSeen[n].day)}

NewRows(q) ==
  {n \in Installs : /\ firstSeen[n] # Unseen
                    /\ InDays(q, firstSeen[n].day) /\ OfVersion(q, firstSeen[n].version)}

\* getDashboardSessions, summed: installsCount of the days of the period.  The sum is
\* the number of installs counted, one by one, in each of its cells.
CellsOf(q) == {c \in Days \X Versions : InInstants(q, c[1]) /\ OfVersion(q, c[2])}
InstallsCounted(q) ==
  Cardinality(UNION {{c} \X (1..daily[c].installs) : c \in CellsOf(q)})

-----------------------------------------------------------------------------
(* getDashboardAudience *)

Idle  == [pending |-> {"request"}]
Reads == {"devices", "new", "newDaily"}

PanelInit == Init /\ panel = Idle

Ask(q) ==
  /\ panel = Idle
  /\ panel' = [query |-> q, pending |-> Reads, devices |-> {}, new |-> {}, newDaily |-> {},
               overtaken |-> FALSE]

ReadDevices ==
  /\ "devices" \in panel.pending
  /\ panel' = [panel EXCEPT !.pending = @ \ {"devices"}, !.devices = DeviceRows(panel.query)]
ReadNew ==
  /\ "new" \in panel.pending
  /\ panel' = [panel EXCEPT !.pending = @ \ {"new"}, !.new = NewRows(panel.query)]
ReadNewDaily ==
  /\ "newDaily" \in panel.pending
  /\ panel' = [panel EXCEPT !.pending = @ \ {"newDaily"}, !.newDaily = NewRows(panel.query)]

Answer == panel.pending = {} /\ panel' = Idle

PanelStep ==
  /\ (\E q \in Queries : Ask(q)) \/ ReadDevices \/ ReadNew \/ ReadNewDaily \/ Answer
  /\ UNCHANGED vars

\* History: a transaction was committed after one query of the request and before another.
Halfway == panel # Idle /\ panel.pending \notin {{}, Reads}
Overtakes ==
  panel' = IF Halfway /\ receipts' # receipts
           THEN [panel EXCEPT !.overtaken = TRUE] ELSE panel

PanelNext == (Next /\ Overtakes) \/ PanelStep
PanelSpec == PanelInit /\ [][PanelNext]_<<vars, panel>>

\* What is shown: the new devices of a platform that has no device row are left out.
UniqueDevices   == Cardinality({u.install : u \in panel.devices})
NewDevices      == IF panel.devices = {} THEN 0 ELSE Cardinality(panel.new)
NewDevicesDaily == Cardinality(panel.newDaily)

-----------------------------------------------------------------------------
(* Properties *)

\* The new devices shown for a period, of a version or of all, are among the unique
\* devices shown beside them and are those shown by day, whatever order the summaries
\* came in, unless one was counted between two of the queries of the request.
NewDevicesAreDevices ==
  panel.pending = {} /\ ~panel.overtaken =>
    NewDevices <= UniqueDevices /\ NewDevices = NewDevicesDaily

\* "Aparelho-dia: soma de installsCount": the panel's two ways to the same figure, one
\* from the daily counters and one from the rows, agree; but where instants are compared,
\* the counters leave out the first day of a period that does not begin at its midnight.
DeviceDaysAreCounted ==
  \A q \in Queries :
    InstallsCounted(q) =
      IF BeginsWhole(q) THEN DeviceDays(q)
      ELSE Cardinality({u \in DeviceRows(q) : u.day # DayOf(q.from)})

-----------------------------------------------------------------------------
(* The inductive invariant of the panel.                                   *)

Requested ==
  [query : Queries, pending : SUBSET Reads,
   devices : SUBSET [day : Days, install : Installs, version : Versions],
   new : SUBSET Installs, newDaily : SUBSET Installs, overtaken : BOOLEAN]

\* What the queries that have answered read is what the tables hold.
Fresh ==
  /\ "devices" \notin panel.pending => panel.devices = DeviceRows(panel.query)
  /\ "new" \notin panel.pending => panel.new = NewRows(panel.query)
  /\ "newDaily" \notin panel.pending => panel.newDaily = NewRows(panel.query)

PanelOK ==
  /\ panel \in Requested \cup {Idle}
  /\ panel # Idle /\ panel.pending # {} /\ ~panel.overtaken => Fresh
  /\ NewDevicesAreDevices
=============================================================================
