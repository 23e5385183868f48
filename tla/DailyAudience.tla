----------------------------- MODULE DailyAudience -----------------------------
(***************************************************************************)
(* What the ingestion of usage summaries promises, without queue, retries, *)
(* restarts or rows: a summary is accepted once, may be taken in any time  *)
(* later, whole or in part, and is never taken back.  The audience of a    *)
(* day is a set of devices and a set of sessions, so that taking a summary *)
(* in again changes nothing.                                               *)
(***************************************************************************)
CONSTANTS Ids, Summaries   \* Summaries: records with a day, an install and a session

VARIABLES
  accepted,  \* the summaries answered with "accepted", each with its number
  received,  \* those among them that were taken in
  counted,   \* those whose device and session were both counted
  devices,   \* days, each with an install seen on it
  sessions   \* days, each with a session seen on it

vars == <<accepted, received, counted, devices, sessions>>

DeviceOf(p)  == <<p[2].day, p[2].install>>
SessionOf(p) == <<p[2].day, p[2].session>>

Init ==
  accepted = {} /\ received = {} /\ counted = {} /\ devices = {} /\ sessions = {}

Accept(p) ==
  /\ \A q \in accepted : q[1] # p[1]
  /\ accepted' = accepted \cup {p}
  /\ UNCHANGED <<received, counted, devices, sessions>>

Count(p) ==
  /\ p \in accepted
  /\ received' = received \cup {p}
  /\ counted' = counted \cup {p}
  /\ devices' = devices \cup {DeviceOf(p)}
  /\ sessions' = sessions \cup {SessionOf(p)}
  /\ UNCHANGED accepted

\* The device, the session or both are left out.
CountInPart(p) ==
  /\ p \in accepted
  /\ received' = received \cup {p}
  /\ devices' \in {devices, devices \cup {DeviceOf(p)}}
  /\ sessions' \in {sessions, sessions \cup {SessionOf(p)}}
  /\ UNCHANGED <<accepted, counted>>

Next ==
  \/ \E p \in Ids \X Summaries : Accept(p)
  \/ \E p \in accepted : Count(p) \/ CountInPart(p)

Spec == Init /\ [][Next]_vars

\* The audience has every summary that was counted, and none that was not taken in.
AudienceIsOfSummaries ==
  /\ counted \subseteq received /\ received \subseteq accepted
  /\ {DeviceOf(p) : p \in counted} \subseteq devices
  /\ devices \subseteq {DeviceOf(p) : p \in received}
  /\ {SessionOf(p) : p \in counted} \subseteq sessions
  /\ sessions \subseteq {SessionOf(p) : p \in received}
=============================================================================
