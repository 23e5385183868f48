---------------------------- MODULE MCNotifications ----------------------------
(***************************************************************************)
(* Instances of the senders of notifications: WebhookEvents, which         *)
(* notifies the users of a vehicle, MarketingSend, and FuelSession, which  *)
(* tells a user of their savings.  They write rows of their own to the     *)
(* Notification table and share nothing else, so a behaviour is one of one *)
(* of them, which sender says, and nothing is lost by not interleaving     *)
(* them.                                                                   *)
(***************************************************************************)
EXTENDS FuelSession, TLC

CONSTANTS
  v1, u1, u2, r1, k1,
  Vehicles, Users, MaxEvents, MaxChanges, MaxFailures, MaxCrashes,  \* WebhookEvents
  MaxUser, ChunkSize, MaxConsents, MarketingFailures                \* MarketingSend

VARIABLES
  sender,
  pref, token, webhookJob, queue, saved, rows, delivered, changes, failures, crashes,
  takes, phase, audit, valid, chunk, sent, reached, marketingRows, consents, marketingFailed

OfBoth == v1 :> {u1, u2}

Webhook   == INSTANCE WebhookEvents
               WITH UsersOf <- OfBoth, job <- webhookJob, pushes <- delivered
Marketing == INSTANCE MarketingSend
               WITH MaxChanges <- MaxConsents, MaxFailures <- MarketingFailures,
                    rows <- marketingRows, changes <- consents,
                    failures <- marketingFailed

ASSUME NotificationsAssumption == Marketing!MarketingAssumption /\ Webhook!WebhookAssumption

marketingVars == <<takes, phase, audit, valid, chunk, sent, reached, marketingRows,
                   consents, marketingFailed>>
webhookVars   == <<pref, token, webhookJob, queue, saved, rows, delivered, changes,
                   failures, crashes>>
MCvars        == <<vars, marketingVars, webhookVars, sender>>

\* A sender that does not run stands in one of its initial states.
MCInit ==
  /\ Init /\ Marketing!Init /\ Webhook!Init
  /\ sender \in {"webhook", "marketing", "fuel"}
  /\ sender # "marketing" => takes = {}
  /\ sender # "webhook" => \A u \in Users : ~pref[u] /\ ~token[u]
  /\ sender # "fuel" => total = 0

OfWebhook   == sender = "webhook" /\ UNCHANGED <<vars, marketingVars, sender>>
OfMarketing == sender = "marketing" /\ UNCHANGED <<vars, webhookVars, sender>>
OfFuel      == sender = "fuel" /\ UNCHANGED <<marketingVars, webhookVars, sender>>

MCNext ==
  \/ OfWebhook /\ \E u \in Users : Webhook!SetPref(u)
  \/ OfWebhook /\ \E u \in Users : Webhook!SetToken(u)
  \/ OfWebhook /\ \E i \in Webhook!JobIds, e \in Webhook!Event : Webhook!Webhook(i, e)
  \/ OfWebhook /\ Webhook!TakeJob
  \/ OfWebhook /\ \E i \in Webhook!JobIds : Webhook!Save(i)
  \/ OfWebhook /\ \E i \in Webhook!JobIds : Webhook!SaveFails(i)
  \/ OfWebhook /\ \E i \in Webhook!JobIds : Webhook!ReadRecipients(i)
  \/ OfWebhook /\ \E i \in Webhook!JobIds : Webhook!ReadFails(i)
  \/ OfWebhook /\ \E i \in Webhook!JobIds : Webhook!Complete(i)
  \/ OfWebhook /\ \E i \in Webhook!JobIds, u \in Users : Webhook!NextUser(i, u)
  \/ OfWebhook /\ \E i \in Webhook!JobIds, u \in Users : Webhook!SaveRow(i, u)
  \/ OfWebhook /\ \E i \in Webhook!JobIds, u \in Users : Webhook!Push(i, u)
  \/ OfWebhook /\ Webhook!Crash
  \/ OfMarketing /\ \E u \in 1..MaxUser : Marketing!Change(u)
  \/ OfMarketing /\ Marketing!Request
  \/ OfMarketing /\ Marketing!Read
  \/ OfMarketing /\ Marketing!ReadFails
  \/ OfMarketing /\ Marketing!SendChunk
  \/ OfMarketing /\ Marketing!ChunkFails
  \/ OfMarketing /\ Marketing!Save
  \/ OfMarketing /\ Marketing!SaveFails
  \/ OfMarketing /\ Marketing!MarkSuccess
  \/ OfMarketing /\ Marketing!MarkFailure
  \/ OfMarketing /\ Marketing!MarkFails
  \/ OfFuel /\ Refuel
  \/ OfFuel /\ Crash
  \/ OfFuel /\ \E r \in Requests : CheckPending(r)
  \/ OfFuel /\ \E r \in Requests : ReadBefore(r)
  \/ OfFuel /\ \E r \in Requests : CreatePending(r)
  \/ OfFuel /\ \E r \in Requests : Enqueue(r)
  \/ OfFuel /\ \E r \in Requests : CreateBeyondBound(r)
  \/ OfFuel /\ \E r \in Requests : RequestFails(r)
  \/ OfFuel /\ \E k \in Consults : ConsultRead(k)
  \/ OfFuel /\ \E k \in Consults : ConsultAsk(k)
  \/ OfFuel /\ \E k \in Consults : ConsultPersist(k)
  \/ OfFuel /\ \E i \in Ids : JobStart(i)
  \/ OfFuel /\ \E i \in Ids : JobReadUser(i)
  \/ OfFuel /\ \E i \in Ids : JobAsk(i)
  \/ OfFuel /\ \E i \in Ids : JobPersist(i)
  \/ OfFuel /\ \E i \in Ids : JobDecide(i)
  \/ OfFuel /\ \E i \in Ids : JobPush(i)
  \/ OfFuel /\ \E i \in Ids : JobEnd(i)
  \/ OfFuel /\ \E i \in Ids : JobExpire(i)
  \/ OfFuel /\ \E i \in Ids : JobFails(i)
  \/ OfFuel /\ \E i \in Ids : ExpireFails(i)

MCSpec == MCInit /\ [][MCNext]_MCvars /\ Fairness /\ Webhook!Fairness

\* WebhookEvents: the app finds a row of every push it got, and as long as the database
\* answers every user of the vehicle has a row, whatever Expo answered.
EveryPushHasRow == Webhook!PushHasRow /\ Webhook!EveryoneHasRow

\* MarketingSend: the audit log tells what happened, a request that it calls FAILED
\* reached nobody, one that it calls SENT no fewer than it says; and of chunks of one
\* length exactly the reached recipients are saved.
AuditIsTrue ==
  /\ Marketing!FailedReachedNobody
  /\ Marketing!SentCountIsReal
  /\ Marketing!FullChunksAreSaved

\* FuelSession: the user is told once of the savings of a session, which stays COMPLETED.
PushOnceAndDone == PushAtMostOnce /\ NotifiedStaysCompleted

\* WebhookEvents and FuelSession: a queued event and a pending session come to their end.
JobsEnd == Webhook!JobEnds /\ PendingEnds
=============================================================================
