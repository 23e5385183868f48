----------------------------- MODULE MarketingSend -----------------------------
(***************************************************************************)
(* A marketing notification sent from the panel: the audit log of the      *)
(* request, the push to every user who takes marketing, chunk by chunk     *)
(* through Expo, the Notification rows of those it reached, and the result *)
(* in the audit log.                                                       *)
(*                                                                         *)
(* Users are numbers, in the order findMany returns them.  Expo's client   *)
(* cuts the messages into chunks of ChunkSize, 100 in the library.         *)
(***************************************************************************)
EXTENDS Naturals, Sequences, FiniteSets, FiniteSetsExt

CONSTANTS
  MaxUser,      \* users are 1..MaxUser
  ChunkSize,
  MaxChanges,   \* bound: changes of the users' consents and tokens
  MaxFailures   \* bound: calls of the database and of Expo that fail

\* What the constants are.
MarketingAssumption ==
  MaxUser \in Nat /\ ChunkSize \in Nat \ {0} /\ MaxChanges \in Nat /\ MaxFailures \in Nat

UserIds == 1..MaxUser

\* The members of S, in the order of their numbers.
InOrder(S) ==
  CHOOSE s \in [1..Cardinality(S) -> S] :
    \A i, j \in 1..Cardinality(S) : i < j => s[i] < s[j]

VARIABLES
  takes,     \* users who are active, take marketing and have a valid token
  phase,     \* where the request stands
  audit,     \* the row of MarketingNotificationAuditLog, or none
  valid,     \* validRecipients
  chunk,     \* i: chunks sent so far
  sent,      \* sentNotifications
  reached,   \* users that Expo delivered to
  rows,      \* Notification rows, by user
  changes,
  failures

local == <<valid, chunk, sent>>
vars  == <<takes, phase, audit, local, reached, rows, changes, failures>>

NoAudit == [status |-> "none"]

Init ==
  /\ takes \in SUBSET UserIds
  /\ phase = "idle"
  /\ audit = NoAudit
  /\ valid = <<>> /\ chunk = 0 /\ sent = <<>>
  /\ reached = {}
  /\ rows = [u \in UserIds |-> 0]
  /\ changes = 0 /\ failures = 0

\* A user takes or refuses marketing, or signs in or out of the push.
Change(u) ==
  /\ changes < MaxChanges
  /\ changes' = changes + 1
  /\ takes' = IF u \in takes THEN takes \ {u} ELSE takes \cup {u}
  /\ UNCHANGED <<phase, audit, local, reached, rows, failures>>

Failure == failures < MaxFailures /\ failures' = failures + 1

\* createRequestAudit; without its row the request goes on.
Request ==
  /\ phase = "idle"
  /\ phase' = "read"
  /\ \/ audit' = [status |-> "REQUESTED"] /\ UNCHANGED failures
     \/ UNCHANGED audit /\ Failure
  /\ UNCHANGED <<takes, local, reached, rows, changes>>

\* user.findMany
Read ==
  /\ phase = "read"
  /\ valid' = InOrder(takes)
  /\ phase' = IF takes = {} THEN "sent" ELSE "chunk"
  /\ UNCHANGED <<takes, audit, chunk, sent, reached, rows, changes, failures>>

ReadFails ==
  /\ phase = "read" /\ Failure
  /\ phase' = "threw"
  /\ UNCHANGED <<takes, audit, local, reached, rows, changes>>

\* The recipients of chunk i, counted from 0.
Chunk(i) == SubSeq(valid, i * ChunkSize + 1, Min({Len(valid), (i + 1) * ChunkSize}))

NextChunk ==
  /\ chunk' = chunk + 1
  /\ phase' = IF (chunk + 1) * ChunkSize < Len(valid) THEN "chunk" ELSE "save"

\* Whose ticket number j of chunk i is taken to be: i * chunks[i].length + j.
RecipientOf(i, j) == valid[i * Len(Chunk(i)) + j]

\* Expo answers a chunk with a ticket for each message, ok or error.
SendChunk ==
  /\ phase = "chunk"
  /\ \E ok \in SUBSET (1..Len(Chunk(chunk))) :
       /\ reached' = reached \cup {Chunk(chunk)[j] : j \in ok}
       /\ sent' = sent \o LET js == InOrder(ok)
                          IN [k \in 1..Len(js) |-> RecipientOf(chunk, js[k])]
  /\ NextChunk
  /\ UNCHANGED <<takes, audit, valid, rows, changes, failures>>

\* Expo's answer does not come: nobody of the chunk is taken to be reached.
ChunkFails ==
  /\ phase = "chunk" /\ Failure
  /\ \E got \in SUBSET (1..Len(Chunk(chunk))) :
       reached' = reached \cup {Chunk(chunk)[j] : j \in got}
  /\ NextChunk
  /\ UNCHANGED <<takes, audit, valid, sent, rows, changes>>

\* notification.createMany
Save ==
  /\ phase = "save"
  /\ rows' = [u \in UserIds |->
                rows[u] + Cardinality({k \in 1..Len(sent) : sent[k] = u})]
  /\ phase' = "sent"
  /\ UNCHANGED <<takes, audit, local, reached, changes, failures>>

\* Mutant: the error of createMany is thrown on.
SaveThrows ==
  /\ phase = "save" /\ Failure
  /\ phase' = "threw"
  /\ UNCHANGED <<takes, audit, local, reached, rows, changes>>

\* createMany fails: the error is logged, and the request goes on.
SaveFails ==
  /\ phase = "save" /\ Failure
  /\ phase' = "sent"
  /\ UNCHANGED <<takes, audit, local, reached, rows, changes>>

\* markSuccess and markFailure, where there is a row.
MarkSuccess ==
  /\ phase = "sent"
  /\ audit' = IF audit = NoAudit THEN audit
              ELSE [status |-> "SENT", sentCount |-> Len(sent)]
  /\ phase' = "done"
  /\ UNCHANGED <<takes, local, reached, rows, changes, failures>>
MarkFailure ==
  /\ phase = "threw"
  /\ audit' = IF audit = NoAudit THEN audit ELSE [status |-> "FAILED"]
  /\ phase' = "done"
  /\ UNCHANGED <<takes, local, reached, rows, changes, failures>>

\* The update of the audit row fails: REQUESTED stays.
MarkFails ==
  /\ phase \in {"sent", "threw"} /\ Failure
  /\ phase' = "done"
  /\ UNCHANGED <<takes, audit, local, reached, rows, changes>>

Next ==
  \/ \E u \in UserIds : Change(u)
  \/ Request \/ Read \/ ReadFails \/ SendChunk \/ ChunkFails \/ Save \/ SaveFails
  \/ MarkSuccess \/ MarkFailure \/ MarkFails

Spec == Init /\ [][Next]_vars

-----------------------------------------------------------------------------
(* Properties *)

\* A request that the audit log calls FAILED reached nobody, so that it may be sent
\* again: whatever fails after the first chunk does not make it one.
FailedReachedNobody == audit.status = "FAILED" => reached = {}

\* The audit log does not claim more than Expo delivered.
SentCountIsReal ==
  audit.status = "SENT" => audit.sentCount <= Cardinality(reached)

SavedAreReached ==
  failures = 0 /\ phase \in {"sent", "done"} =>
    \A u \in UserIds : rows[u] = IF u \in reached THEN 1 ELSE 0

AllOneLength == Len(valid) <= ChunkSize \/ Len(valid) % ChunkSize = 0

\* When all chunks have the same length, a Notification row is kept of exactly the
\* users that the notification reached.
FullChunksAreSaved == AllOneLength => SavedAreReached

\* "Salvar APENAS as que foram realmente enviadas": the same of any number of
\* recipients.
OnlyReachedAreSaved == SavedAreReached

-----------------------------------------------------------------------------
(* The inductive invariant behind them.                                    *)

TypeOK ==
  /\ takes \in SUBSET UserIds
  /\ phase \in {"idle", "read", "chunk", "save", "sent", "threw", "done"}
  /\ audit \in {NoAudit} \cup [status : {"REQUESTED", "FAILED"}]
                         \cup [status : {"SENT"}, sentCount : Nat]
  /\ valid \in Seq(UserIds) /\ chunk \in Nat /\ sent \in Seq(UserIds)
  /\ reached \in SUBSET UserIds
  /\ rows \in [UserIds -> Nat]
  /\ failures \in Nat

NobodyTwice(s) == \A i, j \in 1..Len(s) : s[i] = s[j] => i = j

\* Only recipients of the chunks sent so far are reached.
ChunksOK ==
  /\ NobodyTwice(valid)
  /\ phase \in {"idle", "read", "threw"} => reached = {} /\ sent = <<>> /\ chunk = 0
  /\ phase = "chunk" => chunk * ChunkSize < Len(valid)
  /\ \A u \in reached : \E k \in 1..Len(valid) :
       k <= chunk * ChunkSize /\ valid[k] = u

\* The result is in the audit log only once the request is done.
AuditOK ==
  /\ phase # "done" => audit.status \in {"none", "REQUESTED"}
  /\ Len(sent) <= Cardinality(reached)
  /\ FailedReachedNobody
  /\ SentCountIsReal

\* Without failures, and with chunks of one length, sentNotifications are the reached.
RowsOK ==
  /\ phase \notin {"sent", "done"} => \A u \in UserIds : rows[u] = 0
  /\ failures = 0 /\ AllOneLength =>
       /\ phase # "threw"
       /\ NobodyTwice(sent)
       /\ {sent[k] : k \in 1..Len(sent)} = reached
       /\ SavedAreReached

Inductive == TypeOK /\ ChunksOK /\ AuditOK /\ RowsOK
=============================================================================
