----------------------------- MODULE MCAssociado -----------------------------
(***************************************************************************)
(* Instances of what an associado keeps and asks for: the commands and the *)
(* list of their vehicles (VehicleCommands, VehicleSync), the provider of  *)
(* a vehicle (ProviderSelection), the files their rows name (StoredPhotos) *)
(* and their account (FirstAccess).  No two of them share state, nor do    *)
(* two vehicles without a user in common, nor the requests for a position  *)
(* and those for a history, so that a behaviour is one of one of them,     *)
(* which part says: of the commands of a vehicle, by that vehicle.         *)
(***************************************************************************)
EXTENDS VehicleCommands, VehicleSync, TLC

CONSTANTS
  r1, r2, v1, v2, u1, u2, s1, s2, k1, k2, k3, f1, f2, f3, a1, a2, a3, b1, b2, c1, c2, d1, d2,
  Callers, Devices, CacheTtl, MaxInstant, ProviderMoves,  \* ProviderSelection
  FileRequests,                                           \* StoredPhotos
  AccountRequests, Bases, MaxAttempts, Relists            \* FirstAccess

VARIABLES
  part,
  holder, exchanged, since, cache, vehicleCache, deviceCache, caller,
  kind, exists, url, disk, op, todo, state, calm,
  account, listed, changes, access, known, signedIn, unsure

Provider == INSTANCE ProviderSelection WITH MaxMoves <- ProviderMoves, moves <- exchanged
Photos   == INSTANCE StoredPhotos WITH Requests <- FileRequests
Access   == INSTANCE FirstAccess
              WITH Requests <- AccountRequests, MaxChanges <- Relists, req <- access

ASSUME AssociadoAssumption == Provider!ProviderAssumption /\ Access!FirstAccessAssumption

\* A vehicle of two users and one of nobody take the two ways through a command.
OneOwned == v1 :> <<u1, u2>> @@ v2 :> <<>>
TwoBases == <<b1, b2>>

providerVars == <<holder, exchanged, since, cache, vehicleCache, deviceCache, caller>>
photosVars   == <<kind, exists, url, disk, op, todo, state, calm>>
accessVars   == <<account, listed, changes, access, known, signedIn, unsure>>
MCvars == <<vars, syncVars, providerVars, photosVars, accessVars, part>>

\* A part that does not run stands in one of its initial states.
MCInit ==
  /\ part \in Vehicles \cup {"sync", "provider", "position", "photos", "access"}
  /\ Init /\ SyncInit /\ Provider!Init /\ Photos!Init /\ Access!Init
  /\ part \notin Vehicles => inForce = {}
  /\ part # "sync" => owned = {}
  /\ part # "provider" => holder = "none"
  /\ part # "photos" => kind = "perfil"
  /\ part # "access" => \A b \in Access!BaseNumbers : listed[b] = "ausente"

OfCommands ==
  part \in Vehicles /\ UNCHANGED <<syncVars, providerVars, photosVars, accessVars, part>>
OfSync ==
  part = "sync" /\ UNCHANGED <<vars, providerVars, photosVars, accessVars, part>>
OfProvider ==
  part = "provider" /\ UNCHANGED <<vars, syncVars, photosVars, accessVars, part>>
OfPosition ==
  part = "position" /\ UNCHANGED <<vars, syncVars, photosVars, accessVars, part>>
OfPhotos ==
  part = "photos" /\ UNCHANGED <<vars, syncVars, providerVars, accessVars, part>>
OfAccess ==
  part = "access" /\ UNCHANGED <<vars, syncVars, providerVars, photosVars, part>>

\* The requests for files are alike and made once each, as are those for an account:
\* they begin in turn.
InTurn ==
  /\ state[f1] = "new" => state[f2] = "new"
  /\ state[f2] = "new" => state[f3] = "new"
  /\ access[a1].phase = "new" => access[a2].phase = "new"
  /\ access[a2].phase = "new" => access[a3].phase = "new"

MCNext ==
  /\ \/ OfCommands /\ \E r \in Requests, f \in Fields, value \in BOOLEAN :
          Start(r, part, f, value)
     \/ OfCommands /\ \E r \in Requests : Ask(r)
     \/ OfCommands /\ \E r \in Requests : Serve(r)
     \/ OfCommands /\ \E r \in Requests : Refuse(r)
     \/ OfCommands /\ \E r \in Requests : Persist(r)
     \/ OfCommands /\ \E r \in Requests : NotPersisted(r)
     \/ OfCommands /\ \E row \in UserVehicle : Toggle(row)
     \/ OfSync /\ \E v \in Chassis : Move(v)
     \/ OfSync /\ \E s \in Syncs : Read(s)
     \/ OfSync /\ \E s \in Syncs, v \in Chassis : Upsert(s, v)
     \/ OfSync /\ \E s \in Syncs : Deactivate(s)
     \/ OfSync /\ \E s \in Syncs : Fails(s)
     \/ OfPosition /\ \E c \in Callers : Provider!Ask(c)
     \/ OfProvider /\ \E c \in Callers : Provider!Resolve(c)
     \/ OfProvider /\ \E c \in Callers : Provider!LookUpCached(c)
     \/ OfProvider /\ \E c \in Callers : Provider!Fail(c)
     \/ OfProvider /\ \E c \in Callers : Provider!ResolveSoftruck(c)
     \/ OfProvider /\ \E c \in Callers : Provider!FindVehicle(c)
     \/ OfProvider /\ \E c \in Callers : Provider!FindDevice(c)
     \/ OfProvider /\ \E c \in Callers : Provider!DeviceArrives(c)
     \/ OfProvider /\ \E c \in Callers : Provider!Probe(c)
     \/ (OfProvider \/ OfPosition) /\ \E c \in Callers : Provider!Return(c)
     \/ OfPosition /\ \E c \in Callers :
          /\ caller[c].phase = "asked"
          /\ \E answers \in [Provider!Origens -> 0..Provider!Nothing] : Provider!Show(c, answers)
     \/ OfProvider /\ \E p \in Provider!Places : Provider!Move(p)
     \/ OfProvider /\ Provider!Tick
     \/ OfProvider /\ Provider!Expire
     \/ OfPhotos /\ \E r \in FileRequests, does \in {"create", "update", "delete", "upsert"},
          photos, links \in SUBSET Photos!Slots : Photos!Receive(r, does, photos, links)
     \/ OfPhotos /\ \E r \in FileRequests : Photos!Find(r)
     \/ OfPhotos /\ \E r \in FileRequests : Photos!Store(r)
     \/ OfPhotos /\ \E r \in FileRequests : Photos!Remove(r)
     \/ OfPhotos /\ \E r \in FileRequests : Photos!RemoveFails(r)
     \/ OfPhotos /\ \E r \in FileRequests : Photos!Write(r)
     \/ OfPhotos /\ \E r \in FileRequests : Photos!Delete(r)
     \/ OfPhotos /\ \E r \in FileRequests : Photos!Fail(r)
     \/ OfAccess /\ \E r \in AccountRequests : Access!Look(r)
     \/ OfAccess /\ \E r \in AccountRequests : Access!Reopen(r)
     \/ OfAccess /\ \E r \in AccountRequests : Access!DetectInDatabase(r)
     \/ OfAccess /\ \E r \in AccountRequests : Access!BaseAnswers(r)
     \/ OfAccess /\ \E r \in AccountRequests : Access!BuscarAnswers(r)
     \/ OfAccess /\ \E r \in AccountRequests, t \in BOOLEAN : Access!HinovaFails(r, t)
     \/ OfAccess /\ \E r \in AccountRequests, t \in BOOLEAN,
          b \in {0} \cup Access!BaseNumbers : Access!SignUp(r, t, b)
     \/ OfAccess /\ \E r \in AccountRequests : Access!Register(r)
     \/ OfAccess /\ \E r \in AccountRequests : Access!Authenticate(r)
     \/ OfAccess /\ \E r \in AccountRequests : Access!Login(r)
     \/ OfAccess /\ \E r \in AccountRequests : Access!ChangePassword(r)
     \/ OfAccess /\ \E r \in AccountRequests : Access!ResetPassword(r)
     \/ OfAccess /\ \E r \in AccountRequests, sent \in BOOLEAN : Access!Mail(r, sent)
     \/ OfAccess /\ \E r \in AccountRequests : Access!Fail(r)
     \/ OfAccess /\ \E b \in Access!BaseNumbers, s \in Access!Situations : Access!Relist(b, s)
  /\ InTurn'

MCSpec == MCInit /\ [][MCNext]_MCvars

\* ProviderSelection: the position shown is at most an hour older than the latest one
\* received; a device whose history is read was the vehicle's during the request or
\* less than one CACHE_TTL before it, and Logica listed the chassi during it.
RightProvider == Provider!ShownIsFresh /\ Provider!ResolvedByHolder

\* StoredPhotos: a file that a row names is missing only by a request still on its way
\* or failed, and requests in turn leave no file behind.
FilesMatchRows == Photos!FilesMatchRows

\* FirstAccess: the password is in its owner's reach, or the first access is open, and
\* the base is the first that lists the CPF.
AccountServesItsOwner == Access!AccountServesItsOwner
=============================================================================
