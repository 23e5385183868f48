------------------------------ MODULE VehicleSync ------------------------------
(***************************************************************************)
(* The vehicles of an associado, SgaService.consultarVeiculosAssociado:    *)
(* every time the app lists them, the list of Hinova is written over the   *)
(* UserVehicle rows of the user, vehicle by vehicle, and the vehicles that *)
(* are not in it are made inactive.  The app asks whenever a screen opens, *)
(* so two of these may overlap.                                            *)
(*                                                                         *)
(* Hinova is taken to answer 200 with the list it has, which may be empty. *)
(***************************************************************************)
EXTENDS Naturals, FiniteSets

CONSTANTS
  Syncs,        \* requests in flight together
  Chassis,     \* chassis
  MaxMoves,     \* bound: changes of the list at Hinova
  MaxFailures   \* bound: calls of Hinova or of the database that fail

ASSUME SyncAssumption == MaxMoves \in Nat /\ MaxFailures \in Nat

VARIABLES
  owned,       \* Hinova: the vehicles of the associado
  active,      \* UserVehicle rows with isActive
  inactive,    \* UserVehicle rows without it
  sync,        \* where each request stands
  moved,       \* history: vehicles that came to or left the list at Hinova
  latest,      \* history: the list read last
  overlapped,  \* history: a list was read while another was being written
  moves,
  failures

rows   == <<active, inactive>>
ghosts == <<moved, latest, overlapped>>
syncVars   == <<owned, rows, sync, ghosts, moves, failures>>

NotSyncing == [phase |-> "idle"]

SyncInit ==
  /\ owned \in SUBSET Chassis
  /\ active = {} /\ inactive = {}
  /\ sync = [s \in Syncs |-> NotSyncing]
  /\ moved = {} /\ latest = {} /\ overlapped = FALSE
  /\ moves = 0 /\ failures = 0

EndSync(s) == sync' = [sync EXCEPT ![s] = NotSyncing]

\* The associado gains or loses a vehicle.
Move(v) ==
  /\ moves < MaxMoves
  /\ moves' = moves + 1
  /\ owned' = IF v \in owned THEN owned \ {v} ELSE owned \cup {v}
  /\ moved' = moved \cup {v}
  /\ UNCHANGED <<rows, sync, latest, overlapped, failures>>

\* buscar associado answers 200; todo is what is left of its list.
Read(s) ==
  /\ sync[s] = NotSyncing
  /\ sync' = [sync EXCEPT ![s] = [phase |-> "upsert", list |-> owned, todo |-> owned]]
  /\ latest' = owned
  /\ overlapped' = (overlapped \/ \E t \in Syncs : sync[t] # NotSyncing)
  /\ UNCHANGED <<owned, rows, moved, moves, failures>>

\* One upsert, by userId and chassi, makes a row or makes it active again.
Upsert(s, v) ==
  /\ sync[s].phase = "upsert" /\ v \in sync[s].todo
  /\ sync' = [sync EXCEPT ![s].todo = @ \ {v}]
  /\ active' = active \cup {v}
  /\ inactive' = inactive \ {v}
  /\ UNCHANGED <<owned, ghosts, moves, failures>>

\* Mutant: every row is made inactive that has not been written yet.
DeactivateFirst(s) ==
  /\ sync[s].phase = "upsert"
  /\ active' = active \ (sync[s].todo \cup (active \ sync[s].list))
  /\ inactive' = inactive \cup (active \ active')
  /\ IF sync[s].todo = {} THEN EndSync(s) ELSE UNCHANGED sync
  /\ UNCHANGED <<owned, ghosts, moves, failures>>

\* Mutant: rows that are not in the list stay as they are.
DeactivateNone(s) ==
  /\ sync[s].phase = "upsert" /\ sync[s].todo = {}
  /\ EndSync(s)
  /\ UNCHANGED <<owned, rows, ghosts, moves, failures>>

\* updateMany: chassi not in the list.
Deactivate(s) ==
  /\ sync[s].phase = "upsert" /\ sync[s].todo = {}
  /\ active' = active \cap sync[s].list
  /\ inactive' = inactive \cup (active \ sync[s].list)
  /\ EndSync(s)
  /\ UNCHANGED <<owned, ghosts, moves, failures>>

\* An upsert or the updateMany throws, also where two upserts make the same row:
\* 500, what was written stays.
Fails(s) ==
  /\ sync[s].phase = "upsert"
  /\ failures < MaxFailures
  /\ failures' = failures + 1
  /\ EndSync(s)
  /\ UNCHANGED <<owned, rows, ghosts, moves>>

SyncNext ==
  \/ \E v \in Chassis : Move(v)
  \/ \E s \in Syncs : Read(s) \/ Deactivate(s) \/ Fails(s)
  \/ \E s \in Syncs, v \in Chassis : Upsert(s, v)

SyncSpec == SyncInit /\ [][SyncNext]_syncVars

-----------------------------------------------------------------------------
(* Properties *)

SyncState == [phase : {"upsert"}, list : SUBSET Chassis, todo : SUBSET Chassis]

\* A vehicle has one row, active or inactive, and it was on the list of Hinova.
SyncTypeOK ==
  /\ owned \in SUBSET Chassis
  /\ active \in SUBSET Chassis /\ inactive \in SUBSET Chassis
  /\ active \cap inactive = {}
  /\ sync \in [Syncs -> {NotSyncing} \cup SyncState]
  /\ \A s \in Syncs : sync[s] # NotSyncing => sync[s].todo \subseteq sync[s].list
  /\ moved \in SUBSET Chassis /\ latest \in SUBSET Chassis
  /\ overlapped \in BOOLEAN
  /\ moves \in 0..MaxMoves /\ failures \in 0..MaxFailures

\* A vehicle that has been the associado's all the time is never made inactive,
\* however many lists are written at once and whichever of them fails halfway.
OwnedStaysActive == inactive \subseteq moved

\* "Mark as inactive any vehicles not present in the latest sync": once no list is
\* being written, the active rows are the vehicles of the list read last, if the
\* lists were written one after another and none of them failed halfway.
LatestListDecides ==
  (~overlapped /\ failures = 0 /\ \A s \in Syncs : sync[s] = NotSyncing)
    => active = latest
=============================================================================
