---------------------------- MODULE VehicleCommands ----------------------------
(***************************************************************************)
(* The anchor and the ignition alert of a vehicle, RastreamentoService's   *)
(* ancoraM7 and ignicaoM7.  M7 keeps both per vehicle and takes them in    *)
(* one command; the database keeps both per user.  A command about one     *)
(* reads the other from the database, sends the two, and writes its own.   *)
(* Commands and the status of the anchor take the first row of the chassi, *)
(* whoever's; the status of the alert takes the first that is active.      *)
(*                                                                         *)
(* A vehicle whose tracking was cut is refused before anything else, and   *)
(* a 401 of M7 is answered with a new token and the same command: neither  *)
(* changes what is modelled here.                                          *)
(***************************************************************************)
EXTENDS Naturals, Sequences

CONSTANTS
  Requests,   \* requests in flight together
  Vehicles,   \* chassis
  Users,
  NoUser,
  RowsOf,     \* the users of the UserVehicle rows of a chassi, as findFirst meets them
  MaxLost     \* bound: answers of M7 and writes of the database that are lost

ASSUME CommandsAssumption ==
  /\ NoUser \notin Users
  /\ RowsOf \in [Vehicles -> Seq(Users)]
  /\ MaxLost \in Nat

Fields == {"ancora", "ignicao"}
Other(f) == IF f = "ancora" THEN "ignicao" ELSE "ancora"

UserVehicle ==
  {row \in Vehicles \X Users : \E i \in DOMAIN RowsOf[row[1]] : RowsOf[row[1]][i] = row[2]}
UserOf == [v \in Vehicles |-> IF RowsOf[v] = <<>> THEN NoUser ELSE Head(RowsOf[v])]

VARIABLES
  flags,  \* User.ancoraAtiva and User.notificacaoIgnicao
  m7,     \* the same two of each vehicle at M7
  req,    \* where each request stands
  lost,
  inForce,   \* the rows, as <<vehicle, user>>, that are active and whose user is
  disturbed  \* history: vehicles two commands met at, or with a lost answer

vars == <<flags, m7, req, lost, inForce, disturbed>>

Idle == [phase |-> "idle"]

\* At first the two sides agree: both are off for a new user.
Init ==
  /\ flags = [u \in Users |-> [f \in Fields |-> FALSE]]
  /\ m7 = [v \in Vehicles |-> [f \in Fields |-> FALSE]]
  /\ req = [r \in Requests |-> Idle]
  /\ lost = 0
  /\ inForce \in SUBSET UserVehicle
  /\ disturbed = {}

InFlight(v) == {r \in Requests : req[r] # Idle /\ req[r].vehicle = v}

End(r) == req' = [req EXCEPT ![r] = Idle]

\* Mutant: the flag that the command is not about is always sent as off.
StartWithOff(r, v, f, value) ==
  /\ req[r] = Idle
  /\ req' = [req EXCEPT ![r] =
       [phase |-> "send", vehicle |-> v, field |-> f, value |-> value,
        other |-> FALSE]]
  /\ disturbed' = disturbed \cup {w \in {v} : InFlight(v) # {}}
  /\ UNCHANGED <<flags, m7, lost, inForce>>

\* A command comes in; getVehicleState reads the user's flags, or M7 is to be asked.
Start(r, v, f, value) ==
  /\ req[r] = Idle
  /\ req' = [req EXCEPT ![r] =
       IF UserOf[v] = NoUser
       THEN [phase |-> "ask", vehicle |-> v, field |-> f, value |-> value]
       ELSE [phase |-> "send", vehicle |-> v, field |-> f, value |-> value,
             other |-> flags[UserOf[v]][Other(f)]]]
  /\ disturbed' = disturbed \cup {w \in {v} : InFlight(v) # {}}
  /\ UNCHANGED <<flags, m7, lost, inForce>>

\* getEventoPadraoM7
Ask(r) ==
  /\ req[r].phase = "ask"
  /\ LET q == req[r] IN
     \/ req' = [req EXCEPT ![r] =
          [phase |-> "send", vehicle |-> q.vehicle, field |-> q.field,
           value |-> q.value, other |-> m7[q.vehicle][Other(q.field)]]]
     \/ End(r)
  /\ UNCHANGED <<flags, m7, lost, inForce, disturbed>>

Sent(q) == [f \in Fields |-> IF f = q.field THEN q.value ELSE q.other]

\* M7 carries the command out.
Serve(r) ==
  /\ req[r].phase = "send"
  /\ m7' = [m7 EXCEPT ![req[r].vehicle] = Sent(req[r])]
  /\ req' = [req EXCEPT ![r].phase = "answered"]
  /\ UNCHANGED <<flags, lost, inForce, disturbed>>

\* M7 refuses the command, in the answer or by its status; or it never arrives.
Refuse(r) ==
  /\ req[r].phase = "send"
  /\ End(r)
  /\ UNCHANGED <<flags, m7, lost, inForce, disturbed>>

\* Mutant: the write is skipped when the flag is to be switched off.
PersistOnlyOn(r) ==
  LET q == req[r] IN
  /\ q.phase = "answered"
  /\ flags' = IF UserOf[q.vehicle] # NoUser /\ q.value
              THEN [flags EXCEPT ![UserOf[q.vehicle]][q.field] = TRUE]
              ELSE flags
  /\ End(r)
  /\ UNCHANGED <<m7, lost, inForce, disturbed>>

\* The flag of the command is written for the user of the vehicle, if it has one.
Persist(r) ==
  LET q == req[r] IN
  /\ q.phase = "answered"
  /\ flags' = IF UserOf[q.vehicle] # NoUser
              THEN [flags EXCEPT ![UserOf[q.vehicle]][q.field] = q.value]
              ELSE flags
  /\ End(r)
  /\ UNCHANGED <<m7, lost, inForce, disturbed>>

\* The answer does not arrive within M7_REQUEST_TIMEOUT, or the write fails and
\* the error is only logged.
NotPersisted(r) ==
  /\ req[r].phase = "answered"
  /\ lost < MaxLost
  /\ lost' = lost + 1
  /\ disturbed' = disturbed \cup {v \in {req[r].vehicle} : UserOf[v] # NoUser}
  /\ End(r)
  /\ UNCHANGED <<flags, m7, inForce>>

\* A row, or its user, becomes active or ceases to be, as the lists of Hinova and the
\* panel have it.
Toggle(row) ==
  /\ inForce' = IF row \in inForce THEN inForce \ {row} ELSE inForce \cup {row}
  /\ UNCHANGED <<flags, m7, req, lost, disturbed>>

Request(r) == Ask(r) \/ Serve(r) \/ Refuse(r) \/ Persist(r) \/ NotPersisted(r)

Next ==
  \/ \E r \in Requests : Request(r)
  \/ \E r \in Requests, v \in Vehicles, f \in Fields, value \in BOOLEAN :
       Start(r, v, f, value)
  \/ \E row \in UserVehicle : Toggle(row)

Spec == Init /\ [][Next]_vars

-----------------------------------------------------------------------------
(* What the app is told: getAncoraStatus and getIgnicaoStatus *)

AncoraStatus(v) == UserOf[v] # NoUser /\ flags[UserOf[v]].ancora

IgnicaoStatus(v) ==
  LET rows == {i \in DOMAIN RowsOf[v] : <<v, RowsOf[v][i]>> \in inForce}
  IN  \E i \in rows : (\A j \in rows : i <= j) /\ flags[RowsOf[v][i]].ignicao

-----------------------------------------------------------------------------
(* Properties *)

Asked == [phase : {"ask"}, vehicle : Vehicles, field : Fields, value : BOOLEAN]
Sending == [phase : {"send", "answered"}, vehicle : Vehicles, field : Fields,
            value : BOOLEAN, other : BOOLEAN]

\* Every variable keeps its type: a command that is sent names both flags.
TypeOK ==
  /\ flags \in [Users -> [Fields -> BOOLEAN]]
  /\ m7 \in [Vehicles -> [Fields -> BOOLEAN]]
  /\ req \in [Requests -> {Idle} \cup Asked \cup Sending]
  /\ lost \in 0..MaxLost
  /\ inForce \in SUBSET UserVehicle
  /\ disturbed \in SUBSET Vehicles

\* A vehicle whose commands came one at a time and were all answered, and whose
\* user has no other: the flags are kept per user, and M7 is per vehicle.
Orderly(v) ==
  /\ v \notin disturbed
  /\ UserOf[v] # NoUser => \A w \in Vehicles : UserOf[w] = UserOf[v] => w = v

\* "Sempre envia ambos os campos para evitar reset acidental de um pelo outro": a
\* flag of an orderly vehicle changes at M7 only by a command about this flag of
\* this vehicle, whether the other flag was read from the user's row or at M7.
NoAccidentalReset ==
  [][\A v \in Vehicles, f \in Fields :
       Orderly(v) /\ m7'[v][f] # m7[v][f] =>
         \E r \in Requests : /\ req[r].phase = "send"
                             /\ req[r].vehicle = v /\ req[r].field = f]_vars

\* While no command for an orderly vehicle is on its way, ancora-status tells what M7
\* has.  ignicao-status does so while the row that the commands write is active: else it
\* tells of another user of the vehicle, or of none.
StatusIsTrue ==
  \A v \in Vehicles :
    Orderly(v) /\ UserOf[v] # NoUser /\ InFlight(v) = {} =>
      /\ AncoraStatus(v) = m7[v].ancora
      /\ <<v, UserOf[v]>> \in inForce => IgnicaoStatus(v) = m7[v].ignicao
=============================================================================
