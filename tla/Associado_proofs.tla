---------------------------- MODULE Associado_proofs ----------------------------
(***************************************************************************)
(* Proofs about what an associado keeps and asks for: the vehicles         *)
(* (VehicleCommands, for any vehicles, users and requests, and VehicleSync,*)
(* for any vehicles and any number of lists written at once), and, through *)
(* the instances of MCAssociado, the provider of a vehicle                 *)
(* (ProviderSelection), the files of a row (StoredPhotos) and the account  *)
(* of a CPF (FirstAccess): what holds of each of them by itself, and of    *)
(* the composition.  A proof has one lemma per action, or group of like    *)
(* actions, that keeps the component's invariant.                          *)
(***************************************************************************)
EXTENDS MCAssociado, Integers, Sequences, SequenceTheorems, TLAPS

-----------------------------------------------------------------------------
(***************************************************************************)
(* Commands.                                                               *)
(*                                                                         *)
(* The properties are not inductive: that a command resets nothing rests   *)
(* on the user's flags being those of M7 when it read them, which rests on *)
(* what the command before it left behind.  The invariant says, of orderly *)
(* vehicles, that one command at a time is on its way, that the flag it    *)
(* carries along is the one M7 has, and how far the two sides differ.      *)
(***************************************************************************)

Moving(r, v) == req[r] # Idle /\ req[r].vehicle = v
Owned(v)     == UserOf[v] # NoUser

OneAtATime ==
  \A v \in Vehicles \ disturbed : \A r, s \in Requests :
    Moving(r, v) /\ Moving(s, v) => r = s

OtherIsAsAtM7 ==
  \A v \in Vehicles, r \in Requests :
    Orderly(v) /\ Moving(r, v) /\ req[r].phase = "send"
      => req[r].other = m7[v][Other(req[r].field)]

\* Between Serve and Persist the two sides differ by the command, else not at all.
Ahead(v, r) ==
  \A f \in Fields :
    m7[v][f] = IF f = req[r].field THEN req[r].value ELSE flags[UserOf[v]][f]
Level(v) == \A f \in Fields : m7[v][f] = flags[UserOf[v]][f]

Agreement ==
  \A v \in Vehicles : Orderly(v) /\ Owned(v) =>
    /\ (\A r \in Requests : Moving(r, v) => req[r].phase # "answered") => Level(v)
    /\ \A r \in Requests :
         Moving(r, v) /\ req[r].phase = "answered" => Ahead(v, r)

CommandsInv == TypeOK /\ OneAtATime /\ OtherIsAsAtM7 /\ Agreement

-----------------------------------------------------------------------------
\* The user of a vehicle is that of its first row, or nobody.
LEMMA UserOfIs ==
  /\ MaxLost \in Nat /\ NoUser \notin Users
  /\ UserOf \in [Vehicles -> Users \cup {NoUser}]
  /\ \A v \in Vehicles : UserOf[v] # NoUser =>
       /\ 1 \in DOMAIN RowsOf[v] /\ RowsOf[v][1] = UserOf[v]
       /\ \A i \in DOMAIN RowsOf[v] : i \in Nat /\ 1 <= i
<1>1. ASSUME NEW v \in Vehicles, RowsOf[v] # <<>>
      PROVE  /\ Head(RowsOf[v]) \in Users /\ Head(RowsOf[v]) = RowsOf[v][1]
             /\ 1 \in DOMAIN RowsOf[v]
             /\ \A i \in DOMAIN RowsOf[v] : i \in Nat /\ 1 <= i
  <2>1. RowsOf[v] \in Seq(Users)
    BY CommandsAssumption
  <2>2. DOMAIN RowsOf[v] = 1..Len(RowsOf[v]) /\ Len(RowsOf[v]) \in Nat /\ Len(RowsOf[v]) # 0
    BY <1>1, <2>1
  <2>3. QED BY <1>1, <2>1, <2>2
<1>2. QED BY <1>1, CommandsAssumption DEF UserOf

-----------------------------------------------------------------------------
LEMMA CommandsInitInv == Init => CommandsInv
<1> SUFFICES ASSUME Init PROVE CommandsInv
  OBVIOUS
<1>1. TypeOK
  BY UserOfIs DEF Init, TypeOK, Fields
<1>2. \A r \in Requests : req[r] = Idle
  BY Zenon DEF Init
<1>3. OneAtATime /\ OtherIsAsAtM7
  BY <1>2 DEF OneAtATime, OtherIsAsAtM7, Moving
<1>4. Agreement
  BY <1>2, UserOfIs DEF Init, Agreement, Moving, Level, Owned
<1> QED
  BY <1>1, <1>3, <1>4 DEF CommandsInv

-----------------------------------------------------------------------------
(* What the steps share: the record of a request, and what other vehicles and  *)
(* other requests keep.                                                        *)

LEMMA RequestShape ==
  ASSUME TypeOK, NEW r \in Requests
  PROVE  /\ req[r] = Idle => req[r].phase = "idle"
         /\ req[r].phase = "ask" => req[r] \in Asked
         /\ req[r].phase \in {"send", "answered"} => req[r] \in Sending
         /\ req[r] # Idle => req[r] \in Asked \cup Sending
  BY DEF TypeOK, Idle, Asked, Sending

LEMMA OrderlyBefore ==
  ASSUME NEW v \in Vehicles, disturbed \subseteq disturbed', Orderly(v)'
  PROVE  Orderly(v)
  BY DEF Orderly

\* A request that ends, without m7 or flags changing, leaves the invariant: if it
\* was answered, its vehicle is disturbed or is nobody's.
LEMMA EndKeepsInv ==
  ASSUME CommandsInv, NEW q \in Requests, End(q), UNCHANGED <<flags, m7, inForce>>,
         disturbed \subseteq disturbed', disturbed' \subseteq Vehicles,
         lost' \in 0..MaxLost,
         req[q].phase = "answered" =>
           req[q].vehicle \in disturbed' \/ UserOf[req[q].vehicle] = NoUser
  PROVE  CommandsInv'
<1> USE DEF CommandsInv
<1>1. TypeOK'
  BY DEF TypeOK, End
<1>2. \A r \in Requests : req'[r] = IF r = q THEN Idle ELSE req[r]
  BY DEF TypeOK, End
<1>3. \A v \in Vehicles, r \in Requests : Moving(r, v)' => Moving(r, v) /\ req'[r] = req[r]
  BY <1>2 DEF Moving
<1>4. OneAtATime'
  BY <1>3 DEF OneAtATime
<1>5. OtherIsAsAtM7'
  BY <1>3, OrderlyBefore DEF OtherIsAsAtM7
<1>6. Agreement'
  <2> SUFFICES ASSUME NEW v \in Vehicles, Orderly(v)', Owned(v)
               PROVE  /\ (\A r \in Requests : Moving(r, v)' => req'[r].phase # "answered")
                           => Level(v)'
                      /\ \A r \in Requests :
                           Moving(r, v)' /\ req'[r].phase = "answered" => Ahead(v, r)'
    BY DEF Agreement, Owned
  <2>1. Orderly(v)
    BY OrderlyBefore
  <2>2. Moving(q, v) => req[q].phase # "answered"
    BY DEF Moving, Orderly, Owned
  <2>3. ASSUME \A r \in Requests : Moving(r, v)' => req'[r].phase # "answered"
        PROVE  Level(v)'
    <3>1. \A r \in Requests : Moving(r, v) => req[r].phase # "answered"
      BY <1>2, <2>2, <2>3 DEF Moving
    <3> QED
      BY <2>1, <3>1 DEF Agreement, Level
  <2>4. ASSUME NEW r \in Requests, Moving(r, v)', req'[r].phase = "answered"
        PROVE  Ahead(v, r)'
    BY <1>3, <2>1, <2>4 DEF Agreement, Ahead
  <2> QED
    BY <2>3, <2>4
<1> QED
  BY <1>1, <1>4, <1>5, <1>6

LEMMA StartKeepsInv ==
  ASSUME CommandsInv, NEW q \in Requests, NEW v0 \in Vehicles, NEW f0 \in Fields,
         NEW b0 \in BOOLEAN, Start(q, v0, f0, b0)
  PROVE  CommandsInv'
<1> USE UserOfIs DEF CommandsInv
<1> DEFINE asked == [phase |-> "ask", vehicle |-> v0, field |-> f0, value |-> b0]
           sent  == [phase |-> "send", vehicle |-> v0, field |-> f0, value |-> b0,
                     other |-> flags[UserOf[v0]][Other(f0)]]
           new   == IF UserOf[v0] = NoUser THEN asked ELSE sent
<1>1. /\ req[q] = Idle /\ UNCHANGED <<flags, m7, lost, inForce>>
      /\ disturbed' = disturbed \cup {w \in {v0} : InFlight(v0) # {}}
      /\ req' = [req EXCEPT ![q] = new]
  BY DEF Start
<1>2. /\ asked \in Asked
      /\ UserOf[v0] # NoUser => sent \in Sending
  <2>1. Other(f0) \in Fields
    BY DEF Other, Fields
  <2>2. UserOf[v0] # NoUser => flags[UserOf[v0]][Other(f0)] \in BOOLEAN
    BY <2>1 DEF TypeOK
  <2> QED
    BY <2>2 DEF Asked, Sending
<1>3. /\ new.vehicle = v0 /\ new.field = f0 /\ new # Idle
      /\ new.phase = IF UserOf[v0] = NoUser THEN "ask" ELSE "send"
      /\ UserOf[v0] # NoUser => new.other = flags[UserOf[v0]][Other(f0)]
  BY DEF Idle
<1>4. TypeOK'
  <2>1. req' \in [Requests -> {Idle} \cup Asked \cup Sending]
    BY <1>1, <1>2 DEF TypeOK
  <2> QED
    BY <1>1, <2>1 DEF TypeOK
<1>5. \A r \in Requests : req'[r] = IF r = q THEN new ELSE req[r]
  BY <1>1 DEF TypeOK
<1> HIDE DEF new
<1>6. disturbed \subseteq disturbed'
  BY <1>1
<1>7. \A v \in Vehicles, r \in Requests :
        Moving(r, v)' <=> Moving(r, v) \/ (r = q /\ v = v0)
  BY <1>1, <1>3, <1>5 DEF Moving
<1>8. v0 \notin disturbed' => \A r \in Requests : ~Moving(r, v0)
  BY <1>1 DEF InFlight, Moving
<1>9. OneAtATime'
  BY <1>6, <1>7, <1>8 DEF OneAtATime
<1>10. OtherIsAsAtM7'
  <2> SUFFICES ASSUME NEW v \in Vehicles, NEW r \in Requests,
                      Orderly(v)', Moving(r, v)', req'[r].phase = "send"
               PROVE  req'[r].other = m7'[v][Other(req'[r].field)]
    BY DEF OtherIsAsAtM7, Orderly
  <2>1. Orderly(v)
    BY <1>6, OrderlyBefore
  <2>2. CASE r # q
    BY <1>1, <1>5, <1>7, <2>1, <2>2 DEF OtherIsAsAtM7
  <2>3. CASE r = q
    <3>1. v = v0 /\ UserOf[v0] # NoUser
      BY <1>1, <1>3, <1>5, <1>7, <2>3 DEF Moving
    <3>2. \A s \in Requests : ~Moving(s, v0)
      BY <1>8, <3>1 DEF Orderly
    <3>3. Level(v0)
      BY <2>1, <3>1, <3>2 DEF Agreement, Owned
    <3>4. Other(f0) \in Fields
      BY DEF Other, Fields
    <3> QED
      BY <1>1, <1>3, <1>5, <2>3, <3>1, <3>3, <3>4 DEF Level
  <2> QED
    BY <2>2, <2>3
<1>11. Agreement'
  <2> SUFFICES ASSUME NEW v \in Vehicles, Orderly(v)', Owned(v)
               PROVE  /\ (\A r \in Requests : Moving(r, v)' => req'[r].phase # "answered")
                           => Level(v)'
                      /\ \A r \in Requests :
                           Moving(r, v)' /\ req'[r].phase = "answered" => Ahead(v, r)'
    BY DEF Agreement, Owned
  <2>1. Orderly(v)
    BY <1>6, OrderlyBefore
  <2>2. ASSUME \A r \in Requests : Moving(r, v)' => req'[r].phase # "answered"
        PROVE  Level(v)'
    <3>1. \A r \in Requests : Moving(r, v) => req[r].phase # "answered"
      BY <1>1, <1>5, <1>7, <2>2 DEF Moving
    <3> QED
      BY <1>1, <2>1, <3>1 DEF Agreement, Level
  <2>3. ASSUME NEW r \in Requests, Moving(r, v)', req'[r].phase = "answered"
        PROVE  Ahead(v, r)'
    <3>1. r # q /\ Moving(r, v) /\ req'[r] = req[r]
      BY <1>3, <1>5, <1>7, <2>3
    <3> QED
      BY <1>1, <2>1, <2>3, <3>1 DEF Agreement, Ahead
  <2> QED
    BY <2>2, <2>3
<1> QED
  BY <1>4, <1>9, <1>10, <1>11

\* A request that stays with its vehicle, from "ask" to "send" or from "send" to
\* "answered", changes neither who moves nor whose vehicle is disturbed.
LEMMA GoesOn ==
  ASSUME TypeOK, NEW q \in Requests, NEW new,
         req' = [req EXCEPT ![q] = new], req[q] # Idle, new # Idle,
         new.vehicle = req[q].vehicle, UNCHANGED disturbed
  PROVE  /\ \A r \in Requests : req'[r] = IF r = q THEN new ELSE req[r]
         /\ \A v \in Vehicles, r \in Requests : Moving(r, v)' <=> Moving(r, v)
         /\ OneAtATime => OneAtATime'
<1>1. \A r \in Requests : req'[r] = IF r = q THEN new ELSE req[r]
  BY DEF TypeOK
<1>2. \A v \in Vehicles, r \in Requests : Moving(r, v)' <=> Moving(r, v)
  BY <1>1 DEF Moving
<1> QED
  BY <1>1, <1>2 DEF OneAtATime

LEMMA AskKeepsInv ==
  ASSUME CommandsInv, NEW q \in Requests, Ask(q)
  PROVE  CommandsInv'
<1> USE DEF CommandsInv
<1> DEFINE new == [phase |-> "send", vehicle |-> req[q].vehicle,
                   field |-> req[q].field, value |-> req[q].value,
                   other |-> m7[req[q].vehicle][Other(req[q].field)]]
<1>1. /\ req[q].phase = "ask" /\ UNCHANGED <<flags, m7, lost, inForce, disturbed>>
      /\ End(q) \/ req' = [req EXCEPT ![q] = new]
  BY DEF Ask
<1>2. CASE End(q)
  BY <1>1, <1>2, EndKeepsInv DEF TypeOK
<1>3. CASE req' = [req EXCEPT ![q] = new]
  <2>1. req[q] \in Asked
    BY <1>1, RequestShape
  <2>2. new \in Sending
    <3>1. Other(req[q].field) \in Fields
      BY DEF Other, Fields
    <3>2. m7[req[q].vehicle][Other(req[q].field)] \in BOOLEAN
      BY <2>1, <3>1 DEF TypeOK, Asked
    <3> QED
      BY <2>1, <3>2 DEF Asked, Sending
  <2>3. TypeOK'
    BY <1>1, <1>3, <2>2 DEF TypeOK
  <2>4. /\ new # Idle /\ req[q] # Idle /\ new.vehicle = req[q].vehicle
        /\ new.phase = "send" /\ new.field = req[q].field
        /\ new.other = m7[req[q].vehicle][Other(req[q].field)]
    BY <1>1, <2>1 DEF Idle, Asked
  <2> HIDE DEF new
  <2>5. /\ \A r \in Requests : req'[r] = IF r = q THEN new ELSE req[r]
        /\ \A v \in Vehicles, r \in Requests : Moving(r, v)' <=> Moving(r, v)
        /\ OneAtATime'
    BY <1>1, <1>3, <2>4, GoesOn
  <2>6. OtherIsAsAtM7'
    BY <1>1, <2>4, <2>5 DEF OtherIsAsAtM7, Orderly, Moving
  <2>7. Agreement'
    <3>1. \A r \in Requests : req'[r].phase = "answered" =>
                               req[r].phase = "answered" /\ req'[r] = req[r]
      BY <2>4, <2>5
    <3>2. \A r \in Requests : req[r].phase = "answered" => req'[r].phase = "answered"
      BY <1>1, <2>5
    <3> QED
      BY <1>1, <2>5, <3>1, <3>2 DEF Agreement, Orderly, Owned, Ahead, Level
  <2> QED
    BY <2>3, <2>5, <2>6, <2>7
<1> QED
  BY <1>1, <1>2, <1>3

LEMMA ServeKeepsInv ==
  ASSUME CommandsInv, NEW q \in Requests, Serve(q)
  PROVE  CommandsInv'
<1> USE DEF CommandsInv
<1> DEFINE new == [req[q] EXCEPT !.phase = "answered"]
           v0  == req[q].vehicle
<1>1. /\ req[q].phase = "send" /\ UNCHANGED <<flags, lost, inForce, disturbed>>
      /\ req' = [req EXCEPT ![q] = new]
      /\ m7' = [m7 EXCEPT ![v0] = Sent(req[q])]
  BY DEF Serve
<1>2. req[q] \in Sending
  BY <1>1, RequestShape
<1>3. /\ new \in Sending /\ v0 \in Vehicles
      /\ new.vehicle = v0 /\ new.phase = "answered" /\ new.value = req[q].value
      /\ new.field = req[q].field /\ new # Idle /\ req[q] # Idle
  BY <1>2 DEF Sending, Idle
<1>4. Sent(req[q]) \in [Fields -> BOOLEAN]
  BY <1>2 DEF Sent, Sending
<1>5. TypeOK'
  BY <1>1, <1>3, <1>4 DEF TypeOK
<1> HIDE DEF new
<1>6. /\ \A r \in Requests : req'[r] = IF r = q THEN new ELSE req[r]
      /\ \A v \in Vehicles, r \in Requests : Moving(r, v)' <=> Moving(r, v)
      /\ OneAtATime'
  BY <1>1, <1>3, GoesOn
<1>7. \A v \in Vehicles : v # v0 => m7'[v] = m7[v]
  BY <1>1 DEF TypeOK
<1>8. \A f \in Fields : m7'[v0][f] = IF f = req[q].field THEN req[q].value
                                                          ELSE req[q].other
  BY <1>1, <1>3 DEF TypeOK, Sent
<1>9. v0 \notin disturbed => \A r \in Requests : Moving(r, v0) => r = q
  BY <1>3 DEF OneAtATime, Moving
<1>10. OtherIsAsAtM7'
  <2> SUFFICES ASSUME NEW v \in Vehicles, NEW r \in Requests,
                      Orderly(v)', Moving(r, v)', req'[r].phase = "send"
               PROVE  req'[r].other = m7'[v][Other(req'[r].field)]
    BY DEF OtherIsAsAtM7, Orderly
  <2>1. Orderly(v) /\ Moving(r, v) /\ r # q /\ req'[r] = req[r]
    BY <1>1, <1>3, <1>6 DEF Orderly
  <2>2. v # v0
    BY <1>9, <2>1 DEF Orderly
  <2> QED
    BY <1>7, <2>1, <2>2 DEF OtherIsAsAtM7
<1>11. Agreement'
  <2> SUFFICES ASSUME NEW v \in Vehicles, Orderly(v)', Owned(v)
               PROVE  /\ (\A r \in Requests : Moving(r, v)' => req'[r].phase # "answered")
                           => Level(v)'
                      /\ \A r \in Requests :
                           Moving(r, v)' /\ req'[r].phase = "answered" => Ahead(v, r)'
    BY DEF Agreement, Owned
  <2>1. Orderly(v)
    BY <1>1 DEF Orderly
  <2>2. CASE v # v0
    <3>1. \A r \in Requests : Moving(r, v) => r # q /\ req'[r] = req[r]
      BY <1>6, <2>2 DEF Moving
    <3> QED
      BY <1>1, <1>6, <1>7, <2>1, <2>2, <3>1 DEF Agreement, Ahead, Level
  <2>3. CASE v = v0
    <3>1. Moving(q, v) /\ \A r \in Requests : Moving(r, v) => r = q
      BY <1>3, <1>9, <2>1, <2>3 DEF Orderly, Moving
    <3>2. Level(v)
      BY <1>1, <2>1, <3>1 DEF Agreement
    <3>3. req[q].other = m7[v][Other(req[q].field)]
      BY <1>1, <2>1, <3>1 DEF OtherIsAsAtM7
    <3>4. \A f \in Fields : f # req[q].field => f = Other(req[q].field)
      BY <1>2 DEF Sending, Fields, Other
    <3>5. \A f \in Fields : m7'[v][f] = IF f = req[q].field THEN req[q].value
                                                            ELSE flags[UserOf[v]][f]
      BY <1>8, <2>3, <3>2, <3>3, <3>4 DEF Level
    <3>6. Ahead(v, q)'
      BY <1>1, <1>3, <1>6, <3>5 DEF Ahead
    <3> QED
      BY <1>3, <1>6, <3>1, <3>6
  <2> QED
    BY <2>2, <2>3
<1> QED
  BY <1>5, <1>6, <1>10, <1>11

LEMMA PersistKeepsInv ==
  ASSUME CommandsInv, NEW q \in Requests, Persist(q)
  PROVE  CommandsInv'
<1> USE UserOfIs DEF CommandsInv
<1> DEFINE v0 == req[q].vehicle
           u0 == UserOf[req[q].vehicle]
<1>1. /\ req[q].phase = "answered" /\ UNCHANGED <<m7, lost, inForce, disturbed>> /\ End(q)
      /\ flags' = IF u0 # NoUser THEN [flags EXCEPT ![u0][req[q].field] = req[q].value]
                                 ELSE flags
  BY DEF Persist
<1>2. CASE u0 = NoUser
  BY <1>1, <1>2, EndKeepsInv DEF TypeOK
<1>3. CASE u0 # NoUser
  <2>1. /\ req[q] \in Sending /\ v0 \in Vehicles /\ u0 \in Users /\ req[q] # Idle
        /\ req[q].field \in Fields /\ req[q].value \in BOOLEAN
    BY <1>1, <1>3, RequestShape DEF Sending, Idle
  <2>2. TypeOK'
    BY <1>1, <1>3, <2>1 DEF TypeOK, End
  <2>3. \A r \in Requests : req'[r] = IF r = q THEN Idle ELSE req[r]
    BY <1>1 DEF TypeOK, End
  <2>4. \A v \in Vehicles, r \in Requests :
          Moving(r, v)' => r # q /\ Moving(r, v) /\ req'[r] = req[r]
    BY <2>3 DEF Moving
  <2>5. OneAtATime'
    BY <1>1, <2>4 DEF OneAtATime
  <2>6. OtherIsAsAtM7'
    BY <1>1, <2>4 DEF OtherIsAsAtM7, Orderly
  <2>7. /\ \A f \in Fields : flags'[u0][f] = IF f = req[q].field THEN req[q].value
                                                                ELSE flags[u0][f]
        /\ \A u \in Users : u # u0 => flags'[u] = flags[u]
    BY <1>1, <1>3, <2>1 DEF TypeOK
  <2>8. Agreement'
    <3> SUFFICES ASSUME NEW v \in Vehicles, Orderly(v)', Owned(v)
                 PROVE  /\ (\A r \in Requests : Moving(r, v)' => req'[r].phase # "answered")
                             => Level(v)'
                        /\ \A r \in Requests :
                             Moving(r, v)' /\ req'[r].phase = "answered" => Ahead(v, r)'
      BY DEF Agreement, Owned
    <3>1. Orderly(v)
      BY <1>1 DEF Orderly
    <3>2. CASE v # v0
      <4>1. UserOf[v] \in Users /\ UserOf[v] # u0
        BY <2>1, <3>1, <3>2 DEF Orderly, Owned
      <4>2. flags'[UserOf[v]] = flags[UserOf[v]]
        BY <2>7, <4>1
      <4>3. ~Moving(q, v)
        BY <3>2 DEF Moving
      <4>4. (\A r \in Requests : Moving(r, v)' => req'[r].phase # "answered")
              => \A r \in Requests : Moving(r, v) => req[r].phase # "answered"
        BY <2>3, <4>3 DEF Moving
      <4> QED
        BY <1>1, <2>4, <3>1, <4>2, <4>4 DEF Agreement, Ahead, Level
    <3>3. CASE v = v0
      <4>1. Moving(q, v)
        BY <2>1, <3>3 DEF Moving
      <4>2. Ahead(v, q)
        BY <1>1, <3>1, <4>1 DEF Agreement
      <4>3. Level(v)'
        BY <1>1, <2>7, <3>3, <4>2 DEF Ahead, Level
      <4>4. \A r \in Requests : ~Moving(r, v)'
        BY <2>4, <3>1, <4>1 DEF OneAtATime, Orderly
      <4> QED
        BY <4>3, <4>4
    <3> QED
      BY <3>2, <3>3
  <2> QED
    BY <2>2, <2>5, <2>6, <2>8
<1> QED
  BY <1>2, <1>3

LEMMA NotPersistedKeepsInv ==
  ASSUME CommandsInv, NEW q \in Requests, NotPersisted(q)
  PROVE  CommandsInv'
<1> USE UserOfIs DEF CommandsInv
<1>1. /\ req[q].phase = "answered" /\ lost < MaxLost /\ lost' = lost + 1
      /\ disturbed' = disturbed \cup {v \in {req[q].vehicle} : UserOf[v] # NoUser}
      /\ End(q) /\ UNCHANGED <<flags, m7, inForce>>
  BY DEF NotPersisted
<1>2. req[q].vehicle \in Vehicles
  BY <1>1, RequestShape DEF Sending
<1>3. disturbed \subseteq disturbed' /\ disturbed' \subseteq Vehicles
  BY <1>1, <1>2 DEF TypeOK
<1>4. lost' \in 0..MaxLost
  BY <1>1 DEF TypeOK
<1>5. req[q].vehicle \in disturbed' \/ UserOf[req[q].vehicle] = NoUser
  BY <1>1
<1> QED
  BY <1>1, <1>3, <1>4, <1>5, EndKeepsInv

LEMMA RefuseKeepsInv ==
  ASSUME CommandsInv, NEW q \in Requests, Refuse(q)
  PROVE  CommandsInv'
<1>1. req[q].phase = "send" /\ End(q) /\ UNCHANGED <<flags, m7, lost, inForce, disturbed>>
  BY DEF Refuse
<1> QED
  BY <1>1, EndKeepsInv DEF CommandsInv, TypeOK

LEMMA ToggleKeepsInv ==
  ASSUME CommandsInv, NEW row \in UserVehicle, Toggle(row)
  PROVE  CommandsInv'
<1>1. UNCHANGED <<flags, m7, req, lost, disturbed>> /\ inForce' \in SUBSET UserVehicle
  BY DEF Toggle, CommandsInv, TypeOK
<1> QED
  BY <1>1 DEF CommandsInv, TypeOK, OneAtATime, OtherIsAsAtM7, Agreement, Moving,
              Orderly, Owned, Level, Ahead

LEMMA CommandsNextInv == CommandsInv /\ [Next]_vars => CommandsInv'
<1> SUFFICES ASSUME CommandsInv, [Next]_vars PROVE CommandsInv'
  OBVIOUS
<1>1. ASSUME NEW r \in Requests, NEW v \in Vehicles, NEW f \in Fields,
             NEW value \in BOOLEAN, Start(r, v, f, value)
      PROVE  CommandsInv'
  BY <1>1, StartKeepsInv
<1>2. ASSUME NEW r \in Requests, Request(r) PROVE CommandsInv'
  BY <1>2, AskKeepsInv, ServeKeepsInv, RefuseKeepsInv, PersistKeepsInv,
     NotPersistedKeepsInv DEF Request
<1>3. ASSUME NEW row \in UserVehicle, Toggle(row) PROVE CommandsInv'
  BY <1>3, ToggleKeepsInv
<1>4. CASE UNCHANGED vars
  BY <1>4 DEF vars, CommandsInv, TypeOK, OneAtATime, OtherIsAsAtM7, Agreement, Moving,
              Orderly, Owned, Level, Ahead
<1> QED
  BY <1>1, <1>2, <1>3, <1>4 DEF Next

LEMMA CommandsInvHolds == Spec => []CommandsInv
  BY CommandsInitInv, CommandsNextInv, PTL DEF Spec

-----------------------------------------------------------------------------
\* What a step does to M7: only Serve changes it, to a vehicle of its own.
LEMMA OnlyServeReaches ==
  ASSUME CommandsInv, [Next]_vars, NEW v \in Vehicles, m7'[v] # m7[v]
  PROVE  \E q \in Requests : Serve(q) /\ Moving(q, v)
<1>1. PICK q \in Requests : Serve(q)
  BY DEF Next, Request, vars, Start, Ask, Refuse, Persist, NotPersisted, Toggle
<1>2. req[q] \in Sending
  BY <1>1, RequestShape DEF Serve, CommandsInv
<1>3. v = req[q].vehicle
  BY <1>1 DEF Serve, CommandsInv, TypeOK
<1> QED
  BY <1>1, <1>2, <1>3 DEF Moving, Sending, Idle

\* NoAccidentalReset holds for any number of vehicles, users and commands: a
\* command that is served changes no flag but its own at M7.
THEOREM NothingIsReset == Spec => NoAccidentalReset
<1> DEFINE Step == \A v \in Vehicles, f \in Fields :
                     Orderly(v) /\ m7'[v][f] # m7[v][f] =>
                       \E r \in Requests : /\ req[r].phase = "send"
                                           /\ req[r].vehicle = v /\ req[r].field = f
<1>1. CommandsInv /\ [Next]_vars => [Step]_vars
  <2> SUFFICES ASSUME CommandsInv, [Next]_vars, NEW v \in Vehicles, NEW f \in Fields,
                      Orderly(v), m7'[v][f] # m7[v][f]
               PROVE  \E r \in Requests : /\ req[r].phase = "send"
                                          /\ req[r].vehicle = v /\ req[r].field = f
    OBVIOUS
  <2>1. PICK q \in Requests : Serve(q) /\ Moving(q, v)
    BY OnlyServeReaches
  <2>2. req[q].phase = "send" /\ req[q] \in Sending /\ req[q].vehicle = v
    BY <2>1, RequestShape DEF Serve, Moving, CommandsInv
  <2>3. m7'[v][f] = IF f = req[q].field THEN req[q].value ELSE req[q].other
    BY <2>1, <2>2 DEF Serve, Sent, CommandsInv, TypeOK
  <2>4. req[q].other = m7[v][Other(req[q].field)]
    BY <2>1, <2>2 DEF CommandsInv, OtherIsAsAtM7
  <2>5. f # req[q].field => f = Other(req[q].field)
    BY <2>2 DEF Sending, Fields, Other
  <2>6. f = req[q].field
    BY <2>3, <2>4, <2>5
  <2> QED
    BY <2>2, <2>6
<1> HIDE DEF Step
<1>2. Spec => [][Step]_vars
  BY <1>1, CommandsInvHolds, PTL DEF Spec
<1> QED
  BY <1>2 DEF Step, NoAccidentalReset

\* StatusIsTrue holds for any number of vehicles, users, rows and commands: what
\* getAncoraStatus and getIgnicaoStatus read is M7's, the latter while the row that the
\* commands write is active, for it is then the first that is.
THEOREM StatusHolds == Spec => []StatusIsTrue
<1>1. CommandsInv => StatusIsTrue
  <2> SUFFICES ASSUME CommandsInv, NEW v \in Vehicles, Orderly(v), UserOf[v] # NoUser,
                      InFlight(v) = {}
               PROVE  /\ AncoraStatus(v) = m7[v].ancora
                      /\ <<v, UserOf[v]>> \in inForce => IgnicaoStatus(v) = m7[v].ignicao
    BY DEF StatusIsTrue
  <2>1. \A r \in Requests : ~Moving(r, v)
    BY DEF InFlight, Moving
  <2>2. Level(v)
    BY <2>1 DEF CommandsInv, Agreement, Owned
  <2>3. flags[UserOf[v]] \in [Fields -> BOOLEAN] /\ m7[v] \in [Fields -> BOOLEAN]
    BY UserOfIs DEF CommandsInv, TypeOK
  <2>4. flags[UserOf[v]] = m7[v]
    BY <2>2, <2>3 DEF Level
  <2>5. /\ flags[UserOf[v]]["ancora"] = m7[v]["ancora"] /\ m7[v]["ancora"] \in BOOLEAN
        /\ flags[UserOf[v]]["ignicao"] = m7[v]["ignicao"] /\ m7[v]["ignicao"] \in BOOLEAN
    BY <2>3, <2>4 DEF Fields
  <2>6. AncoraStatus(v) = m7[v].ancora
    BY <2>5 DEF AncoraStatus
  <2>7. ASSUME <<v, UserOf[v]>> \in inForce
        PROVE  IgnicaoStatus(v) = m7[v].ignicao
    <3> DEFINE found == {i \in DOMAIN RowsOf[v] : <<v, RowsOf[v][i]>> \in inForce}
    <3>1. 1 \in found /\ RowsOf[v][1] = UserOf[v] /\ \A i \in found : i \in Nat /\ 1 <= i
      BY <2>7, UserOfIs
    <3>2. IgnicaoStatus(v)
            = \E i \in found : (\A j \in found : i <= j) /\ flags[RowsOf[v][i]].ignicao
      BY DEF IgnicaoStatus
    <3> HIDE DEF found
    <3>3. ASSUME NEW i \in found, \A j \in found : i <= j PROVE i = 1
      BY <3>1, <3>3
    <3>4. IgnicaoStatus(v) = flags[UserOf[v]].ignicao
      <4>1. IgnicaoStatus(v) => flags[RowsOf[v][1]].ignicao
        BY <3>2, <3>3
      <4>2. flags[RowsOf[v][1]].ignicao => IgnicaoStatus(v)
        BY <3>1, <3>2
      <4>3. IgnicaoStatus(v) \in BOOLEAN
        BY <3>2
      <4>4. QED BY <2>5, <3>1, <4>1, <4>2, <4>3
    <3>5. QED BY <2>5, <3>4
  <2> QED
    BY <2>6, <2>7
<1> QED
  BY <1>1, CommandsInvHolds, PTL

(***************************************************************************)
(* Lists.                                                                  *)
(*                                                                         *)
(* OwnedStaysActive rests on the lists in flight: on a vehicle that never  *)
(* moved all of them agree with Hinova.  LatestListDecides rests on the    *)
(* list in flight being the one read last, and on what was written of it.  *)
(***************************************************************************)

Writing(s) == sync[s] # NotSyncing

\* What never moved is in every list in flight or in none, as it is at Hinova.
Lists ==
  \A s \in Syncs : Writing(s) =>
    \A v \in Chassis \ moved : v \in sync[s].list <=> v \in owned

RowsTold ==
  /\ inactive \subseteq moved
  /\ active \ moved \subseteq owned

\* While nothing overlaps or fails, one list is written, the one read last.
Alone ==
  ~overlapped /\ failures = 0 =>
    /\ \A s, t \in Syncs : Writing(s) /\ Writing(t) => s = t
    /\ \A s \in Syncs : Writing(s) =>
         /\ sync[s].list = latest
         /\ latest \ sync[s].todo \subseteq active
    /\ (\A s \in Syncs : ~Writing(s)) => active = latest

SyncInv == SyncTypeOK /\ Lists /\ RowsTold /\ Alone

-----------------------------------------------------------------------------
LEMMA SyncInitInv == SyncInit => SyncInv
<1> SUFFICES ASSUME SyncInit PROVE SyncInv
  OBVIOUS
<1>1. SyncTypeOK
  <2>1. sync \in [Syncs -> {NotSyncing} \cup SyncState] /\ \A s \in Syncs : sync[s] = NotSyncing
    BY DEF SyncInit
  <2>2. 0 \in 0..MaxMoves /\ 0 \in 0..MaxFailures
    BY SyncAssumption
  <2>3. overlapped \in BOOLEAN
    BY DEF SyncInit
  <2> QED
    BY <2>1, <2>2, <2>3 DEF SyncInit, SyncTypeOK
<1>2. Lists /\ RowsTold /\ Alone
  BY DEF SyncInit, Lists, RowsTold, Alone, Writing
<1> QED
  BY <1>1, <1>2 DEF SyncInv

\* The record of a request that is writing its list.
LEMMA SyncShape ==
  ASSUME SyncTypeOK, NEW s \in Syncs
  PROVE  /\ Writing(s) <=> sync[s].phase = "upsert"
         /\ Writing(s) => /\ sync[s] \in SyncState
                          /\ sync[s].list \subseteq Chassis
                          /\ sync[s].todo \subseteq sync[s].list
  BY DEF SyncTypeOK, Writing, NotSyncing, SyncState

LEMMA MoveKeepsSyncInv ==
  ASSUME SyncInv, NEW v \in Chassis, Move(v)
  PROVE  SyncInv'
<1> USE SyncAssumption DEF SyncInv, Move, rows
<1>1. SyncTypeOK'
  BY DEF SyncTypeOK
<1>2. Lists'
  BY DEF Lists, Writing
<1>3. RowsTold'
  BY DEF RowsTold
<1>4. Alone'
  BY DEF Alone, Writing
<1> QED
  BY <1>1, <1>2, <1>3, <1>4

LEMMA ReadKeepsSyncInv ==
  ASSUME SyncInv, NEW s \in Syncs, Read(s)
  PROVE  SyncInv'
<1> USE DEF SyncInv
<1> DEFINE new == [phase |-> "upsert", list |-> owned, todo |-> owned]
<1>1. /\ sync[s] = NotSyncing /\ sync' = [sync EXCEPT ![s] = new] /\ latest' = owned
      /\ overlapped' = (overlapped \/ \E t \in Syncs : sync[t] # NotSyncing)
      /\ UNCHANGED <<owned, active, inactive, moved, moves, failures>>
  BY DEF Read, rows
<1>2. /\ new \in SyncState
      /\ new.list = owned /\ new.todo = owned /\ new # NotSyncing
  BY DEF SyncTypeOK, NotSyncing, SyncState
<1> HIDE DEF new
<1>3. \A t \in Syncs : sync'[t] = IF t = s THEN new ELSE sync[t]
  BY <1>1 DEF SyncTypeOK
<1>4. SyncTypeOK'
  BY <1>1, <1>2, <1>3 DEF SyncTypeOK
<1>5. Lists'
  BY <1>1, <1>2, <1>3 DEF Lists, Writing
<1>6. RowsTold'
  BY <1>1 DEF RowsTold
<1>7. Alone'
  <2> SUFFICES ASSUME ~overlapped', failures' = 0
               PROVE  /\ \A t, u \in Syncs : Writing(t)' /\ Writing(u)' => t = u
                      /\ \A t \in Syncs : Writing(t)' =>
                           /\ sync'[t].list = latest'
                           /\ latest' \ sync'[t].todo \subseteq active'
                      /\ (\A t \in Syncs : ~Writing(t)') => active' = latest'
    BY DEF Alone
  <2>1. \A t \in Syncs : ~Writing(t)
    BY <1>1 DEF SyncTypeOK, Writing
  <2>2. \A t \in Syncs : Writing(t)' <=> t = s
    BY <1>2, <1>3, <2>1 DEF Writing
  <2> QED
    BY <1>1, <1>2, <1>3, <2>2
<1> QED
  BY <1>4, <1>5, <1>6, <1>7

LEMMA UpsertKeepsSyncInv ==
  ASSUME SyncInv, NEW s \in Syncs, NEW v \in Chassis, Upsert(s, v)
  PROVE  SyncInv'
<1> USE DEF SyncInv
<1> DEFINE new == [phase |-> "upsert", list |-> sync[s].list,
                   todo |-> sync[s].todo \ {v}]
<1>1. /\ sync[s].phase = "upsert" /\ v \in sync[s].todo
      /\ sync' = [sync EXCEPT ![s] = new]
      /\ active' = active \cup {v} /\ inactive' = inactive \ {v}
      /\ UNCHANGED <<owned, moved, latest, overlapped, moves, failures>>
  <2>1. sync[s] = [phase |-> "upsert", list |-> sync[s].list, todo |-> sync[s].todo]
    BY SyncShape DEF Upsert, SyncState
  <2>2. [sync[s] EXCEPT !.todo = @ \ {v}] = new
    BY <2>1
  <2> QED
    BY <2>2 DEF Upsert, ghosts
<1>2. /\ Writing(s) /\ v \in sync[s].list
      /\ new \in SyncState
      /\ new.list = sync[s].list /\ new.todo = sync[s].todo \ {v} /\ new # NotSyncing
      /\ new.todo \subseteq new.list
  BY <1>1, SyncShape DEF NotSyncing, SyncState
<1> HIDE DEF new
<1>3. /\ \A t \in Syncs : sync'[t] = IF t = s THEN new ELSE sync[t]
      /\ \A t \in Syncs : Writing(t)' <=> Writing(t)
  BY <1>1, <1>2 DEF SyncTypeOK, Writing
<1>4. SyncTypeOK'
  BY <1>1, <1>2, <1>3 DEF SyncTypeOK
<1>5. Lists'
  BY <1>1, <1>2, <1>3 DEF Lists
<1>6. RowsTold'
  BY <1>1, <1>2 DEF RowsTold, Lists
<1>7. Alone'
  BY <1>1, <1>2, <1>3 DEF Alone
<1> QED
  BY <1>4, <1>5, <1>6, <1>7

\* A request that ends leaves the lists of the others as they are.
LEMMA AfterEnd ==
  ASSUME SyncTypeOK, NEW s \in Syncs, EndSync(s)
  PROVE  /\ sync' \in [Syncs -> {NotSyncing} \cup SyncState]
         /\ \A t \in Syncs : sync'[t] = IF t = s THEN NotSyncing ELSE sync[t]
         /\ \A t \in Syncs : Writing(t)' <=> Writing(t) /\ t # s
<1>1. /\ sync' \in [Syncs -> {NotSyncing} \cup SyncState]
      /\ \A t \in Syncs : sync'[t] = IF t = s THEN NotSyncing ELSE sync[t]
  BY DEF SyncTypeOK, EndSync
<1> QED
  BY <1>1 DEF Writing

LEMMA DeactivateKeepsSyncInv ==
  ASSUME SyncInv, NEW s \in Syncs, Deactivate(s)
  PROVE  SyncInv'
<1> USE DEF SyncInv
<1>1. /\ sync[s].phase = "upsert" /\ sync[s].todo = {} /\ EndSync(s)
      /\ active' = active \cap sync[s].list
      /\ inactive' = inactive \cup (active \ sync[s].list)
      /\ UNCHANGED <<owned, moved, latest, overlapped, moves, failures>>
  BY DEF Deactivate, ghosts
<1>2. Writing(s) /\ sync[s].list \subseteq Chassis
  BY <1>1, SyncShape
<1>3. /\ sync' \in [Syncs -> {NotSyncing} \cup SyncState]
      /\ \A t \in Syncs : sync'[t] = IF t = s THEN NotSyncing ELSE sync[t]
      /\ \A t \in Syncs : Writing(t)' <=> Writing(t) /\ t # s
  BY <1>1, AfterEnd
<1>4. SyncTypeOK'
  BY <1>1, <1>2, <1>3 DEF SyncTypeOK
<1>5. Lists'
  BY <1>1, <1>3 DEF Lists
<1>6. RowsTold'
  BY <1>1, <1>2 DEF RowsTold, Lists, SyncTypeOK
<1>7. Alone'
  BY <1>1, <1>2, <1>3 DEF Alone
<1> QED
  BY <1>4, <1>5, <1>6, <1>7

LEMMA FailsKeepsSyncInv ==
  ASSUME SyncInv, NEW s \in Syncs, Fails(s)
  PROVE  SyncInv'
<1> USE SyncAssumption DEF SyncInv
<1>1. /\ EndSync(s) /\ failures < MaxFailures /\ failures' = failures + 1
      /\ UNCHANGED <<owned, active, inactive, moved, latest, overlapped, moves>>
  BY DEF Fails, rows, ghosts
<1>2. /\ sync' \in [Syncs -> {NotSyncing} \cup SyncState]
      /\ \A t \in Syncs : sync'[t] = IF t = s THEN NotSyncing ELSE sync[t]
      /\ \A t \in Syncs : Writing(t)' <=> Writing(t) /\ t # s
  BY <1>1, AfterEnd
<1>3. SyncTypeOK'
  BY <1>1, <1>2 DEF SyncTypeOK
<1>4. Lists'
  BY <1>1, <1>2 DEF Lists
<1>5. RowsTold' /\ Alone'
  BY <1>1 DEF RowsTold, Alone, SyncTypeOK
<1> QED
  BY <1>3, <1>4, <1>5

LEMMA SyncNextInv == SyncInv /\ [SyncNext]_syncVars => SyncInv'
<1> SUFFICES ASSUME SyncInv, [SyncNext]_syncVars PROVE SyncInv'
  OBVIOUS
<1>1. CASE SyncNext
  BY <1>1, MoveKeepsSyncInv, ReadKeepsSyncInv, UpsertKeepsSyncInv, DeactivateKeepsSyncInv,
     FailsKeepsSyncInv DEF SyncNext
<1>2. CASE UNCHANGED syncVars
  BY <1>2 DEF syncVars, rows, ghosts, SyncInv, SyncTypeOK, Lists, RowsTold, Alone, Writing
<1> QED
  BY <1>1, <1>2

LEMMA SyncInvHolds == SyncSpec => []SyncInv
  BY SyncInitInv, SyncNextInv, PTL DEF SyncSpec

\* OwnedStaysActive holds for any number of vehicles, lists and failures.
THEOREM OwnedRowsStay == SyncSpec => []OwnedStaysActive
<1>1. SyncInv => OwnedStaysActive
  BY DEF SyncInv, RowsTold, OwnedStaysActive
<1> QED
  BY <1>1, SyncInvHolds, PTL

\* LatestListDecides holds for any number of vehicles and lists.
THEOREM LastReadWins == SyncSpec => []LatestListDecides
<1>1. SyncInv => LatestListDecides
  BY DEF SyncInv, Alone, Writing, LatestListDecides
<1> QED
  BY <1>1, SyncInvHolds, PTL

-----------------------------------------------------------------------------
USE AssociadoAssumption DEF AssociadoAssumption, Provider!ProviderAssumption,
                            Access!FirstAccessAssumption

-----------------------------------------------------------------------------
(* FirstAccess *)

\* The initial state is in order.
LEMMA AccessInit == Access!Init => Access!Inductive
<1> SUFFICES ASSUME Access!Init PROVE Access!Inductive
  OBVIOUS
<1>1. /\ account = Access!NoAccount /\ changes = 0 /\ known = {Access!CPF}
      /\ signedIn = FALSE /\ unsure = FALSE
      /\ listed \in [Access!BaseNumbers -> Access!Situations]
  BY DEF Access!Init
<1>2. access = [r \in AccountRequests |-> Access!New]
  BY DEF Access!Init
<1>3. Access!New \in [phase : Access!Phases, base : Nat, attempt : Nat]
  BY DEF Access!New, Access!Phases
<1>4. access \in [AccountRequests -> [phase : Access!Phases, base : Nat, attempt : Nat]]
  BY <1>2, <1>3
<1>5. account \in [senha : Access!Passwords, primeiroLogin : BOOLEAN, base : Nat]
  BY <1>1 DEF Access!NoAccount, Access!Passwords
<1>6. Access!TypeOK
  BY <1>1, <1>4, <1>5 DEF Access!TypeOK, Access!Passwords
<1>7. \A r \in AccountRequests : Access!RequestOK(access[r])
  BY <1>2 DEF Access!RequestOK, Access!New
<1>8. QED
  BY <1>1, <1>6, <1>7 DEF Access!Inductive, Access!AccountServesItsOwner,
                          Access!OwnerGetsIn, Access!BaseIsTheFirst

\* The fields of a request, and what it found out.
LEMMA AccessFields ==
  ASSUME Access!Inductive, NEW r \in AccountRequests
  PROVE  /\ access[r] \in [phase : Access!Phases, base : Nat, attempt : Nat]
         /\ access[r].phase \in Access!Phases
         /\ access[r].base \in Nat /\ access[r].attempt \in Nat
         /\ Access!RequestOK(access[r])
BY DEF Access!Inductive, Access!TypeOK

\* A step of one request that leaves the account to its owner and takes nothing from
\* what the others found out keeps the invariant.
LEMMA AccessRequestMoves ==
  ASSUME Access!Inductive, NEW r \in AccountRequests,
         NEW q \in [phase : Access!Phases, base : Nat, attempt : Nat],
         access' = [access EXCEPT ![r] = q],
         Access!RequestOK(q)',
         account' \in [senha : Access!Passwords, primeiroLogin : BOOLEAN, base : Nat],
         account # Access!NoAccount => account' # Access!NoAccount,
         known \subseteq known', known' \in SUBSET Access!Passwords,
         signedIn' \in BOOLEAN, signedIn' => account' # Access!NoAccount,
         unsure' \in BOOLEAN, unsure => unsure',
         UNCHANGED <<listed, changes>>,
         Access!AccountServesItsOwner'
  PROVE  Access!Inductive'
<1>1. access \in [AccountRequests -> [phase : Access!Phases, base : Nat, attempt : Nat]]
  BY DEF Access!Inductive, Access!TypeOK
<1>2. access' \in [AccountRequests -> [phase : Access!Phases, base : Nat, attempt : Nat]]
  BY <1>1
<1>3. ASSUME NEW p \in AccountRequests PROVE Access!RequestOK(access[p])'
  <2>1. CASE p = r
    BY <1>1, <2>1 DEF Access!RequestOK, Access!NoneBefore
  <2>2. CASE p # r
    <3>1. access'[p] = access[p]
      BY <1>1, <2>2
    <3>2. QED BY <3>1, AccessFields DEF Access!RequestOK, Access!NoneBefore
  <2>3. QED BY <2>1, <2>2
<1>4. Access!TypeOK'
  BY <1>2 DEF Access!Inductive, Access!TypeOK
<1>5. Access!CPF \in known'
  BY DEF Access!Inductive
<1>6. QED BY <1>3, <1>4, <1>5 DEF Access!Inductive

\* A step of one request that changes nothing but its place.
LEMMA AccessGoes ==
  ASSUME Access!Inductive, NEW r \in AccountRequests,
         NEW q \in [phase : Access!Phases, base : Nat, attempt : Nat],
         access' = [access EXCEPT ![r] = q],
         Access!RequestOK(q)',
         UNCHANGED <<account, listed, changes, known, signedIn>>,
         unsure' \in BOOLEAN, unsure => unsure'
  PROVE  Access!Inductive'
<1>1. Access!AccountServesItsOwner'
  BY DEF Access!Inductive, Access!AccountServesItsOwner, Access!OwnerGetsIn,
         Access!BaseIsTheFirst
<1>2. /\ account \in [senha : Access!Passwords, primeiroLogin : BOOLEAN, base : Nat]
      /\ known \in SUBSET Access!Passwords /\ signedIn \in BOOLEAN
      /\ signedIn => account # Access!NoAccount
  BY DEF Access!Inductive, Access!TypeOK
<1>3. QED BY <1>1, <1>2, AccessRequestMoves

\* Where a request is once it went to a phase.
LEMMA AccessGoesTo ==
  ASSUME NEW r \in AccountRequests, NEW phase \in Access!Phases, Access!Go(r, phase)
  PROVE  \E q \in [phase : Access!Phases, base : Nat, attempt : Nat] :
           access' = [access EXCEPT ![r] = q] /\ q.phase = phase
<1> DEFINE q == [phase |-> phase, base |-> 0, attempt |-> 0]
<1>1. q \in [phase : Access!Phases, base : Nat, attempt : Nat] /\ q.phase = phase
  OBVIOUS
<1>2. [Access!New EXCEPT !.phase = phase] = q
  BY DEF Access!New
<1>3. access' = [access EXCEPT ![r] = q]
  BY <1>2 DEF Access!Go
<1>4. QED BY <1>1, <1>3

\* A request may end at any time.
LEMMA AccessEnds ==
  ASSUME Access!Inductive, NEW r \in AccountRequests, Access!End(r),
         UNCHANGED <<account, listed, changes, known, signedIn>>,
         unsure' \in BOOLEAN, unsure => unsure'
  PROVE  Access!Inductive'
<1>1. PICK q \in [phase : Access!Phases, base : Nat, attempt : Nat] :
        access' = [access EXCEPT ![r] = q] /\ q.phase = "done"
  BY AccessGoesTo DEF Access!End, Access!Phases
<1>2. Access!RequestOK(q)'
  BY <1>1 DEF Access!RequestOK
<1>3. QED BY <1>1, <1>2, AccessGoes

\* A request to Hinova asks on with a base that no listed one precedes.
LEMMA AccessAsks ==
  ASSUME Access!Inductive, NEW r \in AccountRequests, NEW b \in Nat,
         NEW phase \in {"detect", "buscar"}, Access!Ask(r, phase, b),
         ~unsure' => Access!NoneBefore(b),
         UNCHANGED <<account, listed, changes, known, signedIn>>,
         unsure' \in BOOLEAN, unsure => unsure'
  PROVE  Access!Inductive'
<1>1. PICK q \in [phase : Access!Phases, base : Nat, attempt : Nat] :
        q = [phase |-> phase, base |-> b, attempt |-> 1]
  BY DEF Access!Phases
<1>2. access' = [access EXCEPT ![r] = q] /\ q.phase = phase /\ q.base = b
  BY <1>1 DEF Access!Ask
<1>3. Access!RequestOK(q)'
  BY <1>2 DEF Access!RequestOK, Access!NoneBefore
<1>4. QED BY <1>2, <1>3, AccessGoes

\* What detectBaseOrigin does after a base: a base that does not list the CPF now
\* precedes the next.
LEMMA AccessAfterBase ==
  ASSUME Access!Inductive, NEW r \in AccountRequests, NEW found \in BOOLEAN,
         access[r].phase = "detect", Access!AfterBase(r, found),
         ~unsure' /\ ~found => listed[access[r].base] = "ausente",
         UNCHANGED <<account, listed, changes, known, signedIn>>,
         unsure' \in BOOLEAN, unsure => unsure'
  PROVE  Access!Inductive'
<1>1. access[r].base \in Nat /\ (~unsure => Access!NoneBefore(access[r].base))
  BY AccessFields DEF Access!RequestOK
<1>2. CASE found
  BY <1>1, <1>2, AccessAsks DEF Access!AfterBase
<1>3. CASE ~found /\ access[r].base < Len(Bases)
  <2>1. ~unsure' => Access!NoneBefore(access[r].base + 1)
    BY <1>1, <1>3 DEF Access!NoneBefore
  <2>2. Access!Ask(r, "detect", access[r].base + 1) /\ access[r].base + 1 \in Nat
    BY <1>1, <1>3 DEF Access!AfterBase
  <2>3. QED BY <2>1, <2>2, AccessAsks
<1>4. CASE ~found /\ ~(access[r].base < Len(Bases))
  BY <1>4, AccessEnds DEF Access!AfterBase
<1>5. QED BY <1>2, <1>3, <1>4

\* primeiroAcesso up to the registration: Look, detectBaseOrigin, and the failures.
LEMMA AccessSearches ==
  ASSUME Access!Inductive, NEW r \in AccountRequests,
         \/ Access!Look(r) \/ Access!DetectInDatabase(r) \/ Access!BaseAnswers(r)
         \/ \E t \in BOOLEAN : Access!HinovaFails(r, t)
  PROVE  Access!Inductive'
<1>1. unsure \in BOOLEAN /\ account \in [senha : Access!Passwords, primeiroLogin : BOOLEAN,
                                         base : Nat]
  BY DEF Access!Inductive, Access!TypeOK
<1>2. CASE Access!Look(r)
  <2>1. UNCHANGED <<account, listed, changes, known, signedIn, unsure>>
    BY <1>2 DEF Access!Look
  <2>2. \/ Access!Go(r, "cached") \/ Access!End(r)
        \/ Access!Go(r, "reopen") /\ account # Access!NoAccount
    BY <1>2 DEF Access!Look, Access!NoAccount
  <2>3. CASE Access!End(r)
    BY <1>1, <2>1, <2>3, AccessEnds
  <2>4. ASSUME NEW phase \in {"cached", "reopen"}, Access!Go(r, phase),
               phase = "reopen" => account # Access!NoAccount
        PROVE  Access!Inductive'
    <3>1. PICK q \in [phase : Access!Phases, base : Nat, attempt : Nat] :
            access' = [access EXCEPT ![r] = q] /\ q.phase = phase
      BY <2>4, AccessGoesTo DEF Access!Phases
    <3>2. Access!RequestOK(q)'
      BY <2>1, <2>4, <3>1 DEF Access!RequestOK
    <3>3. QED BY <1>1, <2>1, <3>1, <3>2, AccessGoes
  <2>5. QED BY <2>2, <2>3, <2>4
<1>3. CASE Access!DetectInDatabase(r)
  <2>1. UNCHANGED <<account, listed, changes, known, signedIn, unsure>>
    BY <1>3 DEF Access!DetectInDatabase
  <2>2. CASE account # Access!NoAccount /\ Access!Ask(r, "buscar", account.base)
    <3>1. ~unsure' => Access!NoneBefore(account.base)
      BY <2>1, <2>2 DEF Access!Inductive, Access!AccountServesItsOwner,
                        Access!BaseIsTheFirst, Access!NoneBefore
    <3>2. QED BY <1>1, <2>1, <2>2, <3>1, AccessAsks
  <2>3. CASE Access!Ask(r, "detect", 1)
    <3>1. Access!NoneBefore(1)
      BY DEF Access!NoneBefore
    <3>2. QED BY <1>1, <2>1, <2>3, <3>1, AccessAsks
  <2>4. QED BY <1>3, <2>2, <2>3 DEF Access!DetectInDatabase
<1>4. CASE Access!BaseAnswers(r)
  <2>1. PICK found \in BOOLEAN : found = (listed[access[r].base] # "ausente")
    OBVIOUS
  <2>2. /\ access[r].phase = "detect" /\ Access!AfterBase(r, found)
        /\ UNCHANGED <<account, listed, changes, known, signedIn, unsure>>
    BY <1>4, <2>1 DEF Access!BaseAnswers, Access!At
  <2>3. QED BY <1>1, <2>1, <2>2, AccessAfterBase
<1>5. ASSUME NEW t \in BOOLEAN, Access!HinovaFails(r, t)
      PROVE  Access!Inductive'
  <2>1. UNCHANGED <<account, listed, changes, known, signedIn>>
    BY <1>5 DEF Access!HinovaFails
  <2>2. CASE t /\ access[r].attempt < MaxAttempts
    <3>1. PICK q \in [phase : Access!Phases, base : Nat, attempt : Nat] :
            q = [access[r] EXCEPT !.attempt = access[r].attempt + 1]
      <4>1. PICK n \in Nat : n = access[r].attempt + 1
        BY AccessFields
      <4>2. [access[r] EXCEPT !.attempt = n]
              \in [phase : Access!Phases, base : Nat, attempt : Nat]
        BY AccessFields
      <4>3. QED BY <4>1, <4>2
    <3>2. access' = [access EXCEPT ![r] = q] /\ unsure' = unsure
      BY <1>5, <2>2, <3>1, AccessFields DEF Access!HinovaFails, Access!Inductive,
                                            Access!TypeOK
    <3>3. q.phase = access[r].phase /\ q.base = access[r].base
      BY <3>1, AccessFields
    <3>4. Access!RequestOK(q)'
      BY <2>1, <3>2, <3>3, AccessFields DEF Access!RequestOK, Access!NoneBefore
    <3>5. QED BY <1>1, <2>1, <3>2, <3>4, AccessGoes
  <2>3. CASE ~(t /\ access[r].attempt < MaxAttempts)
    <3>1. /\ unsure' = TRUE
          /\ \/ access[r].phase = "detect" /\ Access!AfterBase(r, FALSE)
             \/ Access!End(r)
      BY <1>5, <2>3 DEF Access!HinovaFails, Access!At
    <3>2. QED BY <1>1, <2>1, <3>1, AccessAfterBase, AccessEnds
  <2>4. QED BY <2>2, <2>3
<1>6. QED BY <1>2, <1>3, <1>4, <1>5

\* The data of the associado, in the base found: what is registered is permitted there.
LEMMA AccessBuscar ==
  ASSUME Access!Inductive, NEW r \in AccountRequests, Access!BuscarAnswers(r)
  PROVE  Access!Inductive'
<1>1. /\ UNCHANGED <<account, listed, changes, known, signedIn, unsure>>
      /\ unsure \in BOOLEAN /\ access[r].phase = "buscar"
  BY DEF Access!BuscarAnswers, Access!At, Access!Inductive, Access!TypeOK
<1>2. CASE listed[access[r].base] = "permitida"
  <2>1. PICK q \in [phase : Access!Phases, base : Nat, attempt : Nat] :
          q = [phase |-> "register", base |-> access[r].base, attempt |-> 0]
    BY AccessFields DEF Access!Phases
  <2>2. [access EXCEPT ![r].phase = "register", ![r].attempt = 0] = [access EXCEPT ![r] = q]
    <3> DEFINE f == [access EXCEPT ![r].phase = "register"]
    <3>1. access \in [AccountRequests -> [phase : Access!Phases, base : Nat, attempt : Nat]]
      BY DEF Access!Inductive, Access!TypeOK
    <3>2. f = [access EXCEPT ![r] = [access[r] EXCEPT !.phase = "register"]]
      OBVIOUS
    <3>3. [f EXCEPT ![r].attempt = 0] = [f EXCEPT ![r] = [f[r] EXCEPT !.attempt = 0]]
      OBVIOUS
    <3>4. [[access[r] EXCEPT !.phase = "register"] EXCEPT !.attempt = 0] = q
      <4>1. PICK p \in Access!Phases, b \in Nat, a \in Nat :
              access[r] = [phase |-> p, base |-> b, attempt |-> a]
        BY AccessFields
      <4>2. [access[r] EXCEPT !.phase = "register"]
              = [phase |-> "register", base |-> b, attempt |-> a]
        BY <4>1
      <4>3. [[phase |-> "register", base |-> b, attempt |-> a] EXCEPT !.attempt = 0]
              = [phase |-> "register", base |-> b, attempt |-> 0]
        OBVIOUS
      <4>4. access[r].base = b
        BY <4>1
      <4>5. QED BY <2>1, <4>2, <4>3, <4>4
    <3>5. f[r] = [access[r] EXCEPT !.phase = "register"]
      BY <3>1, <3>2
    <3>6. [f EXCEPT ![r] = q] = [access EXCEPT ![r] = q]
      BY <3>1, <3>2
    <3>7. QED BY <3>3, <3>4, <3>5, <3>6
  <2>3. access' = [access EXCEPT ![r] = q]
    BY <1>2, <2>2 DEF Access!BuscarAnswers
  <2>4. Access!RequestOK(q)'
    BY <1>1, <1>2, <2>1, AccessFields DEF Access!RequestOK, Access!NoneBefore
  <2>5. QED BY <1>1, <2>3, <2>4, AccessGoes
<1>3. CASE listed[access[r].base] # "permitida"
  BY <1>1, <1>3, AccessEnds DEF Access!BuscarAnswers
<1>4. QED BY <1>2, <1>3

\* primeiroAcesso registers the CPF, in the base it found, or finds it taken.
LEMMA AccessRegister ==
  ASSUME Access!Inductive, NEW r \in AccountRequests, Access!Register(r)
  PROVE  Access!Inductive'
<1>1. /\ UNCHANGED <<listed, changes, known, signedIn, unsure>>
      /\ access[r].phase = "register"
  BY DEF Access!Register, Access!At
<1>2. /\ known \in SUBSET Access!Passwords /\ Access!CPF \in known
      /\ signedIn \in BOOLEAN /\ unsure \in BOOLEAN
  BY DEF Access!Inductive, Access!TypeOK
<1>3. CASE account = Access!NoAccount
  <2>1. account' = [senha |-> Access!CPF, primeiroLogin |-> TRUE, base |-> access[r].base]
    BY <1>3 DEF Access!Register
  <2>2. /\ account' \in [senha : Access!Passwords, primeiroLogin : BOOLEAN, base : Nat]
        /\ account' # Access!NoAccount
    BY <2>1, AccessFields DEF Access!Passwords, Access!NoAccount
  <2>3. PICK q \in [phase : Access!Phases, base : Nat, attempt : Nat] :
          access' = [access EXCEPT ![r] = q] /\ q.phase = "login"
    BY <1>3, AccessGoesTo DEF Access!Register, Access!Phases
  <2>4. Access!RequestOK(q)'
    BY <2>2, <2>3 DEF Access!RequestOK
  <2>5. Access!AccountServesItsOwner'
    BY <1>1, <2>1, AccessFields
       DEF Access!AccountServesItsOwner, Access!OwnerGetsIn, Access!BaseIsTheFirst,
           Access!RequestOK, Access!NoneBefore
  <2>6. QED BY <1>1, <1>2, <1>3, <2>2, <2>3, <2>4, <2>5, AccessRequestMoves
<1>4. CASE account # Access!NoAccount
  BY <1>1, <1>2, <1>4, AccessEnds DEF Access!Register
<1>5. QED BY <1>3, <1>4

\* What the invariant says of the account and the passwords.
LEMMA AccessTypes ==
  ASSUME Access!Inductive
  PROVE  /\ account \in [senha : Access!Passwords, primeiroLogin : BOOLEAN, base : Nat]
         /\ known \in SUBSET Access!Passwords /\ Access!CPF \in known
         /\ signedIn \in BOOLEAN /\ unsure \in BOOLEAN
         /\ signedIn => account # Access!NoAccount
         /\ Access!OwnerGetsIn /\ Access!BaseIsTheFirst
BY DEF Access!Inductive, Access!TypeOK, Access!AccountServesItsOwner

\* Sign-in, and a mail: the account stays as it is, and its owner may learn more.
LEMMA AccessSignsIn ==
  ASSUME Access!Inductive, NEW r \in AccountRequests,
         \/ Access!Authenticate(r) \/ Access!Login(r) \/ Access!Fail(r)
         \/ \E sent \in BOOLEAN : Access!Mail(r, sent)
  PROVE  Access!Inductive'
<1>1. CASE Access!Authenticate(r)
  <2>1. /\ UNCHANGED <<account, listed, changes, known, signedIn, unsure>>
        /\ account # Access!NoAccount
    BY <1>1 DEF Access!Authenticate
  <2>2. PICK q \in [phase : Access!Phases, base : Nat, attempt : Nat] :
          access' = [access EXCEPT ![r] = q] /\ q.phase = "login"
    BY <1>1, AccessGoesTo DEF Access!Authenticate, Access!Phases
  <2>3. Access!RequestOK(q)'
    BY <2>1, <2>2 DEF Access!RequestOK
  <2>4. QED BY <2>1, <2>2, <2>3, AccessTypes, AccessGoes
<1>2. CASE Access!Login(r)
  <2>1. /\ UNCHANGED <<account, listed, changes, known, unsure>>
        /\ access[r].phase = "login"
        /\ signedIn' = (signedIn \/ account.base # 0)
    BY <1>2 DEF Access!Login, Access!At
  <2>2. account # Access!NoAccount
    BY <2>1, AccessFields DEF Access!RequestOK
  <2>3. signedIn' \in BOOLEAN
    BY <2>1, AccessTypes
  <2>4. PICK q \in [phase : Access!Phases, base : Nat, attempt : Nat] :
          access' = [access EXCEPT ![r] = q] /\ q.phase = "done"
    BY <1>2, AccessGoesTo DEF Access!Login, Access!End, Access!Phases
  <2>5. Access!RequestOK(q)'
    BY <2>4 DEF Access!RequestOK
  <2>6. Access!AccountServesItsOwner'
    BY <2>1, AccessTypes DEF Access!AccountServesItsOwner, Access!OwnerGetsIn,
                             Access!BaseIsTheFirst
  <2>7. QED BY <2>1, <2>2, <2>3, <2>4, <2>5, <2>6, AccessTypes, AccessRequestMoves
<1>3. CASE Access!Fail(r)
  BY <1>3, AccessTypes, AccessEnds DEF Access!Fail
<1>4. ASSUME NEW sent \in BOOLEAN, Access!Mail(r, sent)
      PROVE  Access!Inductive'
  <2>1. /\ UNCHANGED <<account, listed, changes, signedIn, unsure>>
        /\ known \subseteq known' /\ known' \in SUBSET Access!Passwords
    BY <1>4, AccessTypes DEF Access!Mail, Access!Passwords
  <2>2. PICK q \in [phase : Access!Phases, base : Nat, attempt : Nat] :
          access' = [access EXCEPT ![r] = q] /\ q.phase = "done"
    BY <1>4, AccessGoesTo DEF Access!Mail, Access!End, Access!Phases
  <2>3. Access!RequestOK(q)'
    BY <2>2 DEF Access!RequestOK
  <2>4. Access!AccountServesItsOwner'
    BY <2>1, AccessTypes DEF Access!AccountServesItsOwner, Access!OwnerGetsIn,
                             Access!BaseIsTheFirst
  <2>5. QED BY <2>1, <2>2, <2>3, <2>4, AccessTypes, AccessRequestMoves
<1>5. QED BY <1>1, <1>2, <1>3, <1>4

\* A new password, whoever sets it: it is the CPF, or its owner gives it or gets it,
\* or the first access is open again; and the account stays in its base.
LEMMA AccessSetsPassword ==
  ASSUME Access!Inductive, NEW r \in AccountRequests,
         Access!Reopen(r) \/ Access!ChangePassword(r) \/ Access!ResetPassword(r)
  PROVE  Access!Inductive'
<1>1. account # Access!NoAccount
  BY AccessFields, AccessTypes
     DEF Access!Reopen, Access!ChangePassword, Access!ResetPassword, Access!At,
         Access!RequestOK
<1>2. PICK senha \in {Access!CPF, r}, first \in BOOLEAN :
        /\ account' = [senha |-> senha, primeiroLogin |-> first, base |-> account.base]
        /\ senha \in known' \/ first
  <2>1. PICK s \in Access!Passwords, f \in BOOLEAN, b \in Nat :
          account = [senha |-> s, primeiroLogin |-> f, base |-> b]
    BY AccessTypes
  <2>2. CASE Access!Reopen(r)
    <3>1. account' = [account EXCEPT !.senha = Access!CPF] /\ known' = known
      BY <2>2 DEF Access!Reopen
    <3>2. account' = [senha |-> Access!CPF, primeiroLogin |-> f, base |-> b]
      BY <2>1, <3>1
    <3>3. QED BY <2>1, <3>1, <3>2, AccessTypes
  <2>3. CASE Access!ChangePassword(r)
    <3>1. /\ account' = [account EXCEPT !.senha = r, !.primeiroLogin = FALSE]
          /\ r \in known'
      BY <2>3 DEF Access!ChangePassword
    <3>2. account' = [senha |-> r, primeiroLogin |-> FALSE, base |-> b]
      BY <2>1, <3>1
    <3>3. QED BY <2>1, <3>1, <3>2
  <2>4. CASE Access!ResetPassword(r)
    <3>1. account' = [account EXCEPT !.senha = r, !.primeiroLogin = TRUE]
      BY <2>4 DEF Access!ResetPassword
    <3>2. account' = [senha |-> r, primeiroLogin |-> TRUE, base |-> b]
      BY <2>1, <3>1
    <3>3. QED BY <2>1, <3>2
  <2>5. QED BY <2>2, <2>3, <2>4
<1>3. /\ account' \in [senha : Access!Passwords, primeiroLogin : BOOLEAN, base : Nat]
      /\ account'.base = account.base /\ account'.senha = senha
      /\ account'.primeiroLogin = first
  BY <1>2, AccessTypes DEF Access!Passwords
<1>4. account' # Access!NoAccount
  BY <1>3 DEF Access!NoAccount, Access!CPF
<1>5. /\ UNCHANGED <<listed, changes, signedIn, unsure>>
      /\ known \subseteq known' /\ known' \in SUBSET Access!Passwords
  BY AccessTypes DEF Access!Reopen, Access!ChangePassword, Access!ResetPassword,
                     Access!Passwords
<1>6. PICK q \in [phase : Access!Phases, base : Nat, attempt : Nat] :
        access' = [access EXCEPT ![r] = q] /\ q.phase \in {"login", "done", "mail"}
  BY AccessGoesTo DEF Access!Reopen, Access!ChangePassword, Access!ResetPassword,
                      Access!End, Access!Phases
<1>7. Access!RequestOK(q)'
  BY <1>4, <1>6 DEF Access!RequestOK
<1>8. Access!AccountServesItsOwner'
  BY <1>1, <1>2, <1>3, <1>5, AccessTypes
     DEF Access!AccountServesItsOwner, Access!OwnerGetsIn, Access!BaseIsTheFirst
<1>9. QED BY <1>3, <1>4, <1>5, <1>6, <1>7, <1>8, AccessTypes, AccessRequestMoves

\* The register endpoint: whoever signs up knows the password.
LEMMA AccessSignUp ==
  ASSUME Access!Inductive, NEW r \in AccountRequests, NEW first \in BOOLEAN,
         NEW b \in {0} \cup Access!BaseNumbers, Access!SignUp(r, first, b)
  PROVE  Access!Inductive'
<1>1. /\ account' = [senha |-> r, primeiroLogin |-> first, base |-> b]
      /\ known' = known \cup {r} /\ unsure' = TRUE
      /\ UNCHANGED <<listed, changes, signedIn>>
  BY DEF Access!SignUp
<1>2. b \in Nat
  BY DEF Access!BaseNumbers
<1>3. /\ account' \in [senha : Access!Passwords, primeiroLogin : BOOLEAN, base : Nat]
      /\ account' # Access!NoAccount
  BY <1>1, <1>2 DEF Access!Passwords, Access!NoAccount
<1>4. known \subseteq known' /\ known' \in SUBSET Access!Passwords
  BY <1>1, AccessTypes DEF Access!Passwords
<1>5. PICK q \in [phase : Access!Phases, base : Nat, attempt : Nat] :
        access' = [access EXCEPT ![r] = q] /\ q.phase = "done"
  BY AccessGoesTo DEF Access!SignUp, Access!End, Access!Phases
<1>6. Access!RequestOK(q)'
  BY <1>5 DEF Access!RequestOK
<1>7. Access!AccountServesItsOwner'
  BY <1>1 DEF Access!AccountServesItsOwner, Access!OwnerGetsIn, Access!BaseIsTheFirst
<1>8. QED BY <1>1, <1>3, <1>4, <1>5, <1>6, <1>7, AccessTypes, AccessRequestMoves

\* Hinova changes a list: what the requests found out is not relied on any more.
LEMMA AccessRelist ==
  ASSUME Access!Inductive, NEW b \in Access!BaseNumbers, NEW s \in Access!Situations,
         Access!Relist(b, s)
  PROVE  Access!Inductive'
<1>1. /\ unsure' = TRUE /\ UNCHANGED <<account, access, known, signedIn>>
      /\ listed' \in [Access!BaseNumbers -> Access!Situations] /\ changes' \in Nat
  BY DEF Access!Relist, Access!Inductive, Access!TypeOK
<1>2. \A r \in AccountRequests : Access!RequestOK(access[r])'
  BY <1>1, AccessFields DEF Access!RequestOK
<1>3. Access!AccountServesItsOwner'
  BY <1>1, AccessTypes DEF Access!AccountServesItsOwner, Access!OwnerGetsIn,
                           Access!BaseIsTheFirst
<1>4. QED BY <1>1, <1>2, <1>3 DEF Access!Inductive, Access!TypeOK

\* Every step of FirstAccess keeps its invariant.
LEMMA AccessNext == Access!Inductive /\ [Access!Next]_Access!vars => Access!Inductive'
<1> SUFFICES ASSUME Access!Inductive, [Access!Next]_Access!vars PROVE Access!Inductive'
  OBVIOUS
<1>1. CASE UNCHANGED Access!vars
  BY <1>1 DEF Access!vars, Access!Inductive, Access!TypeOK, Access!RequestOK,
              Access!NoneBefore, Access!AccountServesItsOwner, Access!OwnerGetsIn,
              Access!BaseIsTheFirst
<1>2. CASE Access!Next
  BY <1>2, AccessSearches, AccessBuscar, AccessRegister, AccessSignsIn,
     AccessSetsPassword, AccessSignUp, AccessRelist DEF Access!Next
<1>3. QED BY <1>1, <1>2

\* FirstAccess: however first accesses, sign-ins, changes and resets of the password
\* overlap, fail or find Hinova failing, the account is its owner's to enter, in the
\* first base that lists them.
THEOREM AccessIsSafe == Access!Spec => [](Access!TypeOK /\ Access!AccountServesItsOwner)
<1>1. Access!Inductive => Access!TypeOK /\ Access!AccountServesItsOwner
  BY DEF Access!Inductive
<1>2. QED BY <1>1, AccessInit, AccessNext, PTL DEF Access!Spec

-----------------------------------------------------------------------------
(* ProviderSelection *)

\* One of the positions that came back dated is shown, and none of the others is more
\* than an hour later, though M7 is compared with Softruck alone.
LEMMA SelecionadoIsFresh ==
  ASSUME NEW answers \in [Provider!Origens -> 0..Provider!Nothing],
         Provider!Candidatos(answers) # {}
  PROVE  /\ Provider!Selecionado(answers) \in Provider!Candidatos(answers)
         /\ \A p \in Provider!Candidatos(answers) :
              answers[p] - answers[Provider!Selecionado(answers)] <= Provider!Tolerance
<1> DEFINE cs     == Provider!Candidatos(answers)
           newest == {o \in cs : \A p \in cs : answers[p] <= answers[o]}
           first  == IF "logica" \in newest THEN "logica"
                     ELSE IF "m7" \in newest THEN "m7" ELSE "softruck"
<1>1. /\ answers["logica"] \in Int /\ answers["m7"] \in Int /\ answers["softruck"] \in Int
      /\ cs \subseteq {"logica", "m7", "softruck"}
  BY DEF Provider!Origens, Provider!Nothing, Provider!Candidatos
<1>2. first \in cs /\ \A p \in cs : answers[p] <= answers[first]
  <2>1. newest # {}
    <3>1. CASE "logica" \in cs /\ answers["logica"] >= answers["m7"]
                 /\ answers["logica"] >= answers["softruck"]
      BY <1>1, <3>1
    <3>2. QED BY SMTT(30), <1>1
  <2>2. first \in newest
    BY <1>1, <2>1
  <2>3. QED BY <2>2
<1>3. Provider!Selecionado(answers)
        = IF first = "softruck" /\ "m7" \in cs
             /\ answers["softruck"] - answers["m7"] <= Provider!Tolerance
          THEN "m7" ELSE first
  BY DEF Provider!Selecionado
<1> HIDE DEF cs, newest, first
<1>4. CASE first = "softruck" /\ "m7" \in cs
           /\ answers["softruck"] - answers["m7"] <= Provider!Tolerance
  <2>1. Provider!Selecionado(answers) = "m7"
    BY <1>3, <1>4
  <2>2. \A p \in cs : answers[p] - answers["m7"] <= Provider!Tolerance
    BY <1>1, <1>2, <1>4 DEF Provider!Tolerance
  <2>3. QED BY <1>4, <2>1, <2>2 DEF cs
<1>5. CASE ~(first = "softruck" /\ "m7" \in cs
             /\ answers["softruck"] - answers["m7"] <= Provider!Tolerance)
  <2>1. Provider!Selecionado(answers) = first
    BY <1>3, <1>5
  <2>2. \A p \in cs : answers[p] - answers[first] <= Provider!Tolerance
    BY <1>1, <1>2 DEF Provider!Tolerance
  <2>3. QED BY <1>2, <2>1, <2>2 DEF cs
<1>6. QED BY <1>4, <1>5

\* What the steps of a request share: the types of what they leave alone.
LEMMA ProviderTypes ==
  ASSUME Provider!Inductive
  PROVE  /\ holder \in Provider!Places /\ exchanged \in Nat
         /\ since \in [Devices -> 0..CacheTtl + 1]
         /\ cache \in {"softruck", "logica", "none"} /\ vehicleCache \in BOOLEAN
         /\ deviceCache \in [device : Devices, age : 0..CacheTtl] \cup {Provider!NoEntry}
         /\ caller \in [Callers -> Provider!CallerState]
         /\ holder \in Devices => since[holder] = 0
         /\ deviceCache # Provider!NoEntry => since[deviceCache.device] <= deviceCache.age
BY DEF Provider!Inductive, Provider!TypeOK, Provider!MemoryOK

\* What is remembered is no older than its device is gone.
Remembered ==
  /\ cache \in {"softruck", "logica", "none"} /\ vehicleCache \in BOOLEAN
  /\ deviceCache \in [device : Devices, age : 0..CacheTtl] \cup {Provider!NoEntry}
  /\ deviceCache # Provider!NoEntry => since[deviceCache.device] <= deviceCache.age

LEMMA ProviderRemembers ==
  ASSUME Provider!Inductive, UNCHANGED <<since, deviceCache>>,
         cache' \in {"softruck", "logica", "none"}, vehicleCache' \in BOOLEAN
  PROVE  Remembered'
BY ProviderTypes DEF Remembered

\* A request for the history, by its phase: it may be told of where the chassi is, and
\* of the devices not gone for longer than CACHE_TTL.
HistoryState ==
  [phase : Provider!History, direct : BOOLEAN, seen : SUBSET Provider!Places,
   answer : Provider!Places]

LEMMA ProviderHistory ==
  ASSUME Provider!Inductive, NEW c \in Callers, caller[c].phase \in Provider!History
  PROVE  /\ caller[c] \in HistoryState
         /\ {holder} \cup Provider!Recent \subseteq caller[c].seen
         /\ caller[c].phase = "arriving" =>
              caller[c].answer \in Devices /\ since[caller[c].answer] = 0
         /\ caller[c].phase = "probe" => caller[c].seen \cap Provider!Elsewhere # {}
<1>1. caller[c] \in Provider!CallerState /\ Provider!CallerOK(caller[c])
  BY DEF Provider!Inductive, Provider!TypeOK
<1>2. caller[c] \in HistoryState
  BY <1>1 DEF Provider!CallerState, Provider!History, HistoryState
<1>3. QED BY <1>1, <1>2 DEF Provider!CallerOK

\* A step of one request to a record in order, with the provider as it is, and with
\* nothing remembered that is older than its device is gone.
LEMMA ProviderRequestMoves ==
  ASSUME Provider!Inductive, NEW c \in Callers, NEW r \in Provider!CallerState,
         Provider!Set(c, r), Provider!CallerOK(r), UNCHANGED <<holder, exchanged, since>>,
         Remembered'
  PROVE  Provider!Inductive'
<1>1. caller \in [Callers -> Provider!CallerState]
  BY ProviderTypes
<1>2. caller' = [caller EXCEPT ![c] = r]
  BY DEF Provider!Set
<1>3. ASSUME NEW d \in Callers PROVE Provider!CallerOK(caller[d])'
  <2>1. CASE d = c
    <3>1. caller'[d] = r
      BY <1>1, <1>2, <2>1
    <3>2. QED BY <3>1 DEF Provider!CallerOK, Provider!Recent
  <2>2. CASE d # c
    <3>1. caller'[d] = caller[d]
      BY <1>1, <1>2, <2>2
    <3>2. Provider!CallerOK(caller[d])
      BY DEF Provider!Inductive
    <3>3. QED BY <3>1, <3>2 DEF Provider!CallerOK, Provider!Recent
  <2>3. QED BY <2>1, <2>2
<1>4. caller' \in [Callers -> Provider!CallerState]
  BY <1>1, <1>2
<1>5. Provider!TypeOK'
  BY <1>4, ProviderTypes DEF Provider!TypeOK, Remembered
<1>6. Provider!MemoryOK'
  BY ProviderTypes DEF Provider!MemoryOK, Remembered
<1>7. QED BY <1>3, <1>5, <1>6 DEF Provider!Inductive

\* The same, of a request for the history that goes on as it began.
GoesOnWith(c, q, a) ==
  /\ caller[c].phase \in Provider!History /\ q \in Provider!History /\ a \in Provider!Places
  /\ Provider!Set(c, [caller[c] EXCEPT !.phase = q, !.answer = a])
  /\ q = "arriving" => a \in Devices /\ since[a] = 0
  /\ q = "probe" => caller[c].seen \cap Provider!Elsewhere # {}
  /\ q = "resolved" => IF a = "none" THEN caller[c].seen \cap Provider!Elsewhere # {}
                       ELSE a \in caller[c].seen
  /\ UNCHANGED <<holder, exchanged, since>>
  /\ Remembered'

LEMMA ProviderHistoryMoves ==
  ASSUME Provider!Inductive, NEW c \in Callers, NEW q, NEW a, GoesOnWith(c, q, a)
  PROVE  Provider!Inductive'
<1> USE DEF GoesOnWith
<1> DEFINE r == [caller[c] EXCEPT !.phase = q, !.answer = a]
<1>1. /\ caller[c] \in HistoryState
      /\ {holder} \cup Provider!Recent \subseteq caller[c].seen
  BY ProviderHistory
<1>2. /\ r \in HistoryState /\ r.phase = q /\ r.answer = a /\ r.seen = caller[c].seen
  BY <1>1 DEF HistoryState
<1> HIDE DEF r
<1>3. r \in Provider!CallerState
  BY <1>2 DEF Provider!CallerState, HistoryState
<1>4. q # "shown"
  BY DEF Provider!History
<1>5. Provider!CallerOK(r)
  BY <1>1, <1>2, <1>4 DEF Provider!CallerOK
<1>6. Provider!Set(c, r)
  BY DEF r
<1>7. QED BY <1>3, <1>5, <1>6, ProviderRequestMoves

\* The initial state is in order.
LEMMA ProviderInit == Provider!Init => Provider!Inductive
<1> SUFFICES ASSUME Provider!Init PROVE Provider!Inductive
  OBVIOUS
<1>1. CacheTtl \in Nat
  BY AssociadoAssumption DEF Provider!ProviderAssumption
<1>2. /\ holder \in Provider!Places /\ exchanged \in Nat
      /\ cache \in {"softruck", "logica", "none"} /\ vehicleCache \in BOOLEAN
      /\ deviceCache = Provider!NoEntry
  BY DEF Provider!Init
<1>3. /\ since \in [Devices -> 0..CacheTtl + 1]
      /\ holder \in Devices => since[holder] = 0
  BY <1>1 DEF Provider!Init
<1>4. caller = [c \in Callers |-> Provider!Idle]
  BY DEF Provider!Init
<1>5. Provider!Idle \in Provider!CallerState /\ Provider!CallerOK(Provider!Idle)
  BY DEF Provider!Idle, Provider!CallerState, Provider!CallerOK, Provider!History
<1>6. QED
  BY <1>2, <1>3, <1>4, <1>5 DEF Provider!Inductive, Provider!TypeOK, Provider!MemoryOK

\* A request that ends, or has only asked, promises nothing.
LEMMA ProviderIsQuiet ==
  ASSUME Provider!Inductive, NEW c \in Callers, NEW q \in {"idle", "asked"},
         Provider!Set(c, [phase |-> q]),
         UNCHANGED <<holder, exchanged, since, cache, vehicleCache, deviceCache>>
  PROVE  Provider!Inductive'
<1>1. [phase |-> q] \in Provider!CallerState
  BY DEF Provider!CallerState
<1>2. Provider!CallerOK([phase |-> q])
  BY DEF Provider!CallerOK, Provider!History
<1>3. Remembered'
  BY ProviderTypes, ProviderRemembers
<1>4. QED BY <1>1, <1>2, <1>3, ProviderRequestMoves

\* The position of now: shown if there is one.
LEMMA ProviderShows ==
  ASSUME Provider!Inductive, NEW c \in Callers,
         \/ Provider!Ask(c)
         \/ \E answers \in [Provider!Origens -> 0..Provider!Nothing] :
              Provider!Show(c, answers)
  PROVE  Provider!Inductive'
<1>1. CASE Provider!Ask(c)
  BY <1>1, ProviderIsQuiet DEF Provider!Ask, Provider!memory
<1>2. ASSUME NEW answers \in [Provider!Origens -> 0..Provider!Nothing],
             Provider!Show(c, answers)
      PROVE  Provider!Inductive'
  <2> DEFINE cs == Provider!Candidatos(answers)
             o  == Provider!Selecionado(answers)
             late == {p \in cs : answers[p] > answers[o]}
             lags == {answers[p] - answers[o] : p \in late}
  <2>1. UNCHANGED <<holder, exchanged, since, cache, vehicleCache, deviceCache>>
    BY <1>2 DEF Provider!Show, Provider!memory
  <2>2. CASE cs = {}
    <3>1. Provider!Set(c, Provider!Idle)
      BY <1>2, <2>2 DEF Provider!Show
    <3>2. QED BY <2>1, <3>1, ProviderIsQuiet DEF Provider!Idle
  <2>3. CASE cs # {}
    <3>1. /\ o \in cs
          /\ \A p \in cs : answers[p] - answers[o] <= Provider!Tolerance
      BY <2>3, SelecionadoIsFresh
    <3>2. /\ cs \subseteq Provider!Origens
          /\ \A p \in cs : answers[p] \in Int
      BY DEF Provider!Candidatos, Provider!Nothing
    <3>3. Provider!Set(c, [phase |-> "shown", origem |-> o, lags |-> lags])
      BY <1>2, <2>3 DEF Provider!Show
    <3> HIDE DEF cs, o
    <3>4. lags \in SUBSET Int /\ \A lag \in lags : lag <= Provider!Tolerance
      BY <3>1, <3>2
    <3> HIDE DEF lags
    <3>5. [phase |-> "shown", origem |-> o, lags |-> lags] \in Provider!CallerState
      BY <3>1, <3>2, <3>4 DEF Provider!CallerState
    <3>6. Provider!CallerOK([phase |-> "shown", origem |-> o, lags |-> lags])
      BY <3>4 DEF Provider!CallerOK, Provider!History
    <3>7. Remembered'
      BY <2>1, ProviderTypes, ProviderRemembers
    <3>8. QED BY <2>1, <3>3, <3>5, <3>6, <3>7, ProviderRequestMoves
  <2>4. QED BY <2>2, <2>3
<1>3. QED BY <1>1, <1>2

\* A request for the history begins with what it may be told of in hand.
LEMMA ProviderBegins ==
  ASSUME Provider!Inductive, NEW c \in Callers,
         Provider!Resolve(c) \/ Provider!ResolveSoftruck(c)
  PROVE  Provider!Inductive'
<1>1. PICK q \in {"cached", "vehicle"}, b \in BOOLEAN : Provider!Begin(c, q, b)
  BY DEF Provider!Resolve, Provider!ResolveSoftruck
<1> DEFINE r == [phase |-> q, direct |-> b, seen |-> {holder} \cup Provider!Recent,
                 answer |-> "none"]
<1>2. /\ Provider!Set(c, r)
      /\ UNCHANGED <<holder, exchanged, since, cache, vehicleCache, deviceCache>>
  BY <1>1 DEF Provider!Begin, Provider!memory
<1>3. {holder} \cup Provider!Recent \in SUBSET Provider!Places /\ "none" \in Provider!Places
  BY ProviderTypes DEF Provider!Recent, Provider!Places, Provider!Elsewhere
<1>4. r \in Provider!CallerState
  BY <1>3 DEF Provider!CallerState, Provider!History
<1>5. Provider!CallerOK(r)
  BY DEF Provider!CallerOK
<1>6. Remembered'
  BY <1>2, ProviderTypes, ProviderRemembers
<1>7. QED BY <1>2, <1>4, <1>5, <1>6, ProviderRequestMoves

\* A request that fails, or whose answer was returned.
LEMMA ProviderEnds ==
  ASSUME Provider!Inductive, NEW c \in Callers, Provider!Fail(c) \/ Provider!Return(c)
  PROVE  Provider!Inductive'
BY ProviderIsQuiet DEF Provider!Fail, Provider!Return, Provider!Idle, Provider!memory

\* Without a new answer, the answer of a request is what it was.
LEMMA ProviderGoes ==
  ASSUME Provider!Inductive, NEW c \in Callers, caller[c].phase \in Provider!History
  PROVE  /\ [caller[c] EXCEPT !.phase = "vehicle"]
              = [caller[c] EXCEPT !.phase = "vehicle", !.answer = caller[c].answer]
         /\ [caller[c] EXCEPT !.phase = "device"]
              = [caller[c] EXCEPT !.phase = "device", !.answer = caller[c].answer]
         /\ [caller[c] EXCEPT !.phase = "probe"]
              = [caller[c] EXCEPT !.phase = "probe", !.answer = caller[c].answer]
         /\ [caller[c] EXCEPT !.phase = "resolved"]
              = [caller[c] EXCEPT !.phase = "resolved", !.answer = caller[c].answer]
         /\ caller[c].answer \in Provider!Places
         /\ holder \in caller[c].seen
         /\ holder \notin Devices => caller[c].seen \cap Provider!Elsewhere # {}
<1>1. caller[c] \in HistoryState /\ holder \in caller[c].seen
  BY ProviderHistory
<1>2. /\ [caller[c] EXCEPT !.phase = "vehicle"]
           = [caller[c] EXCEPT !.phase = "vehicle", !.answer = caller[c].answer]
      /\ [caller[c] EXCEPT !.phase = "device"]
           = [caller[c] EXCEPT !.phase = "device", !.answer = caller[c].answer]
      /\ [caller[c] EXCEPT !.phase = "probe"]
           = [caller[c] EXCEPT !.phase = "probe", !.answer = caller[c].answer]
      /\ [caller[c] EXCEPT !.phase = "resolved"]
           = [caller[c] EXCEPT !.phase = "resolved", !.answer = caller[c].answer]
  BY <1>1 DEF HistoryState
<1>3. holder \notin Devices => caller[c].seen \cap Provider!Elsewhere # {}
  BY <1>1, ProviderTypes DEF Provider!Places
<1>4. caller[c].answer \in Provider!Places
  BY <1>1 DEF HistoryState
<1>5. QED BY <1>1, <1>2, <1>3, <1>4

\* Logica is asked, for a chassi remembered as its own or one that Softruck has not.
LEMMA ProviderAsksLogica ==
  ASSUME Provider!Inductive, NEW c \in Callers,
         Provider!LookUpCached(c) \/ Provider!Probe(c)
  PROVE  Provider!Inductive'
<1>1. /\ caller[c].phase \in {"cached", "probe"} /\ caller[c].phase \in Provider!History
      /\ UNCHANGED <<holder, exchanged, since, vehicleCache, deviceCache>>
      /\ cache' \in {"softruck", "logica", "none"}
  BY ProviderTypes DEF Provider!LookUpCached, Provider!Probe, Provider!History
<1>2. \/ holder = "logica" /\ Provider!Answered(c, "logica")
      \/ Provider!Goes(c, "vehicle")
      \/ caller[c].phase = "probe" /\ Provider!Answered(c, "none")
  BY DEF Provider!LookUpCached, Provider!Probe
<1>3. /\ "logica" \in Provider!Places /\ "none" \in Provider!Places
      /\ "resolved" \in Provider!History /\ "vehicle" \in Provider!History
  BY DEF Provider!Places, Provider!Elsewhere, Provider!History
<1>4. Remembered'
  BY <1>1, ProviderTypes, ProviderRemembers
<1>5. CASE holder = "logica" /\ Provider!Answered(c, "logica")
  <2>1. "logica" \in caller[c].seen
    BY <1>1, <1>5, ProviderHistory
  <2>2. GoesOnWith(c, "resolved", "logica")
    BY <1>1, <1>3, <1>4, <1>5, <2>1 DEF Provider!Answered, GoesOnWith
  <2>3. QED BY <2>2, ProviderHistoryMoves
<1>6. CASE Provider!Goes(c, "vehicle")
  <2>1. /\ [caller[c] EXCEPT !.phase = "vehicle"]
             = [caller[c] EXCEPT !.phase = "vehicle", !.answer = caller[c].answer]
        /\ caller[c].answer \in Provider!Places
    BY <1>1, ProviderGoes
  <2>2. GoesOnWith(c, "vehicle", caller[c].answer)
    BY <1>1, <1>3, <1>4, <1>6, <2>1 DEF Provider!Goes, GoesOnWith
  <2>3. QED BY <2>2, ProviderHistoryMoves
<1>7. CASE caller[c].phase = "probe" /\ Provider!Answered(c, "none")
  <2>1. caller[c].seen \cap Provider!Elsewhere # {}
    BY <1>1, <1>7, ProviderHistory
  <2>2. GoesOnWith(c, "resolved", "none")
    BY <1>1, <1>3, <1>4, <1>7, <2>1 DEF Provider!Answered, GoesOnWith
  <2>3. QED BY <2>2, ProviderHistoryMoves
<1>8. QED BY <1>2, <1>5, <1>6, <1>7

\* The vehicle: a chassi that is neither remembered nor listed is not at Softruck now.
LEMMA ProviderFindsVehicle ==
  ASSUME Provider!Inductive, NEW c \in Callers, Provider!FindVehicle(c)
  PROVE  Provider!Inductive'
<1>1. /\ caller[c].phase \in Provider!History
      /\ UNCHANGED <<holder, exchanged, since, cache, deviceCache>>
      /\ vehicleCache' \in BOOLEAN
  BY ProviderTypes DEF Provider!FindVehicle, Provider!History
<1>2. \/ Provider!Goes(c, "device")
      \/ holder \notin Devices /\ Provider!Answered(c, "none")
      \/ holder \notin Devices /\ Provider!Goes(c, "probe")
  BY DEF Provider!FindVehicle
<1>3. /\ "none" \in Provider!Places
      /\ {"resolved", "device", "probe"} \subseteq Provider!History
  BY DEF Provider!Places, Provider!Elsewhere, Provider!History
<1>4. Remembered'
  BY <1>1, ProviderTypes, ProviderRemembers
<1>5. /\ [caller[c] EXCEPT !.phase = "device"]
           = [caller[c] EXCEPT !.phase = "device", !.answer = caller[c].answer]
      /\ [caller[c] EXCEPT !.phase = "probe"]
           = [caller[c] EXCEPT !.phase = "probe", !.answer = caller[c].answer]
  BY <1>1, ProviderGoes
<1>6. /\ caller[c].answer \in Provider!Places
      /\ holder \notin Devices => caller[c].seen \cap Provider!Elsewhere # {}
  BY <1>1, ProviderGoes
<1>7. CASE Provider!Goes(c, "device")
  <2>1. GoesOnWith(c, "device", caller[c].answer)
    BY <1>1, <1>3, <1>4, <1>5, <1>6, <1>7 DEF Provider!Goes, GoesOnWith
  <2>2. QED BY <2>1, ProviderHistoryMoves
<1>8. CASE holder \notin Devices /\ Provider!Answered(c, "none")
  <2>1. GoesOnWith(c, "resolved", "none")
    BY <1>1, <1>3, <1>4, <1>6, <1>8 DEF Provider!Answered, GoesOnWith
  <2>2. QED BY <2>1, ProviderHistoryMoves
<1>9. CASE holder \notin Devices /\ Provider!Goes(c, "probe")
  <2>1. GoesOnWith(c, "probe", caller[c].answer)
    BY <1>1, <1>3, <1>4, <1>5, <1>6, <1>9 DEF Provider!Goes, GoesOnWith
  <2>2. QED BY <2>1, ProviderHistoryMoves
<1>10. QED BY <1>2, <1>7, <1>8, <1>9

\* The device: one that is remembered is not gone for longer than it was remembered, and
\* one that Softruck answers is the vehicle's until the answer is in.
LEMMA ProviderFindsDevice ==
  ASSUME Provider!Inductive, NEW c \in Callers, Provider!FindDevice(c)
  PROVE  Provider!Inductive'
<1>1. /\ caller[c].phase \in Provider!History
      /\ UNCHANGED <<holder, exchanged, since, vehicleCache, deviceCache>>
      /\ cache' \in {"softruck", "logica", "none"}
  BY ProviderTypes DEF Provider!FindDevice, Provider!Remember, Provider!History
<1>2. "resolved" \in Provider!History /\ "arriving" \in Provider!History
      /\ CacheTtl \in Nat /\ Devices \subseteq Provider!Places
      /\ \A d \in Devices : d # "none"
  BY AssociadoAssumption DEF Provider!History, Provider!Places, Provider!Elsewhere,
                             Provider!ProviderAssumption
<1>3. Remembered'
  BY <1>1, ProviderTypes, ProviderRemembers
<1>4. CASE deviceCache # Provider!NoEntry /\ Provider!Answered(c, deviceCache.device)
  <2>1. /\ deviceCache.device \in Devices /\ deviceCache.age \in 0..CacheTtl
        /\ since[deviceCache.device] <= deviceCache.age
        /\ since[deviceCache.device] \in Int
    BY <1>2, <1>4, ProviderTypes
  <2>2. since[deviceCache.device] <= CacheTtl
    BY <1>2, <2>1
  <2>3. deviceCache.device \in Provider!Recent
    BY <2>1, <2>2 DEF Provider!Recent
  <2>4. deviceCache.device \in caller[c].seen
    BY <1>1, <2>3, ProviderHistory
  <2>5. GoesOnWith(c, "resolved", deviceCache.device)
    BY <1>1, <1>2, <1>3, <1>4, <2>1, <2>4 DEF Provider!Answered, GoesOnWith
  <2>6. QED BY <2>5, ProviderHistoryMoves
<1>5. CASE /\ holder \in Devices
           /\ Provider!Set(c, [caller[c] EXCEPT !.phase = "arriving", !.answer = holder])
  <2>1. GoesOnWith(c, "arriving", holder)
    BY <1>1, <1>2, <1>3, <1>5, ProviderTypes DEF GoesOnWith
  <2>2. QED BY <2>1, ProviderHistoryMoves
<1>6. QED BY <1>4, <1>5 DEF Provider!FindDevice

\* The answer that is in: its device was the vehicle's when Softruck gave it.
LEMMA ProviderDeviceArrives ==
  ASSUME Provider!Inductive, NEW c \in Callers, Provider!DeviceArrives(c)
  PROVE  Provider!Inductive'
<1>1. /\ caller[c].phase = "arriving" /\ caller[c].phase \in Provider!History
      /\ UNCHANGED <<holder, exchanged, since, vehicleCache>>
      /\ deviceCache' = [device |-> caller[c].answer, age |-> 0]
      /\ cache' \in {"softruck", "logica", "none"}
      /\ Provider!Set(c, [caller[c] EXCEPT !.phase = "resolved"])
  BY ProviderTypes DEF Provider!DeviceArrives, Provider!Remember, Provider!History,
                       Provider!Goes
<1>2. /\ caller[c].answer \in Devices /\ since[caller[c].answer] = 0
      /\ Provider!Recent \subseteq caller[c].seen
  BY <1>1, ProviderHistory
<1>3. "resolved" \in Provider!History /\ CacheTtl \in Nat /\ \A d \in Devices : d # "none"
  BY AssociadoAssumption DEF Provider!History, Provider!Elsewhere, Provider!ProviderAssumption
<1>4. caller[c].answer \in caller[c].seen
  BY <1>2, <1>3 DEF Provider!Recent
<1>5. Remembered'
  BY <1>1, <1>2, <1>3, ProviderTypes DEF Remembered
<1>6. /\ [caller[c] EXCEPT !.phase = "resolved"]
           = [caller[c] EXCEPT !.phase = "resolved", !.answer = caller[c].answer]
      /\ caller[c].answer \in Provider!Places
  BY <1>1, ProviderGoes
<1>7. GoesOnWith(c, "resolved", caller[c].answer)
  BY <1>1, <1>2, <1>3, <1>4, <1>5, <1>6 DEF GoesOnWith
<1>8. QED BY <1>7, ProviderHistoryMoves

\* The tracker is exchanged: where the chassi is now joins what every request for the
\* history may be told, which leaves what was answered true.
LEMMA ProviderMove ==
  ASSUME Provider!Inductive, NEW p \in Provider!Places, Provider!Move(p)
  PROVE  Provider!Inductive'
<1>1. /\ holder' = p /\ exchanged' \in Nat
      /\ UNCHANGED <<cache, vehicleCache, deviceCache>>
      /\ since' = [d \in Devices |-> IF d = p THEN 0 ELSE since[d]]
      /\ caller' = [c \in Callers |->
           IF caller[c].phase \in Provider!History
           THEN [caller[c] EXCEPT !.seen = caller[c].seen \cup {p}] ELSE caller[c]]
  BY ProviderTypes DEF Provider!Move, Provider!memory
<1>2. CacheTtl \in Nat
  BY AssociadoAssumption DEF Provider!ProviderAssumption
<1>3. /\ since' \in [Devices -> 0..CacheTtl + 1]
      /\ \A d \in Devices : since'[d] = IF d = p THEN 0 ELSE since[d]
  BY <1>1, <1>2, ProviderTypes
<1>4. Provider!Recent' \subseteq Provider!Recent \cup {p}
  BY <1>3 DEF Provider!Recent
<1>5. ASSUME NEW c \in Callers
      PROVE  caller'[c] \in Provider!CallerState /\ Provider!CallerOK(caller[c])'
  <2>1. CASE caller[c].phase \in Provider!History
    <3> DEFINE r == [caller[c] EXCEPT !.seen = caller[c].seen \cup {p}]
    <3>1. /\ caller[c] \in HistoryState
          /\ Provider!CallerOK(caller[c])
      BY <2>1, ProviderHistory DEF Provider!Inductive
    <3>2. /\ r \in HistoryState /\ r.phase = caller[c].phase /\ r.answer = caller[c].answer
          /\ r.seen = caller[c].seen \cup {p}
      BY <3>1 DEF HistoryState
    <3>3. caller'[c] = r
      BY <1>1, <2>1
    <3> HIDE DEF r
    <3>4. r \in Provider!CallerState
      BY <3>2 DEF Provider!CallerState, HistoryState
    <3>5. r.phase # "shown"
      BY <2>1, <3>2 DEF Provider!History
    <3>6. {holder'} \cup Provider!Recent' \subseteq r.seen
      BY <1>1, <1>4, <2>1, <3>1, <3>2 DEF Provider!CallerOK
    <3>7. r.phase = "arriving" => r.answer \in Devices /\ since'[r.answer] = 0
      BY <1>3, <3>1, <3>2 DEF Provider!CallerOK
    <3>8. /\ r.phase = "probe" => r.seen \cap Provider!Elsewhere # {}
          /\ r.phase = "resolved" => IF r.answer = "none"
                                     THEN r.seen \cap Provider!Elsewhere # {}
                                     ELSE r.answer \in r.seen
      BY <3>1, <3>2 DEF Provider!CallerOK
    <3>9. Provider!CallerOK(caller[c])'
      BY <3>3, <3>5, <3>6, <3>7, <3>8 DEF Provider!CallerOK
    <3>10. QED BY <3>3, <3>4, <3>9
  <2>2. CASE caller[c].phase \notin Provider!History
    <3>1. caller'[c] = caller[c] /\ Provider!CallerOK(caller[c])
      BY <1>1, <2>2 DEF Provider!Inductive
    <3>2. Provider!CallerOK(caller[c])'
      BY <2>2, <3>1 DEF Provider!CallerOK, Provider!History
    <3>3. QED BY <3>1, <3>2, ProviderTypes
  <2>3. QED BY <2>1, <2>2
<1>6. caller' \in [Callers -> Provider!CallerState]
  BY <1>1, <1>5
<1>7. deviceCache # Provider!NoEntry => since'[deviceCache.device] <= deviceCache.age
  <2>1. SUFFICES ASSUME deviceCache # Provider!NoEntry
                 PROVE  since'[deviceCache.device] <= deviceCache.age
    OBVIOUS
  <2>2. /\ deviceCache.device \in Devices /\ deviceCache.age \in 0..CacheTtl
        /\ since[deviceCache.device] <= deviceCache.age
    BY <2>1, ProviderTypes
  <2>3. QED BY <1>2, <1>3, <2>2
<1>8. Provider!TypeOK'
  BY <1>1, <1>3, <1>6, ProviderTypes DEF Provider!TypeOK
<1>9. Provider!MemoryOK'
  BY <1>1, <1>3, <1>7 DEF Provider!MemoryOK
<1>10. QED BY <1>5, <1>8, <1>9 DEF Provider!Inductive

\* Time passes: what is remembered ages with its device's absence, and no answer is on
\* its way.
LEMMA ProviderTick ==
  ASSUME Provider!Inductive, Provider!Tick
  PROVE  Provider!Inductive'
<1>1. /\ UNCHANGED <<holder, exchanged, cache, vehicleCache, caller>>
      /\ \A c \in Callers : caller[c].phase # "arriving"
      /\ since' = [d \in Devices |-> IF d = holder \/ since[d] > CacheTtl
                                      THEN since[d] ELSE since[d] + 1]
      /\ deviceCache' = IF deviceCache = Provider!NoEntry \/ deviceCache.age = CacheTtl
                         THEN Provider!NoEntry
                         ELSE [deviceCache EXCEPT !.age = deviceCache.age + 1]
  BY DEF Provider!Tick
<1>2. CacheTtl \in Nat
  BY AssociadoAssumption DEF Provider!ProviderAssumption
<1>3. \A d \in Devices : since[d] \in 0..CacheTtl + 1
  BY ProviderTypes
<1>4. \A d \in Devices : /\ since'[d] \in 0..CacheTtl + 1
                         /\ since[d] <= since'[d] /\ since'[d] <= since[d] + 1
                         /\ d = holder => since'[d] = since[d]
  BY <1>1, <1>2, <1>3
<1>5. since' \in [Devices -> 0..CacheTtl + 1]
  BY <1>1, <1>4
<1>6. Provider!Recent' \subseteq Provider!Recent
  BY <1>2, <1>3, <1>4 DEF Provider!Recent
<1>7. /\ deviceCache' \in [device : Devices, age : 0..CacheTtl] \cup {Provider!NoEntry}
      /\ deviceCache' # Provider!NoEntry => since'[deviceCache'.device] <= deviceCache'.age
  <2>1. CASE deviceCache = Provider!NoEntry \/ deviceCache.age = CacheTtl
    BY <1>1, <2>1
  <2>2. CASE ~(deviceCache = Provider!NoEntry \/ deviceCache.age = CacheTtl)
    <3>1. /\ deviceCache \in [device : Devices, age : 0..CacheTtl]
          /\ since[deviceCache.device] <= deviceCache.age
      BY <2>2, ProviderTypes
    <3>2. PICK d \in Devices, n \in 0..CacheTtl : deviceCache = [device |-> d, age |-> n]
      BY <3>1
    <3>3. since[d] <= n /\ n # CacheTtl
      BY <2>2, <3>1, <3>2
    <3>4. deviceCache' = [device |-> d, age |-> n + 1]
      BY <1>1, <2>2, <3>2
    <3>5. n + 1 \in 0..CacheTtl
      BY <1>2, <3>3
    <3>6. since'[d] <= n + 1
      BY <1>3, <1>4, <3>3
    <3>7. QED BY <3>4, <3>5, <3>6
  <2>3. QED BY <2>1, <2>2
<1>8. ASSUME NEW c \in Callers PROVE Provider!CallerOK(caller[c])'
  <2>1. Provider!CallerOK(caller[c])
    BY DEF Provider!Inductive
  <2>2. QED BY <1>1, <1>6, <2>1 DEF Provider!CallerOK
<1>9. Provider!TypeOK'
  BY <1>1, <1>5, <1>7, ProviderTypes DEF Provider!TypeOK
<1>10. Provider!MemoryOK'
  BY <1>1, <1>4, <1>7, ProviderTypes DEF Provider!MemoryOK
<1>11. QED BY <1>8, <1>9, <1>10 DEF Provider!Inductive

\* What the other two caches forget touches no request.
LEMMA ProviderExpire ==
  ASSUME Provider!Inductive, Provider!Expire
  PROVE  Provider!Inductive'
<1>1. /\ UNCHANGED <<holder, exchanged, since, deviceCache, caller>>
      /\ cache' \in {"softruck", "logica", "none"} /\ vehicleCache' \in BOOLEAN
  BY ProviderTypes DEF Provider!Expire
<1>2. Provider!TypeOK' /\ Provider!MemoryOK'
  BY <1>1, ProviderTypes DEF Provider!TypeOK, Provider!MemoryOK
<1>3. ASSUME NEW c \in Callers PROVE Provider!CallerOK(caller[c])'
  <2>1. Provider!CallerOK(caller[c])
    BY DEF Provider!Inductive
  <2>2. QED BY <1>1, <2>1 DEF Provider!CallerOK, Provider!Recent
<1>4. QED BY <1>2, <1>3 DEF Provider!Inductive

\* Every step of ProviderSelection keeps its invariant.
LEMMA ProviderNext ==
  Provider!Inductive /\ [Provider!Next]_Provider!vars => Provider!Inductive'
<1> SUFFICES ASSUME Provider!Inductive, [Provider!Next]_Provider!vars
             PROVE  Provider!Inductive'
  OBVIOUS
<1>1. CASE UNCHANGED Provider!vars
  <2>1. UNCHANGED <<holder, exchanged, since, cache, vehicleCache, deviceCache, caller>>
    BY <1>1 DEF Provider!vars, Provider!memory
  <2>2. QED BY <2>1 DEF Provider!Inductive, Provider!TypeOK, Provider!MemoryOK,
                        Provider!CallerOK, Provider!Recent
<1>2. CASE Provider!Next
  BY <1>2, ProviderShows, ProviderBegins, ProviderEnds, ProviderAsksLogica,
     ProviderFindsVehicle, ProviderFindsDevice, ProviderDeviceArrives, ProviderMove,
     ProviderTick, ProviderExpire DEF Provider!Next
<1>3. QED BY <1>1, <1>2

\* What the invariant says to a user: ProviderSelection's promises.
LEMMA ProviderPromises ==
  Provider!Inductive
    => Provider!TypeOK /\ Provider!ShownIsFresh /\ Provider!ResolvedByHolder
BY DEF Provider!Inductive, Provider!ShownIsFresh, Provider!ResolvedByHolder,
       Provider!CallerOK

\* ProviderSelection, for any number of requests, devices and exchanges: the position
\* shown is fresh, and whatever the three caches hold and however late an answer comes,
\* the history is of a device that the vehicle had at most one CACHE_TTL ago, or of
\* Logica's for a chassi that Logica listed.
THEOREM ProviderIsSafe ==
  Provider!Spec
    => [](Provider!TypeOK /\ Provider!ShownIsFresh /\ Provider!ResolvedByHolder)
BY ProviderInit, ProviderNext, ProviderPromises, PTL DEF Provider!Spec

-----------------------------------------------------------------------------
(* StoredPhotos *)

\* The members of a sequence, and which of them stands before which.
Elements(t) == {t[i] : i \in 1..Len(t)}

Before(t, a, b) == \E i, j \in 1..Len(t) : i < j /\ a = t[i] /\ b = t[j]

\* Of two sequences in a row, each keeps its order, and the first one comes first.
LEMMA ConcatMoves ==
  ASSUME NEW s \in Seq(Photos!Awaits), NEW t \in Seq(Photos!Awaits)
  PROVE  /\ s \o t \in Seq(Photos!Awaits)
         /\ Elements(s \o t) = Elements(s) \cup Elements(t)
         /\ \A a, b : Before(s \o t, a, b) =>
              \/ Before(s, a, b) \/ Before(t, a, b)
              \/ a \in Elements(s) /\ b \in Elements(t)
<1>1. /\ s \o t \in Seq(Photos!Awaits) /\ Len(s \o t) = Len(s) + Len(t)
      /\ Len(s) \in Nat /\ Len(t) \in Nat
      /\ \A i \in 1..Len(s) : (s \o t)[i] = s[i]
      /\ \A i \in 1..Len(t) : (s \o t)[i + Len(s)] = t[i]
  BY ConcatProperties
<1>2. \A i \in 1..Len(s \o t) : i \in 1..Len(s) \/ i - Len(s) \in 1..Len(t)
  BY <1>1
<1>3. Elements(s \o t) \subseteq Elements(s) \cup Elements(t)
  <2> SUFFICES ASSUME NEW i \in 1..Len(s \o t)
               PROVE  (s \o t)[i] \in Elements(s) \cup Elements(t)
    BY DEF Elements
  <2>1. CASE i \in 1..Len(s)
    BY <2>1, <1>1 DEF Elements
  <2>2. CASE i - Len(s) \in 1..Len(t)
    <3>1. (s \o t)[i] = t[i - Len(s)]
      BY <2>2, <1>1
    <3>2. QED BY <3>1, <2>2 DEF Elements
  <2>3. QED BY <2>1, <2>2, <1>2
<1>4. Elements(s) \cup Elements(t) \subseteq Elements(s \o t)
  <2>1. ASSUME NEW i \in 1..Len(s) PROVE s[i] \in Elements(s \o t)
    <3>1. i \in 1..Len(s \o t) /\ (s \o t)[i] = s[i]
      BY <1>1
    <3>2. QED BY <3>1 DEF Elements
  <2>2. ASSUME NEW i \in 1..Len(t) PROVE t[i] \in Elements(s \o t)
    <3>1. i + Len(s) \in 1..Len(s \o t) /\ (s \o t)[i + Len(s)] = t[i]
      BY <1>1
    <3>2. QED BY <3>1 DEF Elements
  <2>3. QED BY <2>1, <2>2 DEF Elements
<1>5. ASSUME NEW a, NEW b, Before(s \o t, a, b)
      PROVE  \/ Before(s, a, b) \/ Before(t, a, b)
             \/ a \in Elements(s) /\ b \in Elements(t)
  <2>1. PICK i, j \in 1..Len(s \o t) : i < j /\ a = (s \o t)[i] /\ b = (s \o t)[j]
    BY <1>5 DEF Before
  <2>2. CASE j \in 1..Len(s)
    <3>1. i \in 1..Len(s) /\ (s \o t)[i] = s[i] /\ (s \o t)[j] = s[j]
      BY <2>1, <2>2, <1>1
    <3>2. QED BY <3>1, <2>1, <2>2 DEF Before
  <2>3. CASE i - Len(s) \in 1..Len(t)
    <3>1. j - Len(s) \in 1..Len(t) /\ i - Len(s) < j - Len(s)
      BY <2>1, <2>3, <1>1
    <3>2. (s \o t)[i] = t[i - Len(s)] /\ (s \o t)[j] = t[j - Len(s)]
      BY <3>1, <2>3, <1>1
    <3>3. QED BY <3>1, <3>2, <2>1, <2>3 DEF Before
  <2>4. CASE i \in 1..Len(s) /\ j - Len(s) \in 1..Len(t)
    <3>1. (s \o t)[i] = s[i] /\ (s \o t)[j] = t[j - Len(s)]
      BY <2>4, <1>1
    <3>2. s[i] \in Elements(s) /\ t[j - Len(s)] \in Elements(t)
      BY <2>4 DEF Elements
    <3>3. QED BY <3>1, <3>2, <2>1
  <2>5. QED BY <2>2, <2>3, <2>4, <1>2
<1>6. QED BY <1>1, <1>3, <1>4, <1>5

\* The short ones that plans are put together from.
LEMMA ShortPlans ==
  ASSUME NEW a \in Photos!Awaits, NEW b \in Photos!Awaits
  PROVE  /\ <<>> \in Seq(Photos!Awaits) /\ Elements(<<>>) = {} /\ \A x, y : ~Before(<<>>, x, y)
         /\ <<a>> \in Seq(Photos!Awaits) /\ Elements(<<a>>) = {a} /\ \A x, y : ~Before(<<a>>, x, y)
         /\ <<a, b>> \in Seq(Photos!Awaits) /\ Elements(<<a, b>>) = {a, b}
         /\ \A x, y : Before(<<a, b>>, x, y) => x = a /\ y = b
<1>1. <<>> \in Seq(Photos!Awaits) /\ Elements(<<>>) = {} /\ \A x, y : ~Before(<<>>, x, y)
  BY DEF Elements, Before
<1>2. <<a>> \in Seq(Photos!Awaits) /\ Elements(<<a>>) = {a} /\ \A x, y : ~Before(<<a>>, x, y)
  BY DEF Elements, Before
<1>3. <<a, b>> \in Seq(Photos!Awaits) /\ Len(<<a, b>>) = 2 /\ <<a, b>>[1] = a /\ <<a, b>>[2] = b
  OBVIOUS
<1>4. 1..2 = {1, 2}
  OBVIOUS
<1>5. Elements(<<a, b>>) = {a, b}
  BY <1>3, <1>4 DEF Elements
<1>6. \A x, y : Before(<<a, b>>, x, y) => x = a /\ y = b
  BY <1>3, <1>4 DEF Before
<1>7. QED BY <1>1, <1>2, <1>3, <1>5, <1>6

\* The same of three sequences in a row.
LEMMA ThreeInARow ==
  ASSUME NEW p \in Seq(Photos!Awaits), NEW q \in Seq(Photos!Awaits),
         NEW r \in Seq(Photos!Awaits)
  PROVE  /\ (p \o q) \o r \in Seq(Photos!Awaits)
         /\ Elements((p \o q) \o r) = Elements(p) \cup Elements(q) \cup Elements(r)
         /\ \A a, b : Before((p \o q) \o r, a, b) =>
              \/ Before(p, a, b) \/ Before(q, a, b) \/ Before(r, a, b)
              \/ a \in Elements(p) /\ b \in Elements(q) \cup Elements(r)
              \/ a \in Elements(q) /\ b \in Elements(r)
<1> DEFINE s == p \o q
<1>1. /\ s \in Seq(Photos!Awaits) /\ Elements(s) = Elements(p) \cup Elements(q)
      /\ \A a, b : Before(s, a, b) =>
           Before(p, a, b) \/ Before(q, a, b) \/ (a \in Elements(p) /\ b \in Elements(q))
  BY ConcatMoves
<1> HIDE DEF s
<1>2. /\ s \o r \in Seq(Photos!Awaits) /\ Elements(s \o r) = Elements(s) \cup Elements(r)
      /\ \A a, b : Before(s \o r, a, b) =>
           Before(s, a, b) \/ Before(r, a, b) \/ (a \in Elements(s) /\ b \in Elements(r))
  BY <1>1, ConcatMoves
<1>3. /\ Elements(s \o r) = Elements(p) \cup Elements(q) \cup Elements(r)
      /\ \A a, b : Before(s \o r, a, b) =>
           \/ Before(p, a, b) \/ Before(q, a, b) \/ Before(r, a, b)
           \/ a \in Elements(p) /\ b \in Elements(q) \cup Elements(r)
           \/ a \in Elements(q) /\ b \in Elements(r)
  <2>1. Elements(s \o r) = Elements(p) \cup Elements(q) \cup Elements(r)
    BY <1>1, <1>2
  <2>2. ASSUME NEW a, NEW b, Before(s \o r, a, b)
        PROVE  \/ Before(p, a, b) \/ Before(q, a, b) \/ Before(r, a, b)
               \/ a \in Elements(p) /\ b \in Elements(q) \cup Elements(r)
               \/ a \in Elements(q) /\ b \in Elements(r)
    <3>1. CASE Before(s, a, b)
      <4>1. Before(p, a, b) \/ Before(q, a, b) \/ (a \in Elements(p) /\ b \in Elements(q))
        BY <1>1, <3>1
      <4>2. QED BY ONLY <4>1
    <3>2. CASE Before(r, a, b)
      BY ONLY <3>2
    <3>3. CASE a \in Elements(s) /\ b \in Elements(r)
      BY ONLY <3>3, <1>1
    <3>4. QED BY <3>1, <3>2, <3>3, <2>2, <1>2
  <2>3. QED BY <2>1, <2>2
<1>4. QED BY <1>2, <1>3 DEF s

\* The awaits about one photo, and those about both.
LEMMA EachMoves ==
  ASSUME NEW photos \in SUBSET Photos!Slots,
         NEW w \in [Photos!Slots -> Seq(Photos!Awaits)]
  PROVE  /\ Photos!Each(photos, w) \in Seq(Photos!Awaits)
         /\ Elements(Photos!Each(photos, w)) = UNION {Elements(w[s]) : s \in photos}
         /\ \A a, b : Before(Photos!Each(photos, w), a, b) =>
              \/ \E s \in photos : Before(w[s], a, b)
              \/ /\ a \in Elements(w["front"]) /\ b \in Elements(w["back"])
                 /\ photos = {"front", "back"}
<1> DEFINE f == IF "front" \in photos THEN w["front"] ELSE <<>>
           b == IF "back" \in photos THEN w["back"] ELSE <<>>
<1>1. f \in Seq(Photos!Awaits) /\ b \in Seq(Photos!Awaits) /\ Photos!Each(photos, w) = f \o b
  BY DEF Photos!Each, Photos!Slots
<1>2. /\ Elements(f) = IF "front" \in photos THEN Elements(w["front"]) ELSE {}
      /\ Elements(b) = IF "back" \in photos THEN Elements(w["back"]) ELSE {}
      /\ \A x, y : Before(f, x, y) => "front" \in photos /\ Before(w["front"], x, y)
      /\ \A x, y : Before(b, x, y) => "back" \in photos /\ Before(w["back"], x, y)
  BY DEF Elements, Before
<1> HIDE DEF f, b
<1>3. Photos!Each(photos, w) \in Seq(Photos!Awaits)
  BY <1>1, ConcatMoves
<1>4. Elements(Photos!Each(photos, w)) = UNION {Elements(w[s]) : s \in photos}
  <2>1. Elements(Photos!Each(photos, w)) = Elements(f) \cup Elements(b)
    BY <1>1, ConcatMoves
  <2>2. photos \subseteq {"front", "back"}
    BY DEF Photos!Slots
  <2>3. QED BY <2>1, <2>2, <1>2
<1>5. ASSUME NEW x, NEW y, Before(Photos!Each(photos, w), x, y)
      PROVE  \/ \E s \in photos : Before(w[s], x, y)
             \/ /\ x \in Elements(w["front"]) /\ y \in Elements(w["back"])
                /\ photos = {"front", "back"}
  <2>1. Before(f, x, y) \/ Before(b, x, y) \/ (x \in Elements(f) /\ y \in Elements(b))
    BY <1>1, <1>5, ConcatMoves
  <2>2. QED BY <2>1, <1>2 DEF Photos!Slots
<1>6. QED BY <1>3, <1>4, <1>5

\* What every plan comes to: the awaits of its operation, in turn.
Removes(k, does, photos) ==
  IF does # "delete" THEN photos ELSE IF k = "documento" THEN {} ELSE Photos!SlotsOf(k)

PlanIsSound(k, does, photos, t) ==
  /\ t \in Seq(Photos!Awaits)
  /\ \A a, b : Before(t, a, b) =>
       /\ a # b /\ b[1] # "find"
       /\ b[1] = "look" => a[1] = "upload"
       /\ a = <<does, "row">> => k = "slider" /\ does = "delete"
  /\ <<does, "row">> \in Elements(t)
  /\ Elements(t) \subseteq Photos!Reads \cup {<<does, "row">>}
                             \cup {Photos!Upload(s) : s \in photos}
                             \cup {Photos!Unlink(s) : s \in Removes(k, does, photos)}
  /\ \A s \in photos : Photos!Upload(s) \in Elements(t)
  /\ does = "create" => Elements(t) \cap Photos!Reads = {}
  /\ does # "create" =>
       \A s \in Removes(k, does, photos) : Photos!Unlink(s) \in Elements(t)
  /\ does \in {"update", "delete"} => <<"find", "row">> \in Elements(t)
  /\ does = "upsert" => <<"look", "row">> \in Elements(t)

\* The awaits there are.
LEMMA AwaitsAre ==
  /\ \A verb \in Photos!Verbs : <<verb, "row">> \in Photos!Awaits
  /\ \A s \in Photos!Slots :
       Photos!Upload(s) \in Photos!Awaits /\ Photos!Unlink(s) \in Photos!Awaits
BY DEF Photos!Awaits, Photos!Verbs, Photos!Upload, Photos!Unlink

\* Such a sequence is one of a plan.
LEMMA OnlyIsShort ==
  ASSUME NEW verb \in Photos!Verbs
  PROVE  /\ Photos!Only(verb) \in Seq(Photos!Awaits)
         /\ Elements(Photos!Only(verb)) = {<<verb, "row">>}
         /\ \A x, y : ~Before(Photos!Only(verb), x, y)
BY AwaitsAre, ShortPlans DEF Photos!Only

LEMMA CreateIsSound ==
  ASSUME NEW k \in Photos!Kinds, NEW photos \in SUBSET Photos!Slots
  PROVE  PlanIsSound(k, "create", photos, Photos!Create(photos))
<1> DEFINE w == [s \in Photos!Slots |-> <<Photos!Upload(s)>>]
           e == Photos!Each(photos, w)
           o == Photos!Only("create")
<1>1. /\ w \in [Photos!Slots -> Seq(Photos!Awaits)]
      /\ \A s \in Photos!Slots : Elements(w[s]) = {Photos!Upload(s)}
      /\ \A s \in Photos!Slots : \A x, y : ~Before(w[s], x, y)
  BY AwaitsAre, ShortPlans
<1>2. /\ o \in Seq(Photos!Awaits) /\ Elements(o) = {<<"create", "row">>}
      /\ \A x, y : ~Before(o, x, y)
  BY OnlyIsShort DEF Photos!Verbs
<1>3. Photos!Create(photos) = e \o o
  BY DEF Photos!Create
<1> HIDE DEF w, o
<1>4. /\ Photos!Each(photos, w) \in Seq(Photos!Awaits)
      /\ Elements(Photos!Each(photos, w)) = UNION {Elements(w[s]) : s \in photos}
      /\ \A x, y : Before(Photos!Each(photos, w), x, y) =>
           \/ \E s \in photos : Before(w[s], x, y)
           \/ /\ x \in Elements(w["front"]) /\ y \in Elements(w["back"])
              /\ photos = {"front", "back"}
  BY ONLY <1>1, EachMoves
<1> HIDE DEF e
<1>5. /\ e \in Seq(Photos!Awaits)
      /\ Elements(e) = {Photos!Upload(s) : s \in photos}
      /\ \A x, y : Before(e, x, y) =>
           x = Photos!Upload("front") /\ y = Photos!Upload("back")
  <2>0. /\ photos \in SUBSET Photos!Slots
        /\ "front" \in Photos!Slots /\ "back" \in Photos!Slots
    BY DEF Photos!Slots
  <2>1. e \in Seq(Photos!Awaits)
    BY ONLY <1>4 DEF e
  <2>2. UNION {Elements(w[s]) : s \in photos} = {Photos!Upload(s) : s \in photos}
    BY ONLY <1>1, <2>0
  <2>3. Elements(e) = {Photos!Upload(s) : s \in photos}
    BY ONLY <1>4, <2>2 DEF e
  <2>4. \A s \in photos : \A x, y : ~Before(w[s], x, y)
    BY ONLY <1>1, <2>0
  <2>5. /\ Elements(w["front"]) = {Photos!Upload("front")}
        /\ Elements(w["back"]) = {Photos!Upload("back")}
    BY ONLY <1>1, <2>0
  <2>6. \A x, y : Before(e, x, y) =>
          x = Photos!Upload("front") /\ y = Photos!Upload("back")
    BY ONLY <1>4, <2>4, <2>5 DEF e
  <2> QED
    BY ONLY <2>1, <2>3, <2>6
<1>6. /\ e \o o \in Seq(Photos!Awaits)
      /\ Elements(e \o o) = {Photos!Upload(s) : s \in photos} \cup {<<"create", "row">>}
      /\ \A x, y : Before(e \o o, x, y) =>
           \/ x = Photos!Upload("front") /\ y = Photos!Upload("back")
           \/ x \in {Photos!Upload(s) : s \in photos} /\ y = <<"create", "row">>
  BY <1>2, <1>5, ConcatMoves
<1>7. \A x, y : Before(e \o o, x, y) =>
        /\ x # y /\ y[1] # "find" /\ y[1] # "look" /\ x # <<"create", "row">>
  BY <1>6 DEF Photos!Upload
<1>8. Elements(e \o o) \cap Photos!Reads = {}
  BY <1>6 DEF Photos!Upload, Photos!Reads
<1>9. QED
  BY <1>3, <1>6, <1>7, <1>8 DEF PlanIsSound

\* An update finds the row, uploads and removes each photo, and writes the row.
LEMMA UpdateIsSound ==
  ASSUME NEW k \in Photos!Kinds, NEW photos \in SUBSET Photos!Slots,
         NEW w \in [Photos!Slots -> Seq(Photos!Awaits)],
         \A s \in Photos!Slots :
           /\ Elements(w[s]) = {Photos!Upload(s), Photos!Unlink(s)}
           /\ \A x, y : Before(w[s], x, y) =>
                x # y /\ x \in Elements(w[s]) /\ y \in Elements(w[s])
  PROVE  PlanIsSound(k, "update", photos,
           Photos!Only("find") \o Photos!Each(photos, w) \o Photos!Only("update"))
<1> DEFINE e == Photos!Each(photos, w)
           f == Photos!Only("find")
           o == Photos!Only("update")
           m == {Photos!Upload(s) : s \in photos} \cup {Photos!Unlink(s) : s \in photos}
<1>1. /\ f \in Seq(Photos!Awaits) /\ Elements(f) = {<<"find", "row">>}
      /\ \A x, y : ~Before(f, x, y)
      /\ o \in Seq(Photos!Awaits) /\ Elements(o) = {<<"update", "row">>}
      /\ \A x, y : ~Before(o, x, y)
  BY OnlyIsShort DEF Photos!Verbs
<1> HIDE DEF f, o
<1>2. /\ e \in Seq(Photos!Awaits)
      /\ Elements(e) = m
      /\ \A x, y : Before(e, x, y) => x # y /\ x \in m /\ y \in m
  <2>1. e \in Seq(Photos!Awaits) /\ Elements(e) = UNION {Elements(w[s]) : s \in photos}
    BY EachMoves
  <2>2. Elements(e) = m
    BY <2>1 DEF Photos!Slots
  <2>3. ASSUME NEW x, NEW y, Before(e, x, y)
        PROVE  x # y /\ x \in m /\ y \in m
    <3>1. \/ \E s \in photos : Before(w[s], x, y)
          \/ /\ x \in Elements(w["front"]) /\ y \in Elements(w["back"])
             /\ photos = {"front", "back"}
      BY <2>3, EachMoves
    <3>2. CASE \E s \in photos : Before(w[s], x, y)
      BY <3>2 DEF Photos!Slots
    <3>3. CASE /\ x \in Elements(w["front"]) /\ y \in Elements(w["back"])
               /\ photos = {"front", "back"}
      BY <3>3 DEF Photos!Upload, Photos!Unlink, Photos!Slots
    <3>4. QED BY <3>1, <3>2, <3>3
  <2>4. QED BY <2>1, <2>2, <2>3
<1>3. \A y \in m : y[1] \in {"upload", "unlink"}
  BY DEF Photos!Upload, Photos!Unlink
<1>4. /\ \A s \in photos : Photos!Upload(s) \in m
      /\ \A s \in photos : Photos!Unlink(s) \in m
      /\ m \subseteq {Photos!Upload(s) : s \in photos} \cup {Photos!Unlink(s) : s \in photos}
  OBVIOUS
<1> HIDE DEF e, m
<1> DEFINE t == (f \o e) \o o
<1>5. /\ t \in Seq(Photos!Awaits) /\ Elements(t) = Elements(f) \cup Elements(e) \cup Elements(o)
      /\ \A x, y : Before(t, x, y) =>
           \/ Before(f, x, y) \/ Before(e, x, y) \/ Before(o, x, y)
           \/ x \in Elements(f) /\ y \in Elements(e) \cup Elements(o)
           \/ x \in Elements(e) /\ y \in Elements(o)
  BY <1>1, <1>2, ThreeInARow
<1>6. Elements(t) = {<<"find", "row">>, <<"update", "row">>} \cup m
  BY <1>1, <1>2, <1>5
<1>7. ASSUME NEW x, NEW y, Before(t, x, y)
      PROVE  x # y /\ y[1] # "find" /\ y[1] # "look" /\ x # <<"update", "row">>
  <2>1. \/ x \in m /\ y \in m /\ x # y
        \/ x = <<"find", "row">> /\ y \in m \cup {<<"update", "row">>}
        \/ x \in m /\ y = <<"update", "row">>
    BY <1>1, <1>2, <1>5, <1>7
  <2>2. QED BY ONLY <2>1, <1>3
<1> HIDE DEF t
<1>8. PlanIsSound(k, "update", photos, t)
  BY <1>4, <1>5, <1>6, <1>7 DEF PlanIsSound, Removes, Photos!Reads
<1>9. QED BY <1>8 DEF t, f, e, o

\* The two awaits about a photo that is replaced.
LEMMA TwoAwaits ==
  ASSUME NEW s \in Photos!Slots
  PROVE  /\ <<Photos!Unlink(s), Photos!Upload(s)>> \in Seq(Photos!Awaits)
         /\ <<Photos!Upload(s), Photos!Unlink(s)>> \in Seq(Photos!Awaits)
         /\ Elements(<<Photos!Unlink(s), Photos!Upload(s)>>)
              = {Photos!Upload(s), Photos!Unlink(s)}
         /\ Elements(<<Photos!Upload(s), Photos!Unlink(s)>>)
              = {Photos!Upload(s), Photos!Unlink(s)}
         /\ \A x, y : Before(<<Photos!Unlink(s), Photos!Upload(s)>>, x, y) =>
              x # y /\ x \in {Photos!Upload(s), Photos!Unlink(s)}
                    /\ y \in {Photos!Upload(s), Photos!Unlink(s)}
         /\ \A x, y : Before(<<Photos!Upload(s), Photos!Unlink(s)>>, x, y) =>
              x # y /\ x \in {Photos!Upload(s), Photos!Unlink(s)}
                    /\ y \in {Photos!Upload(s), Photos!Unlink(s)}
<1>1. /\ Photos!Upload(s) \in Photos!Awaits /\ Photos!Unlink(s) \in Photos!Awaits
      /\ Photos!Upload(s) # Photos!Unlink(s)
  BY AwaitsAre DEF Photos!Upload, Photos!Unlink
<1>2. \A a, b \in Photos!Awaits :
        /\ <<a, b>> \in Seq(Photos!Awaits) /\ Elements(<<a, b>>) = {a, b}
        /\ \A x, y : Before(<<a, b>>, x, y) => x = a /\ y = b
  BY ShortPlans
<1> DEFINE u == Photos!Unlink(s)
           v == Photos!Upload(s)
<1>3. u \in Photos!Awaits /\ v \in Photos!Awaits /\ u # v
  BY <1>1
<1> HIDE DEF u, v
<1>4. /\ <<u, v>> \in Seq(Photos!Awaits) /\ Elements(<<u, v>>) = {v, u}
      /\ \A x, y : Before(<<u, v>>, x, y) => x # y /\ x \in {v, u} /\ y \in {v, u}
  BY ONLY <1>2, <1>3
<1>5. /\ <<v, u>> \in Seq(Photos!Awaits) /\ Elements(<<v, u>>) = {v, u}
      /\ \A x, y : Before(<<v, u>>, x, y) => x # y /\ x \in {v, u} /\ y \in {v, u}
  BY ONLY <1>2, <1>3
<1>6. QED BY <1>4, <1>5 DEF u, v

LEMMA ReplaceIsSound ==
  ASSUME NEW k \in Photos!Kinds, NEW photos \in SUBSET Photos!Slots
  PROVE  PlanIsSound(k, "update", photos, Photos!Replace(photos))
<1> DEFINE w == [s \in Photos!Slots |-> <<Photos!Unlink(s), Photos!Upload(s)>>]
<1>1. \A s \in Photos!Slots :
        /\ w[s] \in Seq(Photos!Awaits)
        /\ Elements(w[s]) = {Photos!Upload(s), Photos!Unlink(s)}
        /\ \A x, y : Before(w[s], x, y) =>
             x # y /\ x \in {Photos!Upload(s), Photos!Unlink(s)}
                    /\ y \in {Photos!Upload(s), Photos!Unlink(s)}
  BY TwoAwaits
<1>2. w \in [Photos!Slots -> Seq(Photos!Awaits)]
  BY <1>1
<1>3. Photos!Replace(photos)
        = Photos!Only("find") \o Photos!Each(photos, w) \o Photos!Only("update")
  BY DEF Photos!Replace
<1> HIDE DEF w
<1>4. \A s \in Photos!Slots : \A x, y : Before(w[s], x, y) =>
        x # y /\ x \in Elements(w[s]) /\ y \in Elements(w[s])
  BY <1>1
<1>5. PlanIsSound(k, "update", photos,
        Photos!Only("find") \o Photos!Each(photos, w) \o Photos!Only("update"))
  BY <1>1, <1>2, <1>4, UpdateIsSound
<1>6. QED BY <1>3, <1>5

LEMMA UpdateSliderIsSound ==
  ASSUME NEW k \in Photos!Kinds, NEW photos \in SUBSET Photos!Slots
  PROVE  PlanIsSound(k, "update", photos, Photos!UpdateSlider(photos))
<1> DEFINE w == [s \in Photos!Slots |-> <<Photos!Upload(s), Photos!Unlink(s)>>]
<1>1. \A s \in Photos!Slots :
        /\ w[s] \in Seq(Photos!Awaits)
        /\ Elements(w[s]) = {Photos!Upload(s), Photos!Unlink(s)}
        /\ \A x, y : Before(w[s], x, y) =>
             x # y /\ x \in {Photos!Upload(s), Photos!Unlink(s)}
                    /\ y \in {Photos!Upload(s), Photos!Unlink(s)}
  BY TwoAwaits
<1>2. w \in [Photos!Slots -> Seq(Photos!Awaits)]
  BY <1>1
<1>3. Photos!UpdateSlider(photos)
        = Photos!Only("find") \o Photos!Each(photos, w) \o Photos!Only("update")
  BY DEF Photos!UpdateSlider
<1> HIDE DEF w
<1>4. \A s \in Photos!Slots : \A x, y : Before(w[s], x, y) =>
        x # y /\ x \in Elements(w[s]) /\ y \in Elements(w[s])
  BY <1>1
<1>5. PlanIsSound(k, "update", photos,
        Photos!Only("find") \o Photos!Each(photos, w) \o Photos!Only("update"))
  BY <1>1, <1>2, <1>4, UpdateIsSound
<1>6. QED BY <1>3, <1>5

LEMMA RemoveWorkshopIsSound == PlanIsSound("oficina", "delete", {}, Photos!RemoveWorkshop)
<1> DEFINE p == Photos!Only("find")
           q == <<Photos!Unlink("front"), Photos!Unlink("back")>>
           r == Photos!Only("delete")
           t == (p \o q) \o r
           d == <<"delete", "row">>
           u == {Photos!Unlink("front"), Photos!Unlink("back")}
<1>1. /\ p \in Seq(Photos!Awaits) /\ Elements(p) = {<<"find", "row">>}
      /\ \A x, y : ~Before(p, x, y)
      /\ r \in Seq(Photos!Awaits) /\ Elements(r) = {d}
      /\ \A x, y : ~Before(r, x, y)
  BY OnlyIsShort DEF Photos!Verbs
<1>2. /\ q \in Seq(Photos!Awaits) /\ Elements(q) = u
      /\ \A x, y : Before(q, x, y) => x \in u /\ y \in u /\ x # y
  <2>1. Photos!Unlink("front") \in Photos!Awaits /\ Photos!Unlink("back") \in Photos!Awaits
    BY AwaitsAre DEF Photos!Slots
  <2>2. Photos!Unlink("front") # Photos!Unlink("back")
    BY DEF Photos!Unlink
  <2> DEFINE v == Photos!Unlink("front")
             w == Photos!Unlink("back")
  <2> HIDE DEF v, w
  <2>3. v \in Photos!Awaits /\ w \in Photos!Awaits /\ v # w
    BY <2>1, <2>2 DEF v, w
  <2>4. /\ <<v, w>> \in Seq(Photos!Awaits) /\ Elements(<<v, w>>) = {v, w}
        /\ \A x, y : Before(<<v, w>>, x, y) => x \in {v, w} /\ y \in {v, w} /\ x # y
    BY <2>3, ShortPlans
  <2>5. QED BY <2>4 DEF v, w
<1>3. Photos!RemoveWorkshop = t
  BY DEF Photos!RemoveWorkshop
<1>4. \A x \in u : x[1] = "unlink"
  BY DEF Photos!Unlink
<1> HIDE DEF p, q, r, u
<1>5. /\ t \in Seq(Photos!Awaits) /\ Elements(t) = Elements(p) \cup Elements(q) \cup Elements(r)
      /\ \A x, y : Before(t, x, y) =>
           \/ Before(p, x, y) \/ Before(q, x, y) \/ Before(r, x, y)
           \/ x \in Elements(p) /\ y \in Elements(q) \cup Elements(r)
           \/ x \in Elements(q) /\ y \in Elements(r)
  BY <1>1, <1>2, ThreeInARow
<1> HIDE DEF t
<1>6. ASSUME NEW x, NEW y, Before(t, x, y)
      PROVE  x # y /\ y[1] # "find" /\ y[1] # "look" /\ x # d
  <2>1. \/ Before(q, x, y)
        \/ x = <<"find", "row">> /\ y \in u \cup {d}
        \/ x \in u /\ y = d
    BY <1>1, <1>2, <1>5, <1>6
  <2>2. QED BY <2>1, <1>2, <1>4
<1>7. Removes("oficina", "delete", {}) = {"front", "back"}
  BY DEF Removes, Photos!SlotsOf, Photos!Slots
<1>8. Elements(t) = {<<"find", "row">>, d} \cup u
  BY <1>1, <1>2, <1>5
<1>9. PlanIsSound("oficina", "delete", {}, t)
  BY <1>5, <1>6, <1>7, <1>8 DEF PlanIsSound, Photos!Reads, u
<1>10. QED BY <1>3, <1>9

LEMMA DeleteSliderIsSound == PlanIsSound("slider", "delete", {}, Photos!DeleteSlider)
<1> DEFINE p == Photos!Only("find")
           q == Photos!Only("delete")
           r == <<Photos!Unlink("front")>>
           t == (p \o q) \o r
<1>1. /\ p \in Seq(Photos!Awaits) /\ Elements(p) = {<<"find", "row">>}
      /\ \A x, y : ~Before(p, x, y)
      /\ q \in Seq(Photos!Awaits) /\ Elements(q) = {<<"delete", "row">>}
      /\ \A x, y : ~Before(q, x, y)
  BY OnlyIsShort DEF Photos!Verbs
<1>2. /\ r \in Seq(Photos!Awaits) /\ Elements(r) = {Photos!Unlink("front")}
      /\ \A x, y : ~Before(r, x, y)
  BY AwaitsAre, ShortPlans DEF Photos!Slots
<1>3. Photos!DeleteSlider = t
  BY DEF Photos!DeleteSlider
<1> HIDE DEF p, q, r
<1>4. /\ t \in Seq(Photos!Awaits) /\ Elements(t) = Elements(p) \cup Elements(q) \cup Elements(r)
      /\ \A x, y : Before(t, x, y) =>
           \/ Before(p, x, y) \/ Before(q, x, y) \/ Before(r, x, y)
           \/ x \in Elements(p) /\ y \in Elements(q) \cup Elements(r)
           \/ x \in Elements(q) /\ y \in Elements(r)
  BY <1>1, <1>2, ThreeInARow
<1> HIDE DEF t
<1>5. ASSUME NEW x, NEW y, Before(t, x, y)
      PROVE  x # y /\ y[1] # "find" /\ y[1] # "look"
  <2>1. \/ x = <<"find", "row">> /\ y \in {<<"delete", "row">>, Photos!Unlink("front")}
        \/ x = <<"delete", "row">> /\ y = Photos!Unlink("front")
    BY <1>1, <1>2, <1>4, <1>5
  <2>2. QED BY <2>1 DEF Photos!Unlink
<1>6. Removes("slider", "delete", {}) = {"front"}
  BY DEF Removes, Photos!SlotsOf
<1>7. Elements(t) = {<<"find", "row">>, <<"delete", "row">>, Photos!Unlink("front")}
  BY <1>1, <1>2, <1>4
<1>8. PlanIsSound("slider", "delete", {}, t)
  BY <1>4, <1>5, <1>6, <1>7 DEF PlanIsSound, Photos!Reads
<1>9. QED BY <1>3, <1>8

LEMMA RemoveDocumentIsSound == PlanIsSound("documento", "delete", {}, Photos!RemoveDocument)
<1> DEFINE p == Photos!Only("find")
           q == Photos!Only("delete")
           t == p \o q
<1>1. /\ p \in Seq(Photos!Awaits) /\ Elements(p) = {<<"find", "row">>}
      /\ \A x, y : ~Before(p, x, y)
      /\ q \in Seq(Photos!Awaits) /\ Elements(q) = {<<"delete", "row">>}
      /\ \A x, y : ~Before(q, x, y)
  BY OnlyIsShort DEF Photos!Verbs
<1>2. Photos!RemoveDocument = t
  BY DEF Photos!RemoveDocument
<1> HIDE DEF p, q
<1>3. /\ t \in Seq(Photos!Awaits) /\ Elements(t) = {<<"find", "row">>, <<"delete", "row">>}
      /\ \A x, y : Before(t, x, y) => x = <<"find", "row">> /\ y = <<"delete", "row">>
  BY <1>1, ConcatMoves
<1> HIDE DEF t
<1>4. Removes("documento", "delete", {}) = {}
  BY DEF Removes
<1>5. PlanIsSound("documento", "delete", {}, t)
  BY <1>3, <1>4 DEF PlanIsSound, Photos!Reads
<1>6. QED BY <1>2, <1>5

LEMMA UpsertIsSound ==
  PlanIsSound("template", "upsert", {"front"}, Photos!UpsertTemplatePhoto)
<1> DEFINE a == Photos!Upload("front")
           b == <<"look", "row">>
           c == Photos!Unlink("front")
           d == <<"upsert", "row">>
           p == <<a>>
           q == Photos!Only("look")
           r == <<c>>
           o == Photos!Only("upsert")
           s == (p \o q) \o r
           t == s \o o
<1>1. /\ q \in Seq(Photos!Awaits) /\ Elements(q) = {b} /\ \A x, y : ~Before(q, x, y)
      /\ o \in Seq(Photos!Awaits) /\ Elements(o) = {d} /\ \A x, y : ~Before(o, x, y)
  BY OnlyIsShort DEF Photos!Verbs
<1>2. /\ p \in Seq(Photos!Awaits) /\ Elements(p) = {a} /\ \A x, y : ~Before(p, x, y)
      /\ r \in Seq(Photos!Awaits) /\ Elements(r) = {c} /\ \A x, y : ~Before(r, x, y)
  BY AwaitsAre, ShortPlans DEF Photos!Slots
<1>3. Photos!UpsertTemplatePhoto = t
  BY DEF Photos!UpsertTemplatePhoto
<1> HIDE DEF p, q, r, o
<1>4. /\ s \in Seq(Photos!Awaits) /\ Elements(s) = {a, b, c}
      /\ \A x, y : Before(s, x, y) => (x = a /\ y \in {b, c}) \/ (x = b /\ y = c)
  <2>1. /\ s \in Seq(Photos!Awaits)
        /\ Elements(s) = Elements(p) \cup Elements(q) \cup Elements(r)
        /\ \A x, y : Before(s, x, y) =>
             \/ Before(p, x, y) \/ Before(q, x, y) \/ Before(r, x, y)
             \/ x \in Elements(p) /\ y \in Elements(q) \cup Elements(r)
             \/ x \in Elements(q) /\ y \in Elements(r)
    BY <1>1, <1>2, ThreeInARow
  <2>2. QED BY <2>1, <1>1, <1>2
<1> HIDE DEF s
<1>5. /\ t \in Seq(Photos!Awaits) /\ Elements(t) = {a, b, c, d}
      /\ \A x, y : Before(t, x, y) =>
           (x = a /\ y \in {b, c, d}) \/ (x = b /\ y \in {c, d}) \/ (x = c /\ y = d)
  <2>1. /\ t \in Seq(Photos!Awaits) /\ Elements(t) = Elements(s) \cup Elements(o)
        /\ \A x, y : Before(t, x, y) =>
             Before(s, x, y) \/ Before(o, x, y) \/ (x \in Elements(s) /\ y \in Elements(o))
    BY <1>1, <1>4, ConcatMoves
  <2>2. QED BY <2>1, <1>1, <1>4
<1> HIDE DEF t
<1>6. ASSUME NEW x, NEW y, Before(t, x, y)
      PROVE  /\ x # y /\ y[1] # "find" /\ x # d
             /\ y[1] = "look" => x[1] = "upload"
  <2>1. (x = a /\ y \in {b, c, d}) \/ (x = b /\ y \in {c, d}) \/ (x = c /\ y = d)
    BY <1>5, <1>6
  <2>2. QED BY <2>1 DEF Photos!Upload, Photos!Unlink
<1>7. Removes("template", "upsert", {"front"}) = {"front"}
  BY DEF Removes
<1>8. PlanIsSound("template", "upsert", {"front"}, t)
  BY <1>5, <1>6, <1>7 DEF PlanIsSound, Photos!Reads
<1>9. QED BY <1>3, <1>8

\* Every plan is sound, for what its kind of row is asked.
LEMMA PlansAreSound ==
  ASSUME NEW k \in Photos!Kinds, NEW does \in Photos!Asks(k),
         NEW photos \in SUBSET Photos!Slots, NEW links \in SUBSET Photos!Slots,
         Photos!Carries(k, does, photos, links)
  PROVE  PlanIsSound(k, does, photos, Photos!Plan(k, does, photos))
<1>1. CASE does = "create"
  BY <1>1, CreateIsSound DEF Photos!Plan
<1>2. CASE does = "upsert"
  <2>1. k = "template" /\ photos = {"front"}
    BY <1>2 DEF Photos!Asks, Photos!Kinds, Photos!Carries
  <2>2. QED BY <1>2, <2>1, UpsertIsSound DEF Photos!Plan
<1>3. CASE does = "update" /\ k = "slider"
  BY <1>3, UpdateSliderIsSound DEF Photos!Plan
<1>4. CASE does = "update" /\ k # "slider"
  BY <1>4, ReplaceIsSound DEF Photos!Plan
<1>5. CASE does = "delete"
  <2>1. k \in {"oficina", "slider", "documento"} /\ photos = {}
    BY <1>5 DEF Photos!Asks, Photos!Kinds, Photos!Carries
  <2>2. QED
    BY <1>5, <2>1, RemoveWorkshopIsSound, DeleteSliderIsSound, RemoveDocumentIsSound
    DEF Photos!Plan
<1>6. does \in {"create", "update", "delete", "upsert"}
  BY DEF Photos!Asks, Photos!Kinds
<1>7. QED BY <1>1, <1>2, <1>3, <1>4, <1>5, <1>6

-----------------------------------------------------------------------------
\* A request that goes on has one await less before it, in the same turn.
LEMMA TailMoves ==
  ASSUME NEW t \in Seq(Photos!Awaits), t # <<>>, \A a, b : Before(t, a, b) => a # b
  PROVE  /\ Tail(t) \in Seq(Photos!Awaits)
         /\ Head(t) \in Elements(t)
         /\ Elements(Tail(t)) = Elements(t) \ {Head(t)}
         /\ \A a, b : Before(Tail(t), a, b) => Before(t, a, b)
         /\ \A b \in Elements(t) : b # Head(t) => Before(t, Head(t), b)
         /\ Len(t) = 1 => Elements(t) = {Head(t)}
         /\ Len(t) # 1 => Tail(t) # <<>>
<1>1. /\ Tail(t) \in Seq(Photos!Awaits) /\ Len(t) \in Nat /\ Len(t) >= 1
      /\ Len(Tail(t)) = Len(t) - 1 /\ Head(t) = t[1]
      /\ \A i \in 1..Len(Tail(t)) : Tail(t)[i] = t[i + 1]
  BY HeadTailProperties
<1>2. Head(t) \in Elements(t)
  BY <1>1 DEF Elements
<1>3. \A b \in Elements(t) : b # Head(t) => Before(t, Head(t), b)
  BY <1>1 DEF Elements, Before
<1>4. \A a, b : Before(Tail(t), a, b) => Before(t, a, b)
  <2> SUFFICES ASSUME NEW i \in 1..Len(Tail(t)), NEW j \in 1..Len(Tail(t)), i < j
               PROVE  Before(t, Tail(t)[i], Tail(t)[j])
    BY DEF Before
  <2>1. i + 1 \in 1..Len(t) /\ j + 1 \in 1..Len(t) /\ i + 1 < j + 1
    BY <1>1
  <2>2. QED BY <2>1, <1>1 DEF Before
<1>5. Elements(Tail(t)) \subseteq Elements(t) \ {Head(t)}
  <2> SUFFICES ASSUME NEW i \in 1..Len(Tail(t))
               PROVE  Tail(t)[i] \in Elements(t) /\ Tail(t)[i] # Head(t)
    BY DEF Elements
  <2>1. i + 1 \in 1..Len(t) /\ 1 \in 1..Len(t) /\ 1 < i + 1 /\ Tail(t)[i] = t[i + 1]
    BY <1>1
  <2>2. Before(t, t[1], t[i + 1])
    BY <2>1 DEF Before
  <2>3. QED BY <2>1, <2>2, <1>1 DEF Elements
<1>6. Elements(t) \ {Head(t)} \subseteq Elements(Tail(t))
  <2> SUFFICES ASSUME NEW i \in 1..Len(t), t[i] # t[1] PROVE t[i] \in Elements(Tail(t))
    BY <1>1 DEF Elements
  <2>1. i - 1 \in 1..Len(Tail(t)) /\ Tail(t)[i - 1] = t[i]
    BY <1>1
  <2>2. QED BY <2>1 DEF Elements
<1>7. Len(t) = 1 => Elements(t) = {Head(t)}
  BY <1>1 DEF Elements
<1>8. Len(t) # 1 => Tail(t) # <<>>
  <2>1. Len(<<>>) = 0
    OBVIOUS
  <2>2. Len(t) # 1 => Len(Tail(t)) # 0
    BY <1>1
  <2>3. QED BY <2>1, <2>2
<1>9. QED BY <1>1, <1>2, <1>3, <1>4, <1>5, <1>6, <1>7, <1>8

\* Turns, told by what stands before what.
TurnOf(t, final, k, does) ==
  \A a, b : Before(t, a, b) =>
    /\ a # b /\ b[1] # "find"
    /\ b[1] = "look" => a[1] = "upload"
    /\ a = final => k = "slider" /\ does = "delete"

LEMMA InTurnIs ==
  ASSUME NEW r \in FileRequests
  PROVE  /\ Photos!InTurn(r) <=> TurnOf(todo[r], Photos!Final(r), kind, op[r].does)
         /\ Photos!Ahead(r) = Elements(todo[r])
BY DEF Photos!InTurn, TurnOf, Before, Photos!Ahead, Elements

\* The next await of a request.
LEMMA HeadIs ==
  ASSUME Photos!Inductive, NEW r \in Photos!Running
  PROVE  /\ Head(todo[r]) \in Photos!Ahead(r)
         /\ Photos!At(r, "find") => Head(todo[r]) = <<"find", "row">>
         /\ Photos!At(r, "look") => Head(todo[r]) = <<"look", "row">>
         /\ Photos!At(r, "upload") =>
              Photos!Slot(r) \in op[r].photos /\ Head(todo[r]) = Photos!Upload(Photos!Slot(r))
         /\ Photos!At(r, "unlink") =>
              Photos!Slot(r) \in Photos!ToUnlink(r)
                /\ Head(todo[r]) = Photos!Unlink(Photos!Slot(r))
         /\ \A verb \in {"create", "update", "upsert", "delete"} :
              Photos!At(r, verb) => op[r].does = verb /\ Head(todo[r]) = Photos!Final(r)
         /\ Photos!ToRead(r) => Head(todo[r])[1] \in {"find", "look", "upload"}
         /\ <<"find", "row">> \in Photos!Ahead(r) => Head(todo[r]) = <<"find", "row">>
         /\ Head(todo[r]) = Photos!Final(r) /\ ~(kind = "slider" /\ op[r].does = "delete")
              => Photos!Ahead(r) = {Photos!Final(r)}
<1> DEFINE t == todo[r]
           h == Head(todo[r])
<1>1. r \in FileRequests /\ Photos!TodoOK(r) /\ t \in Seq(Photos!Awaits) /\ t # <<>>
  BY DEF Photos!Inductive, Photos!TypeOK, Photos!Running, Photos!TodoOK
<1>2. TurnOf(t, Photos!Final(r), kind, op[r].does) /\ Photos!Ahead(r) = Elements(t)
  BY <1>1, InTurnIs DEF Photos!TodoOK
<1>3. \A a, b : Before(t, a, b) => a # b
  BY <1>2 DEF TurnOf
<1>4. h \in Elements(t) /\ \A b \in Elements(t) : b # h => Before(t, h, b)
  BY <1>1, <1>3, TailMoves
<1> HIDE DEF t, h
<1>5. h \in Photos!Ahead(r) /\ \A b \in Photos!Ahead(r) : b # h => Before(t, h, b)
  BY <1>2, <1>4
<1>6. \/ h = <<"find", "row">> \/ h = <<"look", "row">> \/ h = Photos!Final(r)
      \/ \E s \in op[r].photos : h = Photos!Upload(s)
      \/ \E s \in Photos!ToUnlink(r) : h = Photos!Unlink(s)
  BY <1>1, <1>5 DEF Photos!TodoOK, Photos!Reads
<1>7. op[r].does \in {"create", "update", "delete", "upsert"}
  BY <1>1 DEF Photos!Inductive, Photos!OpOK, Photos!Asks, Photos!TypeOK, Photos!Kinds
<1>8. Photos!At(r, "find") => h = <<"find", "row">>
  BY <1>6, <1>7 DEF h, Photos!At, Photos!Final, Photos!Upload, Photos!Unlink
<1>9. Photos!At(r, "look") => h = <<"look", "row">>
  BY <1>6, <1>7 DEF h, Photos!At, Photos!Final, Photos!Upload, Photos!Unlink
<1>10. Photos!At(r, "upload") =>
         Photos!Slot(r) \in op[r].photos /\ h = Photos!Upload(Photos!Slot(r))
  BY <1>6, <1>7 DEF h, Photos!At, Photos!Slot, Photos!Final, Photos!Upload, Photos!Unlink
<1>11. Photos!At(r, "unlink") =>
         Photos!Slot(r) \in Photos!ToUnlink(r) /\ h = Photos!Unlink(Photos!Slot(r))
  BY <1>6, <1>7 DEF h, Photos!At, Photos!Slot, Photos!Final, Photos!Upload, Photos!Unlink
<1>12. \A verb \in {"create", "update", "upsert", "delete"} :
         Photos!At(r, verb) => op[r].does = verb /\ h = Photos!Final(r)
  BY <1>6, <1>7 DEF h, Photos!At, Photos!Final, Photos!Upload, Photos!Unlink
<1>13. ASSUME Photos!ToRead(r) PROVE h[1] \in {"find", "look", "upload"}
  <2>1. PICK b \in Photos!Reads : b \in Photos!Ahead(r)
    BY <1>13 DEF Photos!ToRead
  <2>2. CASE b = h
    BY <2>1, <2>2 DEF Photos!Reads
  <2>3. CASE b # h
    <3>1. Before(t, h, b)
      BY <1>5, <2>1, <2>3
    <3>2. b[1] = "look" /\ h[1] = "upload"
      BY <1>2, <2>1, <3>1 DEF TurnOf, Photos!Reads
    <3>3. QED BY <3>2
  <2>4. QED BY <2>2, <2>3
<1>14. <<"find", "row">> \in Photos!Ahead(r) => h = <<"find", "row">>
  BY <1>2, <1>5 DEF TurnOf
<1>15. ASSUME h = Photos!Final(r), ~(kind = "slider" /\ op[r].does = "delete")
       PROVE  Photos!Ahead(r) = {Photos!Final(r)}
  BY <1>15, <1>2, <1>5 DEF TurnOf
<1>16. QED
  BY <1>5, <1>8, <1>9, <1>10, <1>11, <1>12, <1>13, <1>14, <1>15 DEF h

\* What every step of a request but its receipt leaves alone, and how far it takes it.
Moves(r) ==
  /\ kind' = kind
  /\ \A q \in FileRequests \ {r} :
       op'[q] = op[q] /\ state'[q] = state[q] /\ todo'[q] = todo[q]
  /\ op'[r].does = op[r].does /\ op'[r].photos = op[r].photos /\ op'[r].links = op[r].links
  /\ state'[r] \in {"running", "done", "failed"}
  /\ state'[r] = "running" =>
       /\ todo'[r] # <<>>
       /\ Elements(todo'[r]) = Elements(todo[r]) \ {Head(todo[r])}
       /\ \A a, b : Before(todo'[r], a, b) => Before(todo[r], a, b)
  /\ state'[r] = "done" => Elements(todo[r]) = {Head(todo[r])} \/ Photos!Find(r)

LEMMA GoesOnMoves ==
  ASSUME Photos!Inductive, NEW r \in Photos!Running, Photos!GoesOn(r)
  PROVE  /\ todo' \in [FileRequests -> Seq(Photos!Awaits)]
         /\ state' \in [FileRequests -> {"new", "running", "done", "failed"}]
         /\ \A q \in FileRequests \ {r} : state'[q] = state[q] /\ todo'[q] = todo[q]
         /\ state'[r] \in {"running", "done"}
         /\ state'[r] = "running" =>
              /\ todo'[r] # <<>>
              /\ Elements(todo'[r]) = Elements(todo[r]) \ {Head(todo[r])}
              /\ \A a, b : Before(todo'[r], a, b) => Before(todo[r], a, b)
         /\ state'[r] = "done" => Elements(todo[r]) = {Head(todo[r])}
<1> DEFINE t == todo[r]
<1>1. /\ r \in FileRequests /\ Photos!TodoOK(r) /\ t \in Seq(Photos!Awaits) /\ t # <<>>
      /\ todo \in [FileRequests -> Seq(Photos!Awaits)]
      /\ state \in [FileRequests -> {"new", "running", "done", "failed"}]
  BY DEF Photos!Inductive, Photos!TypeOK, Photos!Running, Photos!TodoOK
<1>2. \A a, b : Before(t, a, b) => a # b
  BY <1>1, InTurnIs DEF Photos!TodoOK, TurnOf
<1> HIDE DEF t
<1>3. /\ Tail(t) \in Seq(Photos!Awaits)
      /\ Elements(Tail(t)) = Elements(t) \ {Head(t)}
      /\ \A a, b : Before(Tail(t), a, b) => Before(t, a, b)
      /\ Len(t) = 1 => Elements(t) = {Head(t)}
      /\ Len(t) # 1 => Tail(t) # <<>>
  BY <1>1, <1>2, TailMoves
<1>4. /\ todo' = [todo EXCEPT ![r] = Tail(t)]
      /\ state' = [state EXCEPT ![r] = IF Len(t) = 1 THEN "done" ELSE "running"]
  BY <1>1 DEF Photos!GoesOn, t
<1>5. todo'[r] = Tail(t) /\ state'[r] = IF Len(t) = 1 THEN "done" ELSE "running"
  BY <1>1, <1>4
<1>6. todo' \in [FileRequests -> Seq(Photos!Awaits)]
  BY <1>1, <1>3, <1>4
<1>7. state' \in [FileRequests -> {"new", "running", "done", "failed"}]
  BY <1>1, <1>4
<1>8. \A q \in FileRequests \ {r} : state'[q] = state[q] /\ todo'[q] = todo[q]
  BY <1>1, <1>4
<1>9. QED BY <1>3, <1>5, <1>6, <1>7, <1>8 DEF t

\* The steps of a request on its way.
StepOf(r) ==
  \/ Photos!Find(r) \/ Photos!Store(r) \/ Photos!Remove(r) \/ Photos!RemoveFails(r)
  \/ Photos!Write(r) \/ Photos!Delete(r) \/ Photos!Fail(r)

\* An operation keeps its type when it reads or removes.
LEMMA OperationOf ==
  ASSUME NEW o \in Photos!Operation,
         NEW read \in [Photos!Slots -> Photos!Urls], NEW removed \in SUBSET Photos!Files
  PROVE  /\ [o EXCEPT !.read = read] \in Photos!Operation
         /\ [o EXCEPT !.removed = removed] \in Photos!Operation
BY DEF Photos!Operation

LEMMA UrlsAre ==
  /\ Photos!Nothing \in [Photos!Slots -> Photos!Urls]
  /\ Photos!None \in Photos!Urls /\ Photos!Link \in Photos!Urls
  /\ Photos!None \notin Photos!Files /\ Photos!Link \notin Photos!Files
  /\ Photos!Files \subseteq Photos!Urls
  /\ \A r \in FileRequests, s \in Photos!Slots : <<r, s>> \in Photos!Files
BY DEF Photos!Nothing, Photos!Urls, Photos!None, Photos!Link, Photos!Files

LEMMA StepMoves ==
  ASSUME Photos!Inductive, NEW r \in FileRequests, StepOf(r)
  PROVE  /\ r \in Photos!Running /\ Moves(r)
         /\ op' \in [FileRequests -> Photos!Operation]
         /\ todo' \in [FileRequests -> Seq(Photos!Awaits)]
         /\ state' \in [FileRequests -> {"new", "running", "done", "failed"}]
         /\ kind' \in Photos!Kinds /\ exists' \in BOOLEAN /\ calm' \in BOOLEAN
         /\ url' \in [Photos!Slots -> Photos!Urls] /\ disk' \in SUBSET Photos!Files
<1>1. r \in Photos!Running
  BY DEF StepOf, Photos!Find, Photos!Store, Photos!Remove, Photos!RemoveFails,
         Photos!Write, Photos!Delete, Photos!Fail, Photos!At, Photos!Running
<1>2. Photos!TypeOK
  BY DEF Photos!Inductive
<1>3. ASSUME op' = op, Photos!GoesOn(r), kind' = kind
      PROVE  /\ Moves(r)
             /\ op' \in [FileRequests -> Photos!Operation]
             /\ todo' \in [FileRequests -> Seq(Photos!Awaits)]
             /\ state' \in [FileRequests -> {"new", "running", "done", "failed"}]
  BY <1>1, <1>2, <1>3, GoesOnMoves DEF Moves, Photos!TypeOK
<1>4. ASSUME NEW o \in Photos!Operation, op' = [op EXCEPT ![r] = o],
             o.does = op[r].does, o.photos = op[r].photos, o.links = op[r].links,
             Photos!GoesOn(r), kind' = kind
      PROVE  /\ Moves(r)
             /\ op' \in [FileRequests -> Photos!Operation]
             /\ todo' \in [FileRequests -> Seq(Photos!Awaits)]
             /\ state' \in [FileRequests -> {"new", "running", "done", "failed"}]
  <2>1. op \in [FileRequests -> Photos!Operation]
    BY <1>2 DEF Photos!TypeOK
  <2>2. /\ op' \in [FileRequests -> Photos!Operation] /\ op'[r] = o
        /\ \A q \in FileRequests \ {r} : op'[q] = op[q]
    BY <1>4, <2>1
  <2>3. QED BY <1>1, <1>4, <2>2, GoesOnMoves DEF Moves
<1>5. ASSUME state' = [state EXCEPT ![r] = "done"] \/ state' = [state EXCEPT ![r] = "failed"],
             todo' = [todo EXCEPT ![r] = <<>>], op' = op, kind' = kind,
             state'[r] = "done" => Photos!Find(r)
      PROVE  /\ Moves(r)
             /\ op' \in [FileRequests -> Photos!Operation]
             /\ todo' \in [FileRequests -> Seq(Photos!Awaits)]
             /\ state' \in [FileRequests -> {"new", "running", "done", "failed"}]
  <2>1. todo' \in [FileRequests -> Seq(Photos!Awaits)]
    BY <1>2, <1>5 DEF Photos!TypeOK
  <2>2. state' \in [FileRequests -> {"new", "running", "done", "failed"}]
    BY <1>2, <1>5 DEF Photos!TypeOK
  <2>3. state'[r] \in {"done", "failed"}
    BY <1>2, <1>5 DEF Photos!TypeOK
  <2>4. \A q \in FileRequests \ {r} : state'[q] = state[q] /\ todo'[q] = todo[q]
    BY <1>2, <1>5 DEF Photos!TypeOK
  <2>5. QED BY <1>2, <1>5, <2>1, <2>2, <2>3, <2>4 DEF Moves, Photos!TypeOK
<1>6. CASE Photos!Find(r)
  <2>1. /\ UNCHANGED kind /\ UNCHANGED exists /\ UNCHANGED url /\ UNCHANGED disk
        /\ UNCHANGED calm
    BY <1>6 DEF Photos!Find
  <2>2. CASE exists \/ Photos!At(r, "look")
    <3> DEFINE read == IF exists THEN url ELSE Photos!Nothing
               o == [op[r] EXCEPT !.read = read]
    <3>1. op[r] \in Photos!Operation /\ read \in [Photos!Slots -> Photos!Urls]
      BY <1>2, UrlsAre DEF Photos!TypeOK
    <3>2. o \in Photos!Operation
      BY <3>1, OperationOf, UrlsAre
    <3>3. o.does = op[r].does /\ o.photos = op[r].photos /\ o.links = op[r].links
      BY <3>1 DEF Photos!Operation
    <3>4. op' = [op EXCEPT ![r] = o] /\ Photos!GoesOn(r)
      BY <1>6, <2>2 DEF Photos!Find
    <3> HIDE DEF o
    <3>5. QED BY <1>1, <1>2, <1>4, <2>1, <3>2, <3>3, <3>4 DEF Photos!TypeOK
  <2>3. CASE ~(exists \/ Photos!At(r, "look"))
    <3>1. /\ state' = [state EXCEPT ![r] = "done"] /\ todo' = [todo EXCEPT ![r] = <<>>]
          /\ op' = op
      BY <1>6, <2>3 DEF Photos!Find
    <3>2. QED BY <1>1, <1>2, <1>5, <1>6, <2>1, <3>1 DEF Photos!TypeOK
  <2>4. QED BY <2>2, <2>3
<1>7. CASE Photos!Store(r)
  <2>1. /\ UNCHANGED kind /\ UNCHANGED exists /\ UNCHANGED url /\ UNCHANGED op
        /\ UNCHANGED calm /\ Photos!GoesOn(r)
        /\ disk' = disk \cup {<<r, Photos!Slot(r)>>} /\ Photos!At(r, "upload")
    BY <1>7 DEF Photos!Store
  <2>2. Photos!Slot(r) \in Photos!Slots
    <3>1. Photos!Slot(r) \in op[r].photos
      BY <1>1, <2>1, HeadIs
    <3>2. QED BY <3>1, <1>2 DEF Photos!TypeOK, Photos!Operation
  <2>3. disk' \in SUBSET Photos!Files
    BY <1>2, <2>1, <2>2, UrlsAre DEF Photos!TypeOK
  <2>4. QED BY <1>1, <1>2, <1>3, <2>1, <2>3 DEF Photos!TypeOK
<1>8. CASE Photos!Remove(r)
  <2> DEFINE gone == {op[r].read[Photos!Slot(r)]} \cap Photos!Files
             o == [op[r] EXCEPT !.removed = @ \cup gone]
  <2>1. /\ UNCHANGED kind /\ UNCHANGED exists /\ UNCHANGED url
        /\ UNCHANGED calm /\ Photos!GoesOn(r)
        /\ disk' = disk \ gone /\ op' = [op EXCEPT ![r] = o]
    BY <1>8 DEF Photos!Remove
  <2>2. op[r] \in Photos!Operation /\ op[r].removed \cup gone \in SUBSET Photos!Files
    BY <1>2 DEF Photos!TypeOK, Photos!Operation
  <2>3. /\ o \in Photos!Operation
        /\ o.does = op[r].does /\ o.photos = op[r].photos /\ o.links = op[r].links
    <3> HIDE DEF gone
    <3>1. QED BY <2>2 DEF Photos!Operation
  <2> HIDE DEF o
  <2>4. disk' \in SUBSET Photos!Files
    BY <1>2, <2>1 DEF Photos!TypeOK
  <2>5. QED BY <1>1, <1>2, <1>4, <2>1, <2>3, <2>4 DEF Photos!TypeOK
<1>9. CASE Photos!RemoveFails(r)
  <2>1. /\ UNCHANGED kind /\ UNCHANGED exists /\ UNCHANGED url /\ UNCHANGED op
        /\ UNCHANGED disk /\ calm' = FALSE /\ Photos!GoesOn(r)
    BY <1>9 DEF Photos!RemoveFails
  <2>2. QED BY <1>1, <1>2, <1>3, <2>1 DEF Photos!TypeOK
<1>10. CASE Photos!Write(r)
  <2>1. /\ UNCHANGED kind /\ exists' = TRUE /\ url' = Photos!Written(r) /\ UNCHANGED op
        /\ UNCHANGED disk /\ UNCHANGED calm /\ Photos!GoesOn(r)
    BY <1>10 DEF Photos!Write
  <2>2. Photos!Written(r) \in [Photos!Slots -> Photos!Urls]
    BY <1>2, UrlsAre DEF Photos!Written, Photos!TypeOK
  <2>3. QED BY <1>1, <1>2, <1>3, <2>1, <2>2 DEF Photos!TypeOK
<1>11. CASE Photos!Delete(r)
  <2>1. /\ UNCHANGED kind /\ exists' = FALSE /\ UNCHANGED url /\ UNCHANGED op
        /\ UNCHANGED disk /\ UNCHANGED calm /\ Photos!GoesOn(r)
    BY <1>11 DEF Photos!Delete
  <2>2. QED BY <1>1, <1>2, <1>3, <2>1 DEF Photos!TypeOK
<1>12. CASE Photos!Fail(r)
  <2>1. /\ UNCHANGED kind /\ UNCHANGED exists /\ UNCHANGED url /\ UNCHANGED op
        /\ UNCHANGED disk /\ calm' = FALSE /\ todo' = [todo EXCEPT ![r] = <<>>]
        /\ state' = [state EXCEPT ![r] = "failed"]
    BY <1>12 DEF Photos!Fail
  <2>2. state'[r] = "failed"
    BY <1>2, <2>1 DEF Photos!TypeOK
  <2>3. QED BY <1>1, <1>2, <1>5, <2>1, <2>2 DEF Photos!TypeOK
<1>13. QED BY <1>6, <1>7, <1>8, <1>9, <1>10, <1>11, <1>12 DEF StepOf

\* What each kind of step does, beside going on.
Finds(r) ==
  /\ Head(todo[r]) \in Photos!Reads
  /\ exists \/ Head(todo[r]) = <<"look", "row">>
  /\ op'[r].read = Photos!Row /\ op'[r].removed = op[r].removed
  /\ UNCHANGED exists /\ UNCHANGED url /\ UNCHANGED disk /\ UNCHANGED calm
  /\ state'[r] # "failed"
  /\ state'[r] = "done" => Photos!Ahead(r) = {Head(todo[r])}

FindsNone(r) ==
  /\ ~exists /\ state'[r] = "done"
  /\ Head(todo[r]) = <<"find", "row">>
  /\ UNCHANGED op /\ UNCHANGED exists /\ UNCHANGED url /\ UNCHANGED disk
  /\ UNCHANGED calm

Stores(r) ==
  /\ \E s \in op[r].photos :
       Head(todo[r]) = Photos!Upload(s) /\ disk' = disk \cup {<<r, s>>}
  /\ UNCHANGED op /\ UNCHANGED exists /\ UNCHANGED url /\ UNCHANGED calm
  /\ state'[r] # "failed"

Unlinks(r) ==
  /\ \E s \in Photos!ToUnlink(r) :
       /\ Head(todo[r]) = Photos!Unlink(s)
       /\ disk' = disk \ ({op[r].read[s]} \cap Photos!Files)
       /\ op'[r].removed = op[r].removed \cup ({op[r].read[s]} \cap Photos!Files)
  /\ op'[r].read = op[r].read
  /\ UNCHANGED exists /\ UNCHANGED url /\ UNCHANGED calm
  /\ state'[r] # "failed"

UnlinksNone(r) ==
  /\ \E s \in Photos!ToUnlink(r) : Head(todo[r]) = Photos!Unlink(s)
  /\ calm' = FALSE
  /\ UNCHANGED op /\ UNCHANGED exists /\ UNCHANGED url /\ UNCHANGED disk
  /\ state'[r] # "failed"

Writes(r) ==
  /\ Photos!Ahead(r) = {Photos!Final(r)} /\ state'[r] = "done"
  /\ op[r].does \in {"create", "update", "upsert"} /\ (op[r].does = "update" => exists)
  /\ exists' = TRUE /\ url' = Photos!Written(r)
  /\ UNCHANGED op /\ UNCHANGED disk /\ UNCHANGED calm

Deletes(r) ==
  /\ Head(todo[r]) = Photos!Final(r) /\ op[r].does = "delete"
  /\ exists' = FALSE
  /\ UNCHANGED op /\ UNCHANGED url /\ UNCHANGED disk /\ UNCHANGED calm
  /\ state'[r] # "failed"

GivesUp(r) ==
  /\ state'[r] = "failed" /\ calm' = FALSE
  /\ UNCHANGED op /\ UNCHANGED exists /\ UNCHANGED url /\ UNCHANGED disk

Effect(r) ==
  \/ Finds(r) \/ FindsNone(r) \/ Stores(r) \/ Unlinks(r) \/ UnlinksNone(r)
  \/ Writes(r) \/ Deletes(r) \/ GivesUp(r)

LEMMA StepEffect ==
  ASSUME Photos!Inductive, NEW r \in FileRequests, StepOf(r)
  PROVE  Effect(r)
<1>1. r \in Photos!Running /\ Moves(r)
  BY StepMoves
<1>2. Photos!TypeOK /\ op[r] \in Photos!Operation
  BY DEF Photos!Inductive, Photos!TypeOK
<1>3. Photos!GoesOn(r) => state'[r] # "failed"
  BY <1>1, GoesOnMoves
<1>4. CASE Photos!Find(r)
  <2>1. /\ UNCHANGED exists /\ UNCHANGED url /\ UNCHANGED disk /\ UNCHANGED calm
        /\ Photos!At(r, "find") \/ Photos!At(r, "look")
    BY <1>4 DEF Photos!Find
  <2>2. CASE exists \/ Photos!At(r, "look")
    <3>1. /\ op' = [op EXCEPT ![r].read = IF exists THEN url ELSE Photos!Nothing]
          /\ Photos!GoesOn(r)
      BY <1>4, <2>2 DEF Photos!Find
    <3>2. op'[r].read = Photos!Row /\ op'[r].removed = op[r].removed
      BY <1>2, <3>1 DEF Photos!Row, Photos!TypeOK, Photos!Operation
    <3>3. Head(todo[r]) \in Photos!Reads /\ (exists \/ Head(todo[r]) = <<"look", "row">>)
      BY <1>1, <2>1, <2>2, HeadIs DEF Photos!Reads
    <3>4. state'[r] = "done" => Photos!Ahead(r) = {Head(todo[r])}
      BY <1>1, <3>1, GoesOnMoves, InTurnIs
    <3>5. QED BY <1>3, <2>1, <3>1, <3>2, <3>3, <3>4 DEF Effect, Finds
  <2>3. CASE ~(exists \/ Photos!At(r, "look"))
    <3>1. state' = [state EXCEPT ![r] = "done"] /\ UNCHANGED op
      BY <1>4, <2>3 DEF Photos!Find
    <3>2. Head(todo[r]) = <<"find", "row">>
      BY <1>1, <2>1, <2>3, HeadIs
    <3>3. state'[r] = "done"
      BY <1>2, <3>1 DEF Photos!TypeOK
    <3>4. QED BY <2>1, <2>3, <3>1, <3>2, <3>3 DEF Effect, FindsNone
  <2>4. QED BY <2>2, <2>3
<1>5. CASE Photos!Store(r)
  <2>1. /\ UNCHANGED op /\ UNCHANGED exists /\ UNCHANGED url /\ UNCHANGED calm
        /\ disk' = disk \cup {<<r, Photos!Slot(r)>>}
        /\ Photos!GoesOn(r) /\ Photos!At(r, "upload")
    BY <1>5 DEF Photos!Store
  <2>2. Photos!Slot(r) \in op[r].photos /\ Head(todo[r]) = Photos!Upload(Photos!Slot(r))
    BY <1>1, <2>1, HeadIs
  <2>3. QED BY <1>3, <2>1, <2>2 DEF Effect, Stores
<1>6. CASE Photos!Remove(r)
  <2> DEFINE gone == {op[r].read[Photos!Slot(r)]} \cap Photos!Files
  <2>1. /\ UNCHANGED exists /\ UNCHANGED url /\ UNCHANGED calm
        /\ disk' = disk \ gone
        /\ op' = [op EXCEPT ![r].removed = @ \cup gone]
        /\ Photos!GoesOn(r) /\ Photos!At(r, "unlink")
    BY <1>6 DEF Photos!Remove
  <2>2. /\ Photos!Slot(r) \in Photos!ToUnlink(r)
        /\ Head(todo[r]) = Photos!Unlink(Photos!Slot(r))
    BY <1>1, <2>1, HeadIs
  <2>3. op'[r].removed = op[r].removed \cup gone /\ op'[r].read = op[r].read
    <3> HIDE DEF gone
    <3>1. QED BY <1>2, <2>1 DEF Photos!TypeOK, Photos!Operation
  <2>4. QED BY <1>3, <2>1, <2>2, <2>3 DEF Effect, Unlinks
<1>7. CASE Photos!RemoveFails(r)
  <2>1. /\ UNCHANGED op /\ UNCHANGED exists /\ UNCHANGED url /\ UNCHANGED disk
        /\ calm' = FALSE /\ Photos!GoesOn(r) /\ Photos!At(r, "unlink")
    BY <1>7 DEF Photos!RemoveFails
  <2>2. /\ Photos!Slot(r) \in Photos!ToUnlink(r)
        /\ Head(todo[r]) = Photos!Unlink(Photos!Slot(r))
    BY <1>1, <2>1, HeadIs
  <2>3. QED BY <1>3, <2>1, <2>2 DEF Effect, UnlinksNone
<1>8. CASE Photos!Write(r)
  <2>1. /\ UNCHANGED op /\ UNCHANGED disk /\ UNCHANGED calm
        /\ exists' = TRUE /\ url' = Photos!Written(r) /\ Photos!GoesOn(r)
        /\ Photos!At(r, "create") \/ Photos!At(r, "upsert") \/ Photos!At(r, "update")
        /\ Photos!At(r, "update") => exists
    BY <1>8 DEF Photos!Write, Photos!At
  <2>2. /\ op[r].does \in {"create", "update", "upsert"} /\ (op[r].does = "update" => exists)
        /\ Head(todo[r]) = Photos!Final(r)
    BY <1>1, <2>1, HeadIs
  <2>3. Photos!Ahead(r) = {Photos!Final(r)}
    BY <1>1, <2>2, HeadIs
  <2>4. state'[r] = "done"
    <3>1. ASSUME state'[r] = "running" PROVE FALSE
      <4>1. Elements(todo'[r]) = {} /\ todo'[r] # <<>> /\ todo'[r] \in Seq(Photos!Awaits)
        BY <1>1, <2>1, <2>2, <2>3, <3>1, GoesOnMoves, InTurnIs
      <4>2. Len(todo'[r]) >= 1
        BY <4>1, EmptySeq
      <4>3. todo'[r][1] \in Elements(todo'[r])
        BY <4>1, <4>2 DEF Elements
      <4>4. QED BY <4>1, <4>3
    <3>2. QED BY <1>1, <1>3, <2>1, <3>1 DEF Moves
  <2>5. QED BY <2>1, <2>2, <2>3, <2>4 DEF Effect, Writes
<1>9. CASE Photos!Delete(r)
  <2>1. /\ UNCHANGED op /\ UNCHANGED url /\ UNCHANGED disk /\ UNCHANGED calm
        /\ exists' = FALSE /\ Photos!GoesOn(r) /\ Photos!At(r, "delete")
    BY <1>9 DEF Photos!Delete
  <2>2. op[r].does = "delete" /\ Head(todo[r]) = Photos!Final(r)
    BY <1>1, <2>1, HeadIs
  <2>3. QED BY <1>3, <2>1, <2>2 DEF Effect, Deletes
<1>10. CASE Photos!Fail(r)
  <2>1. /\ UNCHANGED op /\ UNCHANGED exists /\ UNCHANGED url /\ UNCHANGED disk
        /\ calm' = FALSE /\ state' = [state EXCEPT ![r] = "failed"]
    BY <1>10 DEF Photos!Fail
  <2>2. state'[r] = "failed"
    BY <1>2, <2>1 DEF Photos!TypeOK
  <2>3. QED BY <2>1, <2>2 DEF Effect, GivesUp
<1>11. QED BY <1>4, <1>5, <1>6, <1>7, <1>8, <1>9, <1>10 DEF StepOf

\* Who is on the way after a step, and what is before them.
LEMMA RunningMoves ==
  ASSUME Photos!Inductive, NEW r \in FileRequests, StepOf(r)
  PROVE  /\ \A q \in Photos!Running' : q \in Photos!Running
         /\ \A q \in Photos!Running' \ {r} : q \in Photos!Running \ {r}
         /\ \A q \in Photos!Running \ {r} : q \in Photos!Running'
         /\ \A q \in FileRequests \ {r} :
              /\ op'[q] = op[q] /\ Photos!Ahead(q)' = Photos!Ahead(q)
              /\ Photos!Final(q)' = Photos!Final(q)
              /\ Photos!ToUnlink(q)' = Photos!ToUnlink(q)
              /\ Photos!ToRead(q)' = Photos!ToRead(q)
         /\ Photos!Final(r)' = Photos!Final(r) /\ Photos!ToUnlink(r)' = Photos!ToUnlink(r)
         /\ r \in Photos!Running' =>
              /\ Photos!Ahead(r)' = Photos!Ahead(r) \ {Head(todo[r])}
              /\ Photos!InTurn(r)' /\ todo'[r] # <<>>
         /\ \A q \in FileRequests : state[q] = "done" => state'[q] = "done"
<1>1. r \in Photos!Running /\ Moves(r)
  BY StepMoves
<1>2. kind' = kind /\ Photos!TodoOK(r)
  BY <1>1 DEF Moves, Photos!Inductive
<1>3. /\ \A q \in Photos!Running' : q \in Photos!Running
      /\ \A q \in Photos!Running' \ {r} : q \in Photos!Running \ {r}
      /\ \A q \in Photos!Running \ {r} : q \in Photos!Running'
      /\ \A q \in FileRequests : state[q] = "done" => state'[q] = "done"
  BY <1>1 DEF Moves, Photos!Running
<1>4. ASSUME NEW q \in FileRequests \ {r}
      PROVE  /\ op'[q] = op[q] /\ Photos!Ahead(q)' = Photos!Ahead(q)
             /\ Photos!Final(q)' = Photos!Final(q)
             /\ Photos!ToUnlink(q)' = Photos!ToUnlink(q)
             /\ Photos!ToRead(q)' = Photos!ToRead(q)
  BY <1>1, <1>2 DEF Moves, Photos!Ahead, Photos!Final, Photos!ToUnlink, Photos!ToRead
<1>5. Photos!Final(r)' = Photos!Final(r) /\ Photos!ToUnlink(r)' = Photos!ToUnlink(r)
  BY <1>1, <1>2 DEF Moves, Photos!Final, Photos!ToUnlink
<1>6. ASSUME r \in Photos!Running'
      PROVE  /\ Photos!Ahead(r)' = Photos!Ahead(r) \ {Head(todo[r])}
             /\ Photos!InTurn(r)' /\ todo'[r] # <<>>
  <2>1. /\ todo'[r] # <<>>
        /\ Elements(todo'[r]) = Elements(todo[r]) \ {Head(todo[r])}
        /\ \A a, b : Before(todo'[r], a, b) => Before(todo[r], a, b)
    BY <1>1, <1>6 DEF Moves, Photos!Running
  <2>2. Photos!Ahead(r)' = Photos!Ahead(r) \ {Head(todo[r])}
    BY <2>1 DEF Photos!Ahead, Elements
  <2>3. TurnOf(todo[r], Photos!Final(r), kind, op[r].does)
    BY <1>2, InTurnIs DEF Photos!TodoOK
  <2>4. op'[r].does = op[r].does
    BY <1>1 DEF Moves
  <2>5. Photos!InTurn(r)'
    <3> SUFFICES ASSUME NEW i \in 1..Len(todo'[r]), NEW j \in 1..Len(todo'[r]), i < j
                 PROVE  /\ todo'[r][i] # todo'[r][j] /\ todo'[r][j][1] # "find"
                        /\ todo'[r][j][1] = "look" => todo'[r][i][1] = "upload"
                        /\ todo'[r][i] = Photos!Final(r)' =>
                             kind' = "slider" /\ op'[r].does = "delete"
      BY DEF Photos!InTurn
    <3>1. Before(todo'[r], todo'[r][i], todo'[r][j])
      BY DEF Before
    <3>2. Before(todo[r], todo'[r][i], todo'[r][j])
      BY <2>1, <3>1
    <3>3. QED BY <2>3, <2>4, <3>2, <1>2, <1>5 DEF TurnOf
  <2>6. QED BY <2>1, <2>2, <2>5
<1>7. QED BY <1>3, <1>4, <1>5, <1>6

\* A name that is taken over stays right.
LEMMA NamesMove ==
  ASSUME NEW names, Photos!NamesOK(names), kind' = kind,
         \A q \in FileRequests : state[q] = "done" => state'[q] = "done"
  PROVE  \A s \in Photos!Slots : names[s] \in Photos!Files =>
           names[s][2] = s /\ s \in Photos!SlotsOf(kind') /\ state'[names[s][1]] = "done"
BY DEF Photos!NamesOK, Photos!Files

LEMMA StepKeepsNames ==
  ASSUME Photos!Inductive, NEW r \in FileRequests, StepOf(r)
  PROVE  /\ Photos!NamesOK(url)'
         /\ \A q \in FileRequests : Photos!NamesOK(op[q].read)'
<1>1. r \in Photos!Running /\ Moves(r) /\ Effect(r) /\ kind' = kind
  BY StepMoves, StepEffect DEF Moves
<1>2. \A q \in FileRequests : state[q] = "done" => state'[q] = "done"
  BY RunningMoves
<1>3. /\ Photos!NamesOK(url) /\ Photos!NamesOK(Photos!Nothing) /\ Photos!NamesOK(Photos!Row)
      /\ \A q \in FileRequests : Photos!NamesOK(op[q].read)
  BY UrlsAre DEF Photos!Inductive, Photos!NamesOK, Photos!Row, Photos!Nothing
<1>4. ASSUME NEW q \in FileRequests PROVE Photos!NamesOK(op[q].read)'
  <2>1. op'[q].read = op[q].read \/ op'[q].read = Photos!Row
    BY <1>1 DEF Effect, Finds, FindsNone, Stores, Unlinks, UnlinksNone, Writes, Deletes,
                GivesUp, Moves
  <2>2. Photos!NamesOK(op[q].read) /\ Photos!NamesOK(Photos!Row)
    BY <1>3
  <2>3. CASE op'[q].read = op[q].read
    BY <1>1, <1>2, <2>2, <2>3, NamesMove DEF Photos!NamesOK, Photos!SlotsOf
  <2>4. CASE op'[q].read = Photos!Row
    <3> DEFINE row == Photos!Row
    <3>1. \A s \in Photos!Slots : row[s] \in Photos!Files =>
            row[s][2] = s /\ s \in Photos!SlotsOf(kind') /\ state'[row[s][1]] = "done"
      BY <1>1, <1>2, <2>2, NamesMove
    <3>2. QED BY <2>4, <3>1 DEF Photos!NamesOK, Photos!SlotsOf
  <2>5. QED BY <2>1, <2>3, <2>4
<1>5. ASSUME url' = url PROVE Photos!NamesOK(url)'
  BY <1>1, <1>2, <1>3, <1>5, NamesMove DEF Photos!NamesOK, Photos!SlotsOf
<1>6. ASSUME Writes(r) PROVE Photos!NamesOK(url)'
  <2>1. url' = Photos!Written(r) /\ state'[r] = "done"
    BY <1>6 DEF Writes
  <2>2. ASSUME NEW s \in Photos!Slots, url'[s] \in Photos!Files
        PROVE  url'[s][2] = s /\ s \in Photos!SlotsOf(kind') /\ state'[url'[s][1]] = "done"
    <3>1. url'[s] = IF s \in op[r].photos THEN <<r, s>>
                    ELSE IF s \in op[r].links THEN Photos!Link
                    ELSE IF exists THEN url[s] ELSE Photos!None
      BY <2>1 DEF Photos!Written
    <3>2. op[r].photos \subseteq Photos!SlotsOf(kind)
      BY <1>1 DEF Photos!Inductive, Photos!OpOK
    <3>3. CASE s \in op[r].photos
      BY <3>1, <3>2, <3>3, <2>1, <1>1
    <3>4. CASE s \notin op[r].photos
      <4>1. url'[s] = url[s]
        BY <3>1, <3>4, <2>2, UrlsAre
      <4>2. QED BY <4>1, <1>1, <1>2, <1>3, <2>2, NamesMove
    <3>5. QED BY <3>3, <3>4
  <2>3. QED BY <2>2 DEF Photos!NamesOK, Photos!SlotsOf
<1>7. url' = url \/ Writes(r)
  BY <1>1 DEF Effect, Finds, FindsNone, Stores, Unlinks, UnlinksNone, Deletes, GivesUp
<1>8. QED BY <1>4, <1>5, <1>6, <1>7

LEMMA StepKeepsCreators ==
  ASSUME Photos!Inductive, NEW r \in FileRequests, StepOf(r)
  PROVE  /\ \A q \in FileRequests : Photos!CreatorOK(q)'
         /\ Photos!Founded'
         /\ (kind = "perfil" => exists)'
<1>1. r \in Photos!Running /\ Moves(r) /\ Effect(r) /\ kind' = kind
  BY StepMoves, StepEffect DEF Moves
<1>2. /\ \A q \in FileRequests : Photos!CreatorOK(q)
      /\ \A q \in Photos!Running : Photos!TodoOK(q) /\ Photos!OpOK(q)
      /\ Photos!Founded /\ (kind = "perfil" => exists) /\ kind \in Photos!Kinds
  BY DEF Photos!Inductive, Photos!TypeOK
<1>3. \A q \in FileRequests : op'[q].does = op[q].does
  BY <1>1 DEF Moves
<1>4. ASSUME exists' # exists, exists'
      PROVE  op[r].does = "create" \/ kind = "template"
  <2>1. op[r].does \in {"create", "upsert"} /\ op[r].does \in Photos!Asks(kind)
    BY <1>1, <1>2, <1>4
       DEF Effect, Finds, FindsNone, Stores, Unlinks, UnlinksNone, Writes, Deletes,
           GivesUp, Photos!OpOK, Photos!Inductive, Photos!TypeOK
  <2>2. QED BY <2>1 DEF Photos!Asks
<1>5. ASSUME NEW q \in FileRequests PROVE Photos!CreatorOK(q)'
  <2> SUFFICES ASSUME op'[q].does = "create"
               PROVE  /\ \A p \in FileRequests : op'[p].does = "create" => p = q
                      /\ state'[q] = "running" =>
                           /\ ~exists'
                           /\ \A p \in Photos!Running' \ {q} :
                                <<"find", "row">> \in Photos!Ahead(p)'
    BY DEF Photos!CreatorOK
  <2>1. op[q].does = "create" /\ \A p \in FileRequests : op[p].does = "create" => p = q
    BY <1>2, <1>3 DEF Photos!CreatorOK
  <2>2. ASSUME state'[q] = "running"
        PROVE  /\ ~exists'
               /\ \A p \in Photos!Running' \ {q} : <<"find", "row">> \in Photos!Ahead(p)'
    <3>1. q \in Photos!Running
      BY <2>2, RunningMoves DEF Photos!Running
    <3>2. ~exists /\ \A p \in Photos!Running \ {q} : <<"find", "row">> \in Photos!Ahead(p)
      BY <1>2, <2>1, <3>1 DEF Photos!CreatorOK, Photos!Running
    <3>3. kind # "template"
      BY <1>2, <2>1, <3>1 DEF Photos!OpOK, Photos!Asks
    <3>4. ~Writes(r)
      <4>1. CASE r = q
        BY <2>2, <4>1 DEF Writes
      <4>2. CASE r # q
        <5>1. <<"find", "row">> \in Photos!Ahead(r)
          BY <1>1, <3>2, <4>2
        <5>2. QED BY <5>1 DEF Writes, Photos!Final
      <4>3. QED BY <4>1, <4>2
    <3>5. ~exists'
      BY <1>1, <3>2, <3>4
         DEF Effect, Finds, FindsNone, Stores, Unlinks, UnlinksNone, Deletes, GivesUp
    <3>6. ASSUME NEW p \in Photos!Running' \ {q} PROVE <<"find", "row">> \in Photos!Ahead(p)'
      <4>1. p \in Photos!Running \ {q}
        BY RunningMoves
      <4>2. <<"find", "row">> \in Photos!Ahead(p)
        BY <3>2, <4>1
      <4>3. CASE p # r
        BY <4>1, <4>2, <4>3, RunningMoves DEF Photos!Running
      <4>4. CASE p = r
        <5>1. Head(todo[r]) = <<"find", "row">>
          BY <1>1, <4>2, <4>4, HeadIs
        <5>2. op[r].does # "create"
          BY <2>1, <4>1, <4>4
        <5>3. state'[r] # "running"
          BY <1>1, <5>1, <3>2
             DEF Effect, Finds, FindsNone, Stores, Unlinks, UnlinksNone, Writes, Deletes,
                 GivesUp, Photos!Final, Photos!Upload, Photos!Unlink
        <5>4. QED BY <5>3, <4>4 DEF Photos!Running
      <4>5. QED BY <4>3, <4>4
    <3>7. QED BY <3>5, <3>6
  <2>3. QED BY <2>1, <2>2, <1>3
<1>6. Photos!Founded'
  <2> SUFFICES ASSUME "create" \in Photos!Asks(kind'),
                      exists' \/ \E q \in Photos!Running' : <<"find", "row">> \notin Photos!Ahead(q)'
               PROVE  \E q \in FileRequests : op'[q].does = "create"
    BY DEF Photos!Founded
  <2>1. kind # "template" /\ "create" \in Photos!Asks(kind)
    BY <1>1 DEF Photos!Asks
  <2>2. CASE exists \/ \E q \in Photos!Running : <<"find", "row">> \notin Photos!Ahead(q)
    BY <2>1, <2>2, <1>2, <1>3 DEF Photos!Founded
  <2>3. CASE exists' /\ ~exists
    BY <1>1, <1>3, <1>4, <2>1, <2>3
  <2>4. ASSUME NEW q \in Photos!Running', <<"find", "row">> \notin Photos!Ahead(q)',
               <<"find", "row">> \in Photos!Ahead(q), ~exists
        PROVE  FALSE
    <3>1. q = r
      BY <2>4, RunningMoves DEF Photos!Running
    <3>2. Head(todo[r]) = <<"find", "row">>
      BY <1>1, <2>4, <3>1, HeadIs
    <3>3. state'[r] # "running"
      <4>1. Photos!Final(r) # <<"find", "row">>
        BY <1>1, <1>2 DEF Photos!Final, Photos!OpOK, Photos!Asks, Photos!Kinds
      <4>2. QED
      BY <1>1, <2>4, <3>2, <4>1
         DEF Effect, Finds, FindsNone, Stores, Unlinks, UnlinksNone, Writes, Deletes,
             GivesUp, Photos!Upload, Photos!Unlink
    <3>4. QED BY <3>1, <3>3, <2>4 DEF Photos!Running
  <2>5. QED BY <2>2, <2>3, <2>4, RunningMoves
<1>7. (kind = "perfil" => exists)'
  <2> SUFFICES ASSUME kind = "perfil" PROVE exists'
    BY <1>1
  <2>1. exists /\ op[r].does = "update"
    BY <1>1, <1>2 DEF Photos!OpOK, Photos!Asks
  <2>2. QED
    BY <1>1, <2>1
       DEF Effect, Finds, FindsNone, Stores, Unlinks, UnlinksNone, Writes, Deletes, GivesUp
<1>8. QED BY <1>5, <1>6, <1>7

LEMMA StepKeepsTodo ==
  ASSUME Photos!Inductive, NEW r \in FileRequests, StepOf(r)
  PROVE  \A q \in Photos!Running' : Photos!TodoOK(q)'
<1> SUFFICES ASSUME NEW q \in Photos!Running' PROVE Photos!TodoOK(q)'
  OBVIOUS
<1>1. r \in Photos!Running /\ Moves(r) /\ Effect(r) /\ kind' = kind
  BY StepMoves, StepEffect DEF Moves
<1>2. q \in Photos!Running /\ Photos!TodoOK(q) /\ Photos!OpOK(q)
  BY RunningMoves DEF Photos!Inductive
<1>3. op'[q].does = op[q].does /\ op'[q].photos = op[q].photos
  BY <1>1, <1>2 DEF Moves, Photos!Running
<1>4. Photos!Final(q)' = Photos!Final(q) /\ Photos!ToUnlink(q)' = Photos!ToUnlink(q)
  BY <1>2, RunningMoves DEF Photos!Running
<1>5. Photos!Ahead(q)' \subseteq Photos!Ahead(q)
  BY <1>2, RunningMoves DEF Photos!Running
<1>6. todo'[q] # <<>> /\ Photos!InTurn(q)'
  <2>1. CASE q = r
    BY <2>1, RunningMoves
  <2>2. CASE q # r
    <3>1. todo'[q] = todo[q] /\ kind' = kind
      BY <1>1, <1>2, <2>2 DEF Moves, Photos!Running
    <3>2. QED BY <1>2, <1>3, <1>4, <3>1 DEF Photos!TodoOK, Photos!InTurn
  <2>3. QED BY <2>1, <2>2
<1>7. Photos!Ahead(q)' \subseteq
        Photos!Reads \cup {Photos!Final(q)'} \cup {Photos!Upload(s) : s \in op'[q].photos}
          \cup {Photos!Unlink(s) : s \in Photos!ToUnlink(q)'}
  BY <1>2, <1>3, <1>4, <1>5 DEF Photos!TodoOK
<1>8. \/ Photos!Final(q)' \in Photos!Ahead(q)'
      \/ kind' = "slider" /\ op'[q].does = "delete" /\ ~exists'
  <2>1. CASE Photos!Final(q) \in Photos!Ahead(q) /\ q # r
    BY <1>2, <1>4, <2>1, RunningMoves DEF Photos!Running
  <2>2. CASE Photos!Final(q) \in Photos!Ahead(q) /\ q = r /\ Head(todo[r]) # Photos!Final(r)
    BY <1>4, <2>2, RunningMoves
  <2>3. CASE q = r /\ Head(todo[r]) = Photos!Final(r)
    <3>1. kind = "slider" /\ op[r].does = "delete"
      <4>1. SUFFICES ASSUME ~(kind = "slider" /\ op[r].does = "delete") PROVE FALSE
        OBVIOUS
      <4>2. Photos!Ahead(r) = {Photos!Final(r)}
        BY <1>1, <2>3, <4>1, HeadIs
      <4>3. Photos!Ahead(r)' = {} /\ todo'[r] # <<>> /\ todo'[r] \in Seq(Photos!Awaits)
        BY <2>3, <4>2, RunningMoves, StepMoves
      <4>4. todo'[r][1] \in Photos!Ahead(r)'
        <5>1. Len(todo'[r]) >= 1
          BY <4>3, EmptySeq
        <5>2. QED BY <5>1, <4>3 DEF Photos!Ahead
      <4>5. QED BY <4>3, <4>4
    <3>2. ~exists'
      BY <1>1, <1>2, <2>3, <3>1
         DEF Effect, Finds, FindsNone, Stores, Unlinks, UnlinksNone, Writes, Deletes, GivesUp,
             Photos!Final, Photos!Reads, Photos!Upload, Photos!Unlink, Photos!Running
    <3>3. QED BY <1>1, <1>3, <2>3, <3>1, <3>2
  <2>4. CASE Photos!Final(q) \notin Photos!Ahead(q)
    <3>1. kind = "slider" /\ op[q].does = "delete" /\ ~exists
      BY <1>2, <2>4 DEF Photos!TodoOK
    <3>2. ASSUME Writes(r) PROVE FALSE
      <4>1. op[r].does = "create"
        <5>1. op[r].does \in Photos!Asks("slider")
          BY <1>1, <3>1 DEF Photos!Inductive, Photos!OpOK
        <5>2. QED BY <3>1, <3>2, <5>1 DEF Writes, Photos!Asks
      <4>2. <<"find", "row">> \in Photos!Ahead(q)
        BY <1>1, <1>2, <3>1, <4>1 DEF Photos!Inductive, Photos!CreatorOK, Photos!Running
      <4>3. Photos!Final(q) \in Photos!Ahead(q)
        BY <1>2, <4>2 DEF Photos!OpOK, Photos!ToRead, Photos!Reads
      <4>4. QED BY <2>4, <4>3
    <3>3. ~exists'
      BY <1>1, <3>1, <3>2
         DEF Effect, Finds, FindsNone, Stores, Unlinks, UnlinksNone, Deletes, GivesUp
    <3>4. QED BY <1>1, <1>3, <3>1, <3>3
  <2>5. QED BY <2>1, <2>2, <2>3, <2>4
<1>9. op'[q].does = "create" => ~Photos!ToRead(q)'
  BY <1>2, <1>3, <1>5 DEF Photos!TodoOK, Photos!ToRead
<1>10. QED BY <1>6, <1>7, <1>8, <1>9 DEF Photos!TodoOK

LEMMA StepKeepsOps ==
  ASSUME Photos!Inductive, NEW r \in FileRequests, StepOf(r)
  PROVE  \A q \in Photos!Running' : Photos!OpOK(q)' /\ Photos!UploadedIsThere(q)'
<1> SUFFICES ASSUME NEW q \in Photos!Running'
             PROVE  Photos!OpOK(q)' /\ Photos!UploadedIsThere(q)'
  OBVIOUS
<1>1. r \in Photos!Running /\ Moves(r) /\ Effect(r) /\ kind' = kind
  BY StepMoves, StepEffect DEF Moves
<1>2. /\ q \in Photos!Running /\ q \in FileRequests
      /\ Photos!TodoOK(q) /\ Photos!OpOK(q) /\ Photos!UploadedIsThere(q)
  BY RunningMoves DEF Photos!Inductive, Photos!Running
<1>3. /\ op'[q].does = op[q].does /\ op'[q].photos = op[q].photos /\ op'[q].links = op[q].links
  BY <1>1, <1>2 DEF Moves
<1>4. Photos!Final(q)' = Photos!Final(q) /\ Photos!ToUnlink(q)' = Photos!ToUnlink(q)
  BY <1>2, RunningMoves
<1>5. Photos!Ahead(q)' \subseteq Photos!Ahead(q)
  BY <1>2, RunningMoves
<1>6. Photos!UploadedIsThere(q)'
  <2> SUFFICES ASSUME NEW s \in op[q].photos, Photos!Upload(s) \notin Photos!Ahead(q)'
               PROVE  <<q, s>> \in disk'
    BY <1>3 DEF Photos!UploadedIsThere
  <2>1. CASE Photos!Upload(s) \in Photos!Ahead(q)
    <3>1. q = r /\ Head(todo[r]) = Photos!Upload(s)
      BY <1>2, <2>1, RunningMoves
    <3>2. state'[r] = "running"
      BY <3>1 DEF Photos!Running
    <3>3. Stores(r)
      BY <1>1, <3>1, <3>2
         DEF Effect, Finds, FindsNone, Unlinks, UnlinksNone, Writes, Deletes, GivesUp,
             Photos!Final, Photos!Reads, Photos!Upload, Photos!Unlink
    <3>4. QED BY <3>1, <3>3 DEF Stores, Photos!Upload
  <2>2. CASE Photos!Upload(s) \notin Photos!Ahead(q)
    <3>1. <<q, s>> \in disk
      BY <1>2, <2>2 DEF Photos!UploadedIsThere
    <3>2. CASE Unlinks(r)
      <4>1. PICK t \in Photos!ToUnlink(r) :
              disk' = disk \ ({op[r].read[t]} \cap Photos!Files)
        BY <3>2 DEF Unlinks
      <4>2. t \in Photos!Slots
        BY <1>1 DEF Photos!ToUnlink, Photos!SlotsOf, Photos!Slots, Photos!Inductive,
                    Photos!OpOK
      <4>3. op[r].read[t] \in Photos!Files => state[op[r].read[t][1]] = "done"
        BY <1>1, <4>2 DEF Photos!Inductive, Photos!NamesOK, Photos!Running
      <4>4. op[r].read[t] # <<q, s>> \/ op[r].read[t] \notin Photos!Files
        BY <1>2, <4>3 DEF Photos!Running
      <4>5. QED BY <3>1, <4>1, <4>4
    <3>3. CASE ~Unlinks(r)
      BY <1>1, <3>1, <3>3
         DEF Effect, Finds, FindsNone, Stores, UnlinksNone, Writes, Deletes, GivesUp
    <3>4. QED BY <3>2, <3>3
  <2>3. QED BY <2>1, <2>2
<1>7. Photos!OpOK(q)'
  <2>1. CASE q # r
    <3>1. op'[q] = op[q] /\ Photos!Ahead(q)' = Photos!Ahead(q)
          /\ Photos!ToRead(q)' = Photos!ToRead(q)
      BY <1>2, <2>1, RunningMoves
    <3>2. QED
      BY <1>1, <1>2, <1>4, <3>1 DEF Photos!OpOK, Photos!SlotsOf, Photos!Asks
  <2>2. CASE q = r
    <3>1. state'[r] = "running" /\ Photos!Ahead(r)' = Photos!Ahead(r) \ {Head(todo[r])}
      BY <2>2, RunningMoves DEF Photos!Running
    <3>2. /\ op'[r].does \in Photos!Asks(kind')
          /\ op'[r].photos \cup op'[r].links \subseteq Photos!SlotsOf(kind')
          /\ op'[r].does = "delete" => op'[r].photos = {}
      BY <1>1, <1>2, <1>3, <2>2 DEF Photos!OpOK
    <3>3. op'[r].removed \subseteq
            {op'[r].read[s] : s \in {t \in Photos!ToUnlink(r)' : Photos!Unlink(t) \notin Photos!Ahead(r)'}}
      <4>1. op[r].removed \subseteq
              {op[r].read[s] : s \in {t \in Photos!ToUnlink(r) : Photos!Unlink(t) \notin Photos!Ahead(r)}}
        BY <1>2, <2>2 DEF Photos!OpOK
      <4>2. CASE Finds(r)
        <5>1. Photos!ToRead(r)
          BY <1>1, <4>2, HeadIs DEF Finds, Photos!ToRead
        <5>2. op'[r].removed = {}
          BY <1>2, <2>2, <4>2, <5>1 DEF Finds, Photos!OpOK
        <5>3. QED BY <5>2
      <4>3. CASE Unlinks(r)
        <5>1. PICK s \in Photos!ToUnlink(r) :
                /\ Head(todo[r]) = Photos!Unlink(s)
                /\ op'[r].removed = op[r].removed \cup ({op[r].read[s]} \cap Photos!Files)
          BY <4>3 DEF Unlinks
        <5>2. op'[r].read = op[r].read
          BY <4>3 DEF Unlinks
        <5>3. Photos!Unlink(s) \notin Photos!Ahead(r)'
          BY <3>1, <5>1
        <5>4. QED BY <1>4, <2>2, <3>1, <4>1, <5>1, <5>2, <5>3
      <4>4. CASE op' = op
        BY <1>4, <2>2, <3>1, <4>1, <4>4
      <4>5. QED
        BY <1>1, <3>1, <4>2, <4>3, <4>4
           DEF Effect, FindsNone, Stores, UnlinksNone, Writes, Deletes, GivesUp
    <3>4. ASSUME Photos!ToRead(r)'
          PROVE  /\ Photos!Final(r)' \in Photos!Ahead(r)'
                 /\ op'[r].read = Photos!Nothing /\ op'[r].removed = {}
                 /\ \A s \in Photos!ToUnlink(r)' : Photos!Unlink(s) \in Photos!Ahead(r)'
      <4>1. Photos!ToRead(r)
        BY <3>1, <3>4 DEF Photos!ToRead
      <4>2. /\ Photos!Final(r) \in Photos!Ahead(r)
            /\ op[r].read = Photos!Nothing /\ op[r].removed = {}
            /\ \A s \in Photos!ToUnlink(r) : Photos!Unlink(s) \in Photos!Ahead(r)
        BY <1>2, <2>2, <4>1 DEF Photos!OpOK
      <4>3. Head(todo[r])[1] = "upload"
        <5>1. PICK b \in Photos!Reads : b \in Photos!Ahead(r)'
          BY <3>4 DEF Photos!ToRead
        <5>2. b \in Photos!Ahead(r) /\ b # Head(todo[r])
          BY <3>1, <5>1
        <5>3. Before(todo[r], Head(todo[r]), b)
          <6>1. todo[r] \in Seq(Photos!Awaits) /\ todo[r] # <<>>
            BY <1>2, <2>2 DEF Photos!TodoOK, Photos!Inductive, Photos!TypeOK
          <6>2. \A x, y : Before(todo[r], x, y) => x # y
            BY <1>2, <2>2, InTurnIs DEF Photos!TodoOK, TurnOf
          <6>3. QED BY <5>2, <6>1, <6>2, TailMoves, InTurnIs
        <5>4. TurnOf(todo[r], Photos!Final(r), kind, op[r].does)
          BY <1>2, <2>2, InTurnIs DEF Photos!TodoOK
        <5>5. QED BY <5>1, <5>3, <5>4 DEF TurnOf, Photos!Reads
      <4>4. Stores(r)
        BY <1>1, <3>1, <4>3, <1>2, <2>2
           DEF Effect, Finds, FindsNone, Unlinks, UnlinksNone, Writes, Deletes, GivesUp,
               Photos!Final, Photos!Reads, Photos!Unlink
      <4>5. op' = op
        BY <4>4 DEF Stores
      <4>6. Photos!Final(r)' \in Photos!Ahead(r)'
        <5>1. Photos!Final(r)[1] # "upload"
          BY <1>2, <2>2 DEF Photos!OpOK, Photos!Asks, Photos!Final, Photos!Inductive,
                            Photos!TypeOK, Photos!Kinds
        <5>2. QED BY <1>4, <2>2, <3>1, <4>2, <4>3, <5>1
      <4>7. \A s \in Photos!ToUnlink(r)' : Photos!Unlink(s) \in Photos!Ahead(r)'
        <5>1. \A s : Photos!Unlink(s) # Head(todo[r])
          BY <4>3 DEF Photos!Unlink
        <5>2. QED BY <1>4, <2>2, <3>1, <4>2, <5>1
      <4>8. QED BY <4>2, <4>5, <4>6, <4>7
    <3>5. <<"find", "row">> \in Photos!Ahead(r)' =>
            \A s \in op'[r].photos : Photos!Upload(s) \in Photos!Ahead(r)'
      <4>1. <<"find", "row">> \notin Photos!Ahead(r)'
        BY <1>1, <3>1, HeadIs
      <4>2. QED BY <4>1
    <3>6. QED BY <2>2, <3>2, <3>3, <3>4, <3>5 DEF Photos!OpOK
  <2>3. QED BY <2>1, <2>2
<1>8. QED BY <1>6, <1>7

\* A request that comes to its end beside a row has written it, or had read nothing.
LEMMA DoneIsWritten ==
  ASSUME Photos!Inductive, NEW r \in FileRequests, StepOf(r),
         state'[r] = "done", exists, exists'
  PROVE  Writes(r)
<1>1. r \in Photos!Running /\ Moves(r) /\ Effect(r)
  BY StepMoves, StepEffect
<1>2. Photos!TodoOK(r) /\ Photos!OpOK(r)
  BY <1>1 DEF Photos!Inductive
<1>3. op[r].does \in {"create", "update", "delete", "upsert"}
  BY <1>2 DEF Photos!OpOK, Photos!Asks, Photos!Inductive, Photos!TypeOK, Photos!Kinds
<1>4. ~Deletes(r) /\ ~FindsNone(r) /\ ~GivesUp(r)
  BY DEF Deletes, FindsNone, GivesUp
<1>5. ASSUME ~Writes(r) PROVE FALSE
  <2>1. Photos!Ahead(r) = {Head(todo[r])}
    <3>1. CASE Finds(r)
      BY <3>1 DEF Finds
    <3>2. CASE ~Finds(r)
      <4>1. ~Photos!Find(r)
        <5>1. ASSUME Photos!Find(r) PROVE FALSE
          <6>1. Head(todo[r])[1] \in {"find", "look"}
            BY <5>1 DEF Photos!Find, Photos!At
          <6>2. QED
            BY <1>1, <1>4, <1>5, <3>2, <6>1
               DEF Effect, Stores, Unlinks, UnlinksNone, Photos!Upload, Photos!Unlink
        <5>2. QED BY <5>1
      <4>2. QED BY <1>1, <4>1, InTurnIs DEF Moves
    <3>3. QED BY <3>1, <3>2
  <2>2. Photos!Final(r) = Head(todo[r])
    BY <1>2, <2>1 DEF Photos!TodoOK
  <2>3. QED
    BY <1>1, <1>3, <1>4, <1>5, <2>2
       DEF Effect, Finds, Stores, Unlinks, UnlinksNone, Photos!Final, Photos!Reads,
           Photos!Upload, Photos!Unlink
<1>6. QED BY <1>5

LEMMA StepKeepsCulprits ==
  ASSUME Photos!Inductive, NEW r \in FileRequests, StepOf(r)
  PROVE  Photos!MissingHasCulprit'
<1>1. r \in Photos!Running /\ Moves(r) /\ Effect(r) /\ kind' = kind
  BY StepMoves, StepEffect DEF Moves
<1>2. /\ Photos!TypeOK /\ Photos!TodoOK(r) /\ Photos!OpOK(r) /\ Photos!UploadedIsThere(r)
      /\ Photos!NamesOK(url) /\ Photos!NamesOK(op[r].read)
      /\ Photos!MissingHasCulprit
  BY <1>1 DEF Photos!Inductive
<1> SUFFICES ASSUME NEW f \in Photos!Named' \ disk'
             PROVE  \E q \in FileRequests :
                      f \in op'[q].removed /\ state'[q] \in {"running", "failed"}
  BY DEF Photos!MissingHasCulprit
<1>3. exists' /\ \E s \in Photos!Slots : f = url'[s]
  BY DEF Photos!Named
<1>4. f \in Photos!Files
  BY DEF Photos!Named
<1>5. CASE Writes(r)
  <2>1. /\ url' = Photos!Written(r) /\ disk' = disk /\ op' = op
        /\ Photos!Ahead(r) = {Photos!Final(r)} /\ op[r].does # "delete"
    BY <1>5 DEF Writes
  <2>2. PICK s \in Photos!Slots : f = url'[s]
    BY <1>3
  <2>3. f = IF s \in op[r].photos THEN <<r, s>>
            ELSE IF s \in op[r].links THEN Photos!Link
            ELSE IF exists THEN url[s] ELSE Photos!None
    BY <2>1, <2>2 DEF Photos!Written
  <2>4. s \notin op[r].photos
    <3>1. ASSUME s \in op[r].photos PROVE FALSE
      <4>1. Photos!Upload(s) # Photos!Final(r)
        BY DEF Photos!Upload, Photos!Final, Photos!Slots
      <4>2. <<r, s>> \in disk
        BY <1>2, <2>1, <3>1, <4>1 DEF Photos!UploadedIsThere
      <4>3. QED BY <2>1, <2>3, <3>1, <4>2
    <3>2. QED BY <3>1
  <2>5. exists /\ f = url[s]
    BY <1>4, <2>3, <2>4, UrlsAre
  <2>6. f \in Photos!Named \ disk
    BY <1>4, <2>1, <2>5 DEF Photos!Named
  <2>7. PICK q \in FileRequests : f \in op[q].removed /\ state[q] \in {"running", "failed"}
    BY <1>2, <2>6 DEF Photos!MissingHasCulprit
  <2>8. q # r
    <3>1. ASSUME f \in op[r].removed PROVE FALSE
      <4>1. PICK t \in op[r].photos : f = op[r].read[t]
        BY <1>2, <2>1, <3>1 DEF Photos!OpOK, Photos!ToUnlink
      <4>2. t \in Photos!Slots
        BY <1>1, <1>2 DEF Photos!TypeOK, Photos!Operation, Photos!Running
      <4>3. f[2] = t /\ f[2] = s
        BY <1>2, <1>4, <2>5, <4>1, <4>2 DEF Photos!NamesOK
      <4>4. QED BY <2>4, <4>1, <4>3
    <3>2. QED BY <2>7, <3>1
  <2>9. QED BY <1>1, <2>1, <2>7, <2>8 DEF Moves
<1>6. CASE ~Writes(r)
  <2>1. exists /\ url' = url
    BY <1>1, <1>3, <1>6
       DEF Effect, Finds, FindsNone, Stores, Unlinks, UnlinksNone, Deletes, GivesUp
  <2>2. state'[r] \in {"running", "failed"}
    BY <1>1, <1>3, <1>6, <2>1, DoneIsWritten DEF Moves
  <2>3. f \in Photos!Named
    BY <1>3, <1>4, <2>1 DEF Photos!Named
  <2>4. CASE f \in disk
    <3>1. Unlinks(r)
      BY <1>1, <1>6, <2>4
         DEF Effect, Finds, FindsNone, Stores, UnlinksNone, Deletes, GivesUp
    <3>2. f \in op'[r].removed
      BY <2>4, <3>1 DEF Unlinks
    <3>3. QED BY <2>2, <3>2
  <2>5. CASE f \notin disk
    <3>1. PICK q \in FileRequests : f \in op[q].removed /\ state[q] \in {"running", "failed"}
      BY <1>2, <2>3, <2>5 DEF Photos!MissingHasCulprit
    <3>2. CASE q # r
      BY <1>1, <3>1, <3>2 DEF Moves
    <3>3. CASE q = r
      <4>1. f \in op'[r].removed
        BY <1>1, <1>6, <3>1, <3>3
           DEF Effect, Finds, FindsNone, Stores, Unlinks, UnlinksNone, Deletes, GivesUp
      <4>2. QED BY <2>2, <4>1
    <3>4. QED BY <3>2, <3>3
  <2>6. QED BY <2>4, <2>5
<1>7. QED BY <1>5, <1>6

\* What CalmOK says of the one request on its way.
AtWork(r) ==
  /\ op[r].links = {}
  /\ ~Photos!ToRead(r) /\ Photos!Final(r) \in Photos!Ahead(r) => op[r].read = Photos!Row
  /\ kind # "documento" =>
       /\ op[r].removed =
            {op[r].read[s] : s \in {t \in Photos!ToUnlink(r) :
                                      Photos!Unlink(t) \notin Photos!Ahead(r)}}
            \cap Photos!Files
       /\ disk = (Photos!Names(r) \ op[r].removed) \cup Photos!Uploaded(r)

LEMMA CalmIs ==
  /\ Photos!CalmOK <=>
       (calm =>
          /\ \A r, q \in Photos!Running : r = q
          /\ \A r \in Photos!Running : AtWork(r)
          /\ Photos!Running = {} /\ kind # "documento" => disk = Photos!Named)
  /\ Photos!Named = Photos!FilesOf(Photos!Row)
<1>1. Photos!Named = Photos!FilesOf(Photos!Row)
  BY UrlsAre DEF Photos!Named, Photos!FilesOf, Photos!Row, Photos!Nothing
<1>2. QED BY <1>1 DEF Photos!CalmOK, AtWork

\* While everything is calm, a request that goes on keeps the account of its files.
LEMMA WorkGoesOn ==
  ASSUME Photos!Inductive, NEW r \in FileRequests, StepOf(r), AtWork(r), calm',
         state'[r] = "running"
  PROVE  AtWork(r)'
<1> DEFINE h == Head(todo[r])
<1>1. r \in Photos!Running /\ Moves(r) /\ Effect(r) /\ kind' = kind
  BY StepMoves, StepEffect DEF Moves
<1>2. Photos!TodoOK(r) /\ Photos!OpOK(r) /\ Photos!NamesOK(op[r].read)
  BY <1>1 DEF Photos!Inductive
<1>3. /\ Photos!Ahead(r)' = Photos!Ahead(r) \ {h} /\ Photos!Final(r)' = Photos!Final(r)
      /\ Photos!ToUnlink(r)' = Photos!ToUnlink(r)
  <2>1. r \in Photos!Running'
    BY DEF Photos!Running
  <2>2. QED BY <2>1, RunningMoves
<1>4. h \in Photos!Ahead(r) /\ (Photos!ToRead(r) => h[1] \in {"find", "look", "upload"})
  BY <1>1, HeadIs
<1>5. op'[r].links = {} /\ op'[r].photos = op[r].photos
  BY <1>1 DEF Moves, AtWork
<1> HIDE DEF h
<1>6. h \notin Photos!Reads => (Photos!ToRead(r)' <=> Photos!ToRead(r))
  BY <1>3 DEF Photos!ToRead
<1>7. Photos!Names(r)' = Photos!FilesOf(IF Photos!ToRead(r)' THEN Photos!Row' ELSE op'[r].read)
  BY DEF Photos!Names, Photos!FilesOf
<1>8. Photos!Uploaded(r)' =
        {<<r, s>> : s \in {t \in op[r].photos : Photos!Upload(t) \notin Photos!Ahead(r)'}}
  BY <1>5 DEF Photos!Uploaded
<1>9. (\A s : h # Photos!Upload(s)) => Photos!Uploaded(r)' = Photos!Uploaded(r)
  BY <1>3, <1>8 DEF Photos!Uploaded
<1> DEFINE Left(a) == {t \in Photos!ToUnlink(r) : Photos!Unlink(t) \notin a}
<1>10. (\A s : h # Photos!Unlink(s)) => Left(Photos!Ahead(r)') = Left(Photos!Ahead(r))
  BY <1>3
<1>11. CASE Finds(r)
  <2>1. /\ h \in Photos!Reads /\ op'[r].read = Photos!Row /\ op'[r].removed = op[r].removed
        /\ Photos!Row' = Photos!Row /\ disk' = disk
    BY <1>11 DEF Finds, Photos!Row, h
  <2>2. Photos!ToRead(r)
    BY <1>4, <2>1 DEF Photos!ToRead
  <2>3. op[r].removed = {} /\ Left(Photos!Ahead(r)) = {}
    BY <1>2, <2>2 DEF Photos!OpOK
  <2>4. (\A s : h # Photos!Unlink(s)) /\ (\A s : h # Photos!Upload(s))
    BY <2>1 DEF Photos!Reads, Photos!Unlink, Photos!Upload
  <2>5. Photos!Names(r)' = Photos!Names(r)
    BY <1>7, <2>1, <2>2 DEF Photos!Names
  <2>6. {op'[r].read[s] : s \in Left(Photos!Ahead(r)')} = {}
    BY <1>10, <2>3, <2>4
  <2>7. QED BY <1>1, <1>3, <1>5, <1>9, <2>1, <2>3, <2>4, <2>5, <2>6 DEF AtWork
<1>12. CASE Stores(r)
  <2>1. PICK s \in op[r].photos : h = Photos!Upload(s) /\ disk' = disk \cup {<<r, s>>}
    BY <1>12 DEF Stores, h
  <2>2. op' = op /\ Photos!Row' = Photos!Row
    BY <1>12 DEF Stores, Photos!Row
  <2>3. h \notin Photos!Reads /\ \A t : h # Photos!Unlink(t)
    BY <2>1 DEF Photos!Reads, Photos!Unlink, Photos!Upload
  <2>4. Photos!Names(r)' = Photos!Names(r)
    BY <1>6, <1>7, <2>2, <2>3 DEF Photos!Names
  <2>5. Photos!Uploaded(r)' = Photos!Uploaded(r) \cup {<<r, s>>}
    <3>1. \A t : h = Photos!Upload(t) <=> t = s
      BY <2>1 DEF Photos!Upload
    <3>2. {t \in op[r].photos : Photos!Upload(t) \notin Photos!Ahead(r)'} =
          {t \in op[r].photos : Photos!Upload(t) \notin Photos!Ahead(r)} \cup {s}
      BY <1>3, <2>1, <3>1
    <3>3. QED BY <1>8, <3>2 DEF Photos!Uploaded
  <2>6. QED
    BY <1>1, <1>3, <1>5, <1>6, <1>10, <2>1, <2>2, <2>3, <2>4, <2>5 DEF AtWork
<1>13. CASE Unlinks(r)
  <2> DEFINE gone(s) == {op[r].read[s]} \cap Photos!Files
  <2>1. PICK s \in Photos!ToUnlink(r) :
          /\ h = Photos!Unlink(s) /\ disk' = disk \ gone(s)
          /\ op'[r].removed = op[r].removed \cup gone(s)
    BY <1>13 DEF Unlinks, h
  <2>2. op'[r].read = op[r].read /\ Photos!Row' = Photos!Row
    BY <1>13 DEF Unlinks, Photos!Row
  <2>3. /\ h \notin Photos!Reads /\ (\A t : h # Photos!Upload(t))
        /\ h[1] \notin {"find", "look", "upload"}
    BY <2>1 DEF Photos!Reads, Photos!Unlink, Photos!Upload
  <2>4. ~Photos!ToRead(r) /\ ~Photos!ToRead(r)'
    BY <1>4, <1>6, <2>3
  <2>5. Photos!Names(r)' = Photos!Names(r)
    BY <1>7, <2>2, <2>4 DEF Photos!Names
  <2>6. Left(Photos!Ahead(r)') = Left(Photos!Ahead(r)) \cup {s}
    <3>1. \A t : h = Photos!Unlink(t) <=> t = s
      BY <2>1 DEF Photos!Unlink
    <3>2. QED BY <1>3, <2>1, <3>1
  <2>7. gone(s) \cap Photos!Uploaded(r) = {}
    <3>1. s \in Photos!Slots
      BY <1>1, <1>2 DEF Photos!ToUnlink, Photos!SlotsOf, Photos!Slots, Photos!OpOK
    <3>2. op[r].read[s] \in Photos!Files => state[op[r].read[s][1]] = "done"
      BY <1>2, <3>1 DEF Photos!NamesOK
    <3>3. QED BY <1>1, <3>2 DEF Photos!Uploaded, Photos!Running
  <2>8. {op'[r].read[t] : t \in Left(Photos!Ahead(r)')} \cap Photos!Files =
        ({op[r].read[t] : t \in Left(Photos!Ahead(r))} \cap Photos!Files) \cup gone(s)
    BY <2>2, <2>6
  <2> HIDE DEF gone
  <2>9. QED
    BY <1>1, <1>3, <1>5, <1>9, <2>1, <2>2, <2>3, <2>4, <2>5, <2>7, <2>8 DEF AtWork
<1>14. CASE Deletes(r)
  <2>1. h = <<"delete", "row">> /\ Photos!Final(r) = h
    BY <1>14 DEF Deletes, h, Photos!Final
  <2>2. op' = op /\ disk' = disk
    BY <1>14 DEF Deletes
  <2>3. /\ h \notin Photos!Reads /\ (\A t : h # Photos!Upload(t) /\ h # Photos!Unlink(t))
        /\ h[1] \notin {"find", "look", "upload"}
    BY <2>1 DEF Photos!Reads, Photos!Unlink, Photos!Upload
  <2>4. ~Photos!ToRead(r) /\ ~Photos!ToRead(r)'
    BY <1>4, <1>6, <2>3
  <2>5. Photos!Names(r)' = Photos!Names(r)
    BY <1>7, <2>2, <2>4 DEF Photos!Names
  <2>6. Photos!Final(r)' \notin Photos!Ahead(r)'
    BY <1>3, <2>1
  <2>7. QED
    BY <1>1, <1>3, <1>5, <1>9, <1>10, <2>2, <2>3, <2>4, <2>5, <2>6 DEF AtWork
<1>15. QED
  BY <1>1, <1>11, <1>12, <1>13, <1>14
     DEF Effect, FindsNone, UnlinksNone, Writes, GivesUp

\* When the last request comes to its end, the directory is the row's again.
LEMMA WorkEndsClean ==
  ASSUME Photos!Inductive, NEW r \in FileRequests, StepOf(r), AtWork(r), calm',
         state'[r] = "done", kind # "documento"
  PROVE  disk' = Photos!Named'
<1> DEFINE h == Head(todo[r])
<1>1. r \in Photos!Running /\ Moves(r) /\ Effect(r)
  BY StepMoves, StepEffect
<1>2. /\ Photos!TodoOK(r) /\ Photos!OpOK(r) /\ Photos!NamesOK(op[r].read)
      /\ Photos!CreatorOK(r) /\ Photos!NamesOK(url) /\ Photos!TypeOK
  BY <1>1 DEF Photos!Inductive
<1>3. /\ h \in Photos!Ahead(r) /\ (Photos!ToRead(r) => h[1] \in {"find", "look", "upload"})
      /\ <<"find", "row">> \in Photos!Ahead(r) => h = <<"find", "row">>
  BY <1>1, HeadIs
<1>4. op[r].does \in {"create", "update", "delete", "upsert"}
  BY <1>2 DEF Photos!OpOK, Photos!Asks, Photos!TypeOK, Photos!Kinds
<1>5. Photos!Find(r) => h[1] \in {"find", "look"}
  BY DEF Photos!Find, Photos!At
<1>6. h[1] \notin {"find", "look"} => Photos!Ahead(r) = {h}
  BY <1>1, <1>5, InTurnIs DEF Moves
<1> HIDE DEF h
<1> DEFINE left == {t \in Photos!ToUnlink(r) : Photos!Unlink(t) \notin Photos!Ahead(r)}
<1>7. /\ op[r].removed = {op[r].read[s] : s \in left} \cap Photos!Files
      /\ disk = (Photos!Names(r) \ op[r].removed) \cup Photos!Uploaded(r)
      /\ op[r].links = {}
  BY DEF AtWork
<1>8. /\ \A s \in Photos!Slots : op[r].read[s] \in Photos!Files => s \in Photos!SlotsOf(kind)
      /\ \A s, t \in Photos!Slots : url[s] \in Photos!Files /\ url[s] = url[t] => s = t
  BY <1>2 DEF Photos!NamesOK
<1>9. ~exists' => Photos!Named' = {}
  BY DEF Photos!Named
<1>10. op[r].does = "delete" => Photos!ToUnlink(r) = Photos!SlotsOf(kind) /\ Photos!Uploaded(r) = {}
  BY <1>2 DEF Photos!ToUnlink, Photos!OpOK, Photos!Uploaded
<1>11. ASSUME Finds(r) PROVE FALSE
  <2>1. h \in Photos!Reads /\ Photos!Ahead(r) = {h}
    BY <1>11 DEF Finds, h
  <2>2. Photos!Final(r) \in Photos!Ahead(r)
    BY <1>2, <2>1 DEF Photos!OpOK, Photos!ToRead
  <2>3. QED BY <1>4, <2>1, <2>2 DEF Photos!Final, Photos!Reads
<1>12. CASE FindsNone(r)
  <2>1. ~exists /\ ~exists' /\ disk' = disk /\ h = <<"find", "row">>
    BY <1>12 DEF FindsNone, h
  <2>2. Photos!ToRead(r)
    BY <1>3, <2>1 DEF Photos!ToRead, Photos!Reads
  <2>3. Photos!Names(r) = {}
    BY <2>1, <2>2, UrlsAre DEF Photos!Names, Photos!FilesOf, Photos!Row, Photos!Nothing
  <2>4. Photos!Uploaded(r) = {}
    BY <1>2, <1>3, <2>1 DEF Photos!OpOK, Photos!Uploaded
  <2>5. QED BY <1>7, <1>9, <2>1, <2>3, <2>4
<1>13. ASSUME Stores(r) PROVE FALSE
  <2>1. PICK s \in op[r].photos : h = Photos!Upload(s)
    BY <1>13 DEF Stores, h
  <2>2. Photos!Ahead(r) = {h} /\ Photos!Final(r) # h
    BY <1>4, <1>6, <2>1 DEF Photos!Upload, Photos!Final
  <2>3. op[r].does = "delete"
    BY <1>2, <2>2 DEF Photos!TodoOK
  <2>4. QED BY <1>2, <2>1, <2>3 DEF Photos!OpOK
<1>14. CASE Unlinks(r)
  <2>1. PICK s \in Photos!ToUnlink(r) :
          h = Photos!Unlink(s) /\ disk' = disk \ ({op[r].read[s]} \cap Photos!Files)
    BY <1>14 DEF Unlinks, h
  <2>2. Photos!Ahead(r) = {h} /\ Photos!Final(r) # h
    BY <1>4, <1>6, <2>1 DEF Photos!Unlink, Photos!Final
  <2>3. kind = "slider" /\ op[r].does = "delete" /\ ~exists /\ exists' = exists
    BY <1>2, <1>14, <2>2 DEF Photos!TodoOK, Unlinks
  <2>4. s = "front" /\ Photos!SlotsOf(kind) = {"front"}
    BY <1>10, <2>3 DEF Photos!SlotsOf
  <2>5. ~Photos!ToRead(r)
    BY <1>3, <2>1 DEF Photos!Unlink
  <2>6. Photos!Names(r) \subseteq {op[r].read["front"]} \cap Photos!Files
    BY <1>8, <2>4, <2>5 DEF Photos!Names, Photos!FilesOf
  <2>7. disk \subseteq {op[r].read["front"]} \cap Photos!Files
    BY <1>7, <1>10, <2>3, <2>6
  <2>8. QED BY <1>9, <2>1, <2>3, <2>4, <2>7
<1>15. CASE Writes(r)
  <2>1. /\ Photos!Ahead(r) = {Photos!Final(r)} /\ op[r].does \in {"create", "update", "upsert"}
        /\ exists' /\ url' = Photos!Written(r) /\ disk' = disk
    BY <1>15 DEF Writes
  <2>2. ~Photos!ToRead(r) /\ Photos!Final(r) \in Photos!Ahead(r)
    BY <2>1 DEF Photos!ToRead, Photos!Reads, Photos!Final
  <2>3. op[r].read = Photos!Row
    BY <2>2 DEF AtWork
  <2>4. /\ left = op[r].photos
        /\ Photos!Uploaded(r) = {<<r, s>> : s \in op[r].photos}
    <3>1. \A s : Photos!Unlink(s) # Photos!Final(r) /\ Photos!Upload(s) # Photos!Final(r)
      BY <2>1 DEF Photos!Unlink, Photos!Upload, Photos!Final
    <3>2. Photos!ToUnlink(r) = op[r].photos
      BY <2>1 DEF Photos!ToUnlink
    <3>3. QED BY <2>1, <3>1, <3>2 DEF Photos!Uploaded
  <2>5. op[r].photos \subseteq Photos!Slots
    BY <1>1, <1>2 DEF Photos!TypeOK, Photos!Operation, Photos!Running
  <2> DEFINE row == Photos!Row
  <2>6. disk = (Photos!FilesOf(row) \ {row[s] : s \in op[r].photos})
                 \cup {<<r, s>> : s \in op[r].photos}
    BY <1>7, <2>2, <2>3, <2>4 DEF Photos!Names, Photos!FilesOf
  <2>7. \A s \in Photos!Slots : url'[s] = IF s \in op[r].photos THEN <<r, s>> ELSE row[s]
    BY <1>7, <2>1 DEF Photos!Written, Photos!Row, Photos!Nothing
  <2>8. \A s, t \in Photos!Slots : row[s] \in Photos!Files /\ row[s] = row[t] => s = t
    BY <1>8, UrlsAre DEF Photos!Row, Photos!Nothing
  <2>9. Photos!Named' = {url'[s] : s \in Photos!Slots} \cap Photos!Files
    BY <2>1 DEF Photos!Named
  <2> HIDE DEF row
  <2>10. \A s \in op[r].photos : <<r, s>> \in Photos!Files
    BY <2>5, UrlsAre
  <2>11. disk \subseteq Photos!Named'
    BY <2>5, <2>6, <2>7, <2>9, <2>10 DEF Photos!FilesOf
  <2>12. Photos!Named' \subseteq disk
    <3> SUFFICES ASSUME NEW s \in Photos!Slots, url'[s] \in Photos!Files
                 PROVE  url'[s] \in disk
      BY <2>9
    <3>1. CASE s \in op[r].photos
      BY <2>6, <2>7, <3>1
    <3>2. CASE s \notin op[r].photos
      BY <2>5, <2>6, <2>7, <2>8, <3>2 DEF Photos!FilesOf
    <3>3. QED BY <3>1, <3>2
  <2>13. QED BY <2>1, <2>11, <2>12
<1>16. CASE Deletes(r)
  <2>1. h = Photos!Final(r) /\ op[r].does = "delete" /\ ~exists' /\ disk' = disk
    BY <1>16 DEF Deletes, h
  <2>2. Photos!Ahead(r) = {h} /\ h = <<"delete", "row">>
    BY <1>6, <2>1 DEF Photos!Final
  <2>3. ~Photos!ToRead(r) /\ left = Photos!SlotsOf(kind)
    BY <1>10, <2>1, <2>2 DEF Photos!ToRead, Photos!Reads, Photos!Unlink
  <2>4. Photos!Names(r) = op[r].removed
    <3>1. Photos!Names(r) = {op[r].read[s] : s \in Photos!Slots} \cap Photos!Files
      BY <2>3 DEF Photos!Names, Photos!FilesOf
    <3>2. Photos!SlotsOf(kind) \subseteq Photos!Slots
      BY DEF Photos!SlotsOf, Photos!Slots
    <3>3. QED BY <1>7, <1>8, <2>3, <3>1, <3>2
  <2>5. QED BY <1>7, <1>9, <1>10, <2>1, <2>4
<1>17. QED
  BY <1>1, <1>11, <1>12, <1>13, <1>14, <1>15, <1>16 DEF Effect, UnlinksNone, GivesUp

LEMMA StepKeepsCalm ==
  ASSUME Photos!Inductive, NEW r \in FileRequests, StepOf(r)
  PROVE  Photos!CalmOK'
<1>1. r \in Photos!Running /\ Moves(r) /\ Effect(r) /\ kind' = kind
  BY StepMoves, StepEffect DEF Moves
<1> SUFFICES ASSUME calm'
             PROVE  /\ \A p, q \in Photos!Running' : p = q
                    /\ \A q \in Photos!Running' : AtWork(q)'
                    /\ Photos!Running' = {} /\ kind' # "documento" => disk' = Photos!Named'
  BY DEF Photos!CalmOK, AtWork
<1>2. calm
  BY <1>1 DEF Effect, Finds, FindsNone, Stores, Unlinks, UnlinksNone, Writes, Deletes, GivesUp
<1>3. AtWork(r) /\ \A p, q \in Photos!Running : p = q
  BY <1>1, <1>2, CalmIs DEF Photos!Inductive
<1>4. \A q \in Photos!Running' : q = r
  BY <1>1, <1>3, RunningMoves
<1>5. ASSUME r \in Photos!Running' PROVE AtWork(r)'
  <2>1. state'[r] = "running"
    BY <1>5 DEF Photos!Running
  <2>2. QED BY <1>3, <2>1, WorkGoesOn
<1>6. ASSUME Photos!Running' = {}, kind # "documento" PROVE disk' = Photos!Named'
  <2>1. state'[r] # "running"
    BY <1>6 DEF Photos!Running
  <2>2. state'[r] # "failed"
    BY <1>1, <2>1
       DEF Effect, Finds, FindsNone, Stores, Unlinks, UnlinksNone, Writes, Deletes, GivesUp
  <2>3. state'[r] = "done"
    BY <1>1, <2>1, <2>2 DEF Moves
  <2>4. QED BY <1>3, <1>6, <2>3, WorkEndsClean
<1>7. QED BY <1>1, <1>4, <1>5, <1>6

-----------------------------------------------------------------------------
\* A request comes in: it has its plan before it, and has read and removed nothing.
Comes(r, does, photos, links) ==
  /\ state[r] = "new" /\ state'[r] = "running"
  /\ \A q \in FileRequests \ {r} :
       op'[q] = op[q] /\ state'[q] = state[q] /\ todo'[q] = todo[q]
  /\ op'[r].does = does /\ op'[r].photos = photos /\ op'[r].links = links
  /\ op'[r].read = Photos!Nothing /\ op'[r].removed = {}
  /\ PlanIsSound(kind, does, photos, todo'[r])
  /\ does \in Photos!Asks(kind) /\ Photos!Carries(kind, does, photos, links)
  /\ does = "create" => ~exists /\ \A q \in FileRequests : op[q].does # "create"
  /\ calm' = (calm /\ Photos!Running = {} /\ links = {})
  /\ kind' = kind /\ exists' = exists /\ url' = url /\ disk' = disk

LEMMA ReceiveComes ==
  ASSUME Photos!Inductive, NEW r \in FileRequests,
         NEW does \in {"create", "update", "delete", "upsert"},
         NEW photos \in SUBSET Photos!Slots, NEW links \in SUBSET Photos!Slots,
         Photos!Receive(r, does, photos, links)
  PROVE  /\ Comes(r, does, photos, links)
         /\ op' \in [FileRequests -> Photos!Operation]
         /\ todo' \in [FileRequests -> Seq(Photos!Awaits)]
         /\ state' \in [FileRequests -> {"new", "running", "done", "failed"}]
         /\ calm' \in BOOLEAN
<1> DEFINE o == [op[r] EXCEPT !.does = does, !.photos = photos, !.links = links]
           plan == Photos!Plan(kind, does, photos)
<1>1. /\ op \in [FileRequests -> Photos!Operation] /\ kind \in Photos!Kinds
      /\ todo \in [FileRequests -> Seq(Photos!Awaits)]
      /\ state \in [FileRequests -> {"new", "running", "done", "failed"}]
      /\ calm \in BOOLEAN
  BY DEF Photos!Inductive, Photos!TypeOK
<1>2. /\ state[r] = "new" /\ does \in Photos!Asks(kind)
      /\ Photos!Carries(kind, does, photos, links)
      /\ does = "create" => ~exists /\ \A q \in FileRequests : op[q].does # "create"
      /\ state' = [state EXCEPT ![r] = "running"]
      /\ todo' = [todo EXCEPT ![r] = plan]
      /\ calm' = (calm /\ Photos!Running = {} /\ links = {})
      /\ kind' = kind /\ exists' = exists /\ url' = url /\ disk' = disk
  BY DEF Photos!Receive
<1>3. op' = [op EXCEPT ![r] = o]
  BY DEF Photos!Receive
<1>4. op[r].read = Photos!Nothing /\ op[r].removed = {}
  BY <1>2 DEF Photos!Inductive
<1>5. PlanIsSound(kind, does, photos, plan)
  BY <1>1, <1>2, PlansAreSound
<1>6. plan \in Seq(Photos!Awaits)
  BY <1>5 DEF PlanIsSound
<1>7. /\ o \in Photos!Operation
      /\ o.does = does /\ o.photos = photos /\ o.links = links
      /\ o.read = op[r].read /\ o.removed = op[r].removed
  BY <1>1 DEF Photos!Operation
<1> HIDE DEF o, plan
<1>8. /\ op' \in [FileRequests -> Photos!Operation] /\ op'[r] = o
      /\ \A q \in FileRequests \ {r} : op'[q] = op[q]
  BY <1>1, <1>3, <1>7
<1>9. /\ todo' \in [FileRequests -> Seq(Photos!Awaits)] /\ todo'[r] = plan
      /\ \A q \in FileRequests \ {r} : todo'[q] = todo[q]
  BY <1>1, <1>2, <1>6
<1>10. /\ state' \in [FileRequests -> {"new", "running", "done", "failed"}]
       /\ state'[r] = "running"
       /\ \A q \in FileRequests \ {r} : state'[q] = state[q]
  BY <1>1, <1>2
<1>11. calm' \in BOOLEAN
  BY <1>2
<1>12. Comes(r, does, photos, links)
  BY <1>2, <1>4, <1>5, <1>7, <1>8, <1>9, <1>10 DEF Comes
<1>13. QED BY <1>8, <1>9, <1>10, <1>11, <1>12

\* What is before a request that has just come in.
LEMMA ComesInOrder ==
  ASSUME Photos!Inductive, NEW r \in FileRequests, NEW does, NEW photos, NEW links,
         Comes(r, does, photos, links), op' \in [FileRequests -> Photos!Operation]
  PROVE  /\ Photos!TodoOK(r)' /\ Photos!OpOK(r)' /\ Photos!UploadedIsThere(r)'
         /\ does \in {"update", "delete"} => <<"find", "row">> \in Photos!Ahead(r)'
         /\ does # "create" => Photos!ToRead(r)'
         /\ \A s \in photos : Photos!Upload(s) \in Photos!Ahead(r)'
<1> DEFINE t == todo'[r]
<1>1. PlanIsSound(kind, does, photos, t)
  BY DEF Comes
<1>2. /\ Photos!Ahead(r)' = Elements(t)
      /\ Photos!Final(r)' = <<does, "row">>
      /\ Photos!ToUnlink(r)' = Removes(kind, does, photos)
  BY DEF Photos!Ahead, Elements, Photos!Final, Photos!ToUnlink, Removes, Comes,
         Photos!SlotsOf
<1>3. does \in {"create", "update", "delete", "upsert"}
  BY DEF Comes, Photos!Inductive, Photos!TypeOK, Photos!Kinds, Photos!Asks
<1>4. Photos!ToRead(r)' <=> Elements(t) \cap Photos!Reads # {}
  BY <1>2 DEF Photos!ToRead
<1>5. /\ t \in Seq(Photos!Awaits)
      /\ <<does, "row">> \in Elements(t)
      /\ Elements(t) \subseteq Photos!Reads \cup {<<does, "row">>}
                                 \cup {Photos!Upload(s) : s \in photos}
                                 \cup {Photos!Unlink(s) : s \in Removes(kind, does, photos)}
      /\ \A s \in photos : Photos!Upload(s) \in Elements(t)
      /\ does = "create" => ~(Elements(t) \cap Photos!Reads # {})
      /\ does # "create" =>
           \A s \in Removes(kind, does, photos) : Photos!Unlink(s) \in Elements(t)
      /\ does \in {"update", "delete"} => <<"find", "row">> \in Elements(t)
      /\ does # "create" => Elements(t) \cap Photos!Reads # {}
  BY <1>1, <1>3 DEF PlanIsSound, Photos!Reads
<1>6. Photos!InTurn(r)'
  <2> SUFFICES ASSUME NEW i \in 1..Len(t), NEW j \in 1..Len(t), i < j
               PROVE  /\ t[i] # t[j] /\ t[j][1] # "find"
                      /\ t[j][1] = "look" => t[i][1] = "upload"
                      /\ t[i] = <<does, "row">> => kind = "slider" /\ does = "delete"
    BY DEF Photos!InTurn, Photos!Final, Comes
  <2>1. Before(t, t[i], t[j])
    BY DEF Before
  <2>2. QED BY <1>1, <2>1 DEF PlanIsSound
<1>7. t # <<>>
  <2>1. ASSUME t = <<>> PROVE FALSE
    <3>1. Elements(t) = {}
      BY <2>1 DEF Elements
    <3>2. QED BY <1>5, <3>1
  <2>2. QED BY <2>1
<1> HIDE DEF t
<1>8. /\ op'[r].does = does /\ op'[r].photos = photos /\ op'[r].links = links
      /\ op'[r].read = Photos!Nothing /\ op'[r].removed = {} /\ kind' = kind
      /\ does \in Photos!Asks(kind) /\ photos \cup links \subseteq Photos!SlotsOf(kind)
      /\ does = "delete" => photos = {}
  BY DEF Comes, Photos!Carries
<1>9. Photos!TodoOK(r)'
  BY <1>2, <1>4, <1>5, <1>6, <1>7, <1>8 DEF Photos!TodoOK, t
<1>10. Photos!OpOK(r)'
  <2>1. ASSUME Photos!ToRead(r)'
        PROVE  /\ Photos!Final(r)' \in Photos!Ahead(r)'
               /\ \A s \in Photos!ToUnlink(r)' : Photos!Unlink(s) \in Photos!Ahead(r)'
    BY <2>1, <1>2, <1>4, <1>5
  <2>2. \A s \in op'[r].photos : Photos!Upload(s) \in Photos!Ahead(r)'
    BY <1>2, <1>5, <1>8
  <2>3. Photos!Asks(kind)' = Photos!Asks(kind) /\ Photos!SlotsOf(kind)' = Photos!SlotsOf(kind)
    BY <1>8
  <2>4. QED BY <1>8, <2>1, <2>2, <2>3 DEF Photos!OpOK
<1>11. Photos!UploadedIsThere(r)'
  BY <1>2, <1>5, <1>8 DEF Photos!UploadedIsThere
<1>12. QED BY <1>2, <1>4, <1>5, <1>9, <1>10, <1>11

LEMMA ReceiveKeeps ==
  ASSUME Photos!Inductive, NEW r \in FileRequests,
         NEW does \in {"create", "update", "delete", "upsert"},
         NEW photos \in SUBSET Photos!Slots, NEW links \in SUBSET Photos!Slots,
         Photos!Receive(r, does, photos, links)
  PROVE  Photos!Inductive'
<1>1. /\ Comes(r, does, photos, links)
      /\ op' \in [FileRequests -> Photos!Operation]
      /\ todo' \in [FileRequests -> Seq(Photos!Awaits)]
      /\ state' \in [FileRequests -> {"new", "running", "done", "failed"}]
      /\ calm' \in BOOLEAN
  BY ReceiveComes
<1>2. /\ Photos!TodoOK(r)' /\ Photos!OpOK(r)' /\ Photos!UploadedIsThere(r)'
      /\ does \in {"update", "delete"} => <<"find", "row">> \in Photos!Ahead(r)'
      /\ does # "create" => Photos!ToRead(r)'
      /\ \A s \in photos : Photos!Upload(s) \in Photos!Ahead(r)'
  BY <1>1, ComesInOrder
<1>3. /\ kind' = kind /\ exists' = exists /\ url' = url /\ disk' = disk
      /\ state[r] = "new" /\ state'[r] = "running"
      /\ \A q \in FileRequests \ {r} :
           op'[q] = op[q] /\ state'[q] = state[q] /\ todo'[q] = todo[q]
      /\ op'[r].does = does /\ op'[r].photos = photos /\ op'[r].links = links
      /\ op'[r].read = Photos!Nothing /\ op'[r].removed = {}
      /\ does \in Photos!Asks(kind)
      /\ does = "create" => ~exists /\ \A q \in FileRequests : op[q].does # "create"
      /\ calm' = (calm /\ Photos!Running = {} /\ links = {})
  BY <1>1 DEF Comes
<1>4. Photos!TypeOK'
  BY <1>1, <1>3 DEF Photos!Inductive, Photos!TypeOK
<1>5. /\ r \notin Photos!Running /\ r \in Photos!Running'
      /\ \A q \in FileRequests \ {r} : q \in Photos!Running' <=> q \in Photos!Running
      /\ \A q \in FileRequests : state'[q] = "done" <=> state[q] = "done"
  BY <1>3 DEF Photos!Running
<1>6. /\ Photos!NamesOK(url)'
      /\ \A q \in FileRequests : Photos!NamesOK(op[q].read)'
  <2>1. \A q \in FileRequests : op'[q].read = op[q].read \/ op'[q].read = Photos!Nothing
    BY <1>3
  <2>2. \A s \in Photos!Slots : Photos!Nothing[s] \notin Photos!Files
    BY UrlsAre DEF Photos!Nothing
  <2>3. /\ Photos!NamesOK(url) /\ \A q \in FileRequests : Photos!NamesOK(op[q].read)
    BY DEF Photos!Inductive
  <2>4. QED
    BY <1>3, <1>5, <2>1, <2>2, <2>3 DEF Photos!NamesOK, Photos!Files, Photos!SlotsOf
<1>7. ASSUME NEW q \in FileRequests \ {r}
      PROVE  /\ Photos!Ahead(q)' = Photos!Ahead(q) /\ Photos!Final(q)' = Photos!Final(q)
             /\ Photos!ToUnlink(q)' = Photos!ToUnlink(q)
             /\ Photos!ToRead(q)' = Photos!ToRead(q)
  BY <1>3 DEF Photos!Ahead, Photos!Final, Photos!ToUnlink, Photos!ToRead, Photos!SlotsOf
<1>8. ASSUME NEW q \in Photos!Running'
      PROVE  Photos!TodoOK(q)' /\ Photos!OpOK(q)' /\ Photos!UploadedIsThere(q)'
  <2>1. CASE q = r
    BY <1>2, <2>1
  <2>2. CASE q # r
    <3>1. /\ q \in FileRequests \ {r} /\ q \in Photos!Running
          /\ op'[q] = op[q] /\ todo'[q] = todo[q]
      BY <1>3, <1>5, <2>2 DEF Photos!Running
    <3>2. Photos!TodoOK(q) /\ Photos!OpOK(q) /\ Photos!UploadedIsThere(q)
      BY <3>1 DEF Photos!Inductive
    <3>3. Photos!TodoOK(q)'
      BY <1>3, <1>7, <3>1, <3>2 DEF Photos!TodoOK, Photos!InTurn
    <3>4. Photos!OpOK(q)'
      BY <1>3, <1>7, <3>1, <3>2 DEF Photos!OpOK, Photos!SlotsOf, Photos!Asks
    <3>5. Photos!UploadedIsThere(q)'
      BY <1>3, <1>7, <3>1, <3>2 DEF Photos!UploadedIsThere
    <3>6. QED BY <3>3, <3>4, <3>5
  <2>3. QED BY <2>1, <2>2
<1>9. Photos!Founded /\ \A q \in FileRequests : Photos!CreatorOK(q)
  BY DEF Photos!Inductive
<1>10. ASSUME NEW q \in FileRequests PROVE Photos!CreatorOK(q)'
  <2> SUFFICES ASSUME op'[q].does = "create"
               PROVE  /\ \A p \in FileRequests : op'[p].does = "create" => p = q
                      /\ state'[q] = "running" =>
                           /\ ~exists'
                           /\ \A p \in Photos!Running' \ {q} :
                                <<"find", "row">> \in Photos!Ahead(p)'
    BY DEF Photos!CreatorOK
  <2>1. CASE q = r
    <3>1. does = "create" /\ ~exists /\ "create" \in Photos!Asks(kind)
          /\ \A p \in FileRequests : op[p].does # "create"
      BY <1>3, <2>1
    <3>2. \A p \in Photos!Running : <<"find", "row">> \in Photos!Ahead(p)
      BY <1>9, <3>1 DEF Photos!Founded
    <3>3. ASSUME NEW p \in Photos!Running' \ {q} PROVE <<"find", "row">> \in Photos!Ahead(p)'
      <4>1. p \in FileRequests \ {r} /\ p \in Photos!Running
        BY <1>5, <2>1 DEF Photos!Running
      <4>2. QED BY <1>7, <3>2, <4>1
    <3>4. QED BY <1>3, <2>1, <3>1, <3>3
  <2>2. CASE q # r
    <3>1. /\ op[q].does = "create" /\ \A p \in FileRequests : op[p].does = "create" => p = q
          /\ state[q] = "running" =>
               /\ ~exists
               /\ \A p \in Photos!Running \ {q} : <<"find", "row">> \in Photos!Ahead(p)
      BY <1>3, <1>9, <2>2 DEF Photos!CreatorOK
    <3>2. does # "create"
      BY <1>3, <3>1
    <3>3. ASSUME state'[q] = "running", NEW p \in Photos!Running' \ {q}
          PROVE  <<"find", "row">> \in Photos!Ahead(p)'
      <4>1. CASE p = r
        <5>1. state[q] = "running"
          BY <1>3, <2>2, <3>3
        <5>2. "create" \in Photos!Asks(kind)
          BY <3>1, <5>1 DEF Photos!Inductive, Photos!OpOK, Photos!Running
        <5>3. does \in {"update", "delete"}
          BY <1>3, <3>2, <5>2 DEF Photos!Asks
        <5>4. QED BY <1>2, <4>1, <5>3
      <4>2. CASE p # r
        <5>1. p \in FileRequests \ {r} /\ p \in Photos!Running \ {q} /\ state[q] = "running"
          BY <1>3, <1>5, <2>2, <3>3, <4>2 DEF Photos!Running
        <5>2. QED BY <1>7, <3>1, <5>1
      <4>3. QED BY <4>1, <4>2
    <3>4. QED BY <1>3, <2>2, <3>1, <3>2, <3>3
  <2>3. QED BY <2>1, <2>2
<1>11. Photos!Founded'
  <2> SUFFICES ASSUME "create" \in Photos!Asks(kind),
                      \/ exists
                      \/ \E q \in Photos!Running' : <<"find", "row">> \notin Photos!Ahead(q)'
               PROVE  \E q \in FileRequests : op'[q].does = "create"
    BY <1>3 DEF Photos!Founded
  <2>1. CASE does = "create"
    BY <1>3, <2>1
  <2>2. CASE does # "create"
    <3>1. does \in {"update", "delete"}
      BY <1>3, <2>2 DEF Photos!Asks
    <3>2. exists \/ \E q \in Photos!Running : <<"find", "row">> \notin Photos!Ahead(q)
      <4>1. ASSUME NEW q \in Photos!Running', <<"find", "row">> \notin Photos!Ahead(q)'
            PROVE  q \in Photos!Running /\ <<"find", "row">> \notin Photos!Ahead(q)
        <5>1. q # r
          BY <1>2, <3>1, <4>1
        <5>2. q \in FileRequests \ {r} /\ q \in Photos!Running
          BY <1>5, <5>1 DEF Photos!Running
        <5>3. QED BY <1>7, <4>1, <5>2
      <4>2. QED BY <4>1
    <3>3. PICK q \in FileRequests : op[q].does = "create"
      BY <1>9, <3>2 DEF Photos!Founded
    <3>4. op[r].does = "none"
      BY <1>3 DEF Photos!Inductive
    <3>5. q # r
      BY <3>3, <3>4
    <3>6. QED BY <1>3, <3>3, <3>5
  <2>3. QED BY <2>1, <2>2
<1>12. ASSUME NEW q \in FileRequests, state'[q] = "new"
       PROVE  op'[q].does = "none" /\ op'[q].read = Photos!Nothing /\ op'[q].removed = {}
  BY <1>3, <1>12 DEF Photos!Inductive
<1>13. Photos!MissingHasCulprit'
  <2>1. Photos!MissingHasCulprit /\ Photos!Named' = Photos!Named
    BY <1>3 DEF Photos!Inductive, Photos!Named
  <2>2. ASSUME NEW f \in Photos!Named \ disk
        PROVE  \E q \in FileRequests :
                 f \in op'[q].removed /\ state'[q] \in {"running", "failed"}
    <3>1. PICK q \in FileRequests : f \in op[q].removed /\ state[q] \in {"running", "failed"}
      BY <2>1 DEF Photos!MissingHasCulprit
    <3>2. q # r
      BY <1>3, <3>1
    <3>3. QED BY <1>3, <3>1, <3>2
  <2>3. QED BY <1>3, <2>1, <2>2 DEF Photos!MissingHasCulprit
<1>14. Photos!CalmOK'
  <2> SUFFICES ASSUME calm'
               PROVE  /\ \A p, q \in Photos!Running' : p = q
                      /\ AtWork(r)' /\ Photos!Running' # {}
    BY <1>5 DEF Photos!CalmOK, AtWork
  <2>1. calm /\ Photos!Running = {} /\ links = {}
    BY <1>3
  <2>2. \A q \in Photos!Running' : q = r
    BY <1>5, <2>1 DEF Photos!Running
  <2>3. op[r].removed = {} /\ op'[r].removed = {} /\ op'[r].read = Photos!Nothing
    BY <1>3 DEF Photos!Inductive
  <2>4. ~Photos!ToRead(r)' => op'[r].read = Photos!Row'
    BY <1>2, <1>3 DEF Photos!Row
  <2>5. /\ {op'[r].read[s] : s \in {t \in Photos!ToUnlink(r)' :
                                     Photos!Unlink(t) \notin Photos!Ahead(r)'}}
           \cap Photos!Files = {}
    <3>1. Photos!ToUnlink(r)' \subseteq Photos!Slots
      BY <1>3, <1>4 DEF Photos!ToUnlink, Photos!TypeOK, Photos!Operation, Photos!SlotsOf,
                        Photos!Slots
    <3>2. \A s \in Photos!Slots : Photos!Nothing[s] \notin Photos!Files
      BY UrlsAre DEF Photos!Nothing
    <3>3. QED BY <2>3, <3>1, <3>2
  <2>6. Photos!Uploaded(r)' = {}
    BY <1>2, <1>3 DEF Photos!Uploaded
  <2>7. Photos!Row' = Photos!Row
    BY <1>3 DEF Photos!Row
  <2>8. Photos!Names(r)' = Photos!FilesOf(Photos!Row)
    BY <2>4, <2>7 DEF Photos!Names, Photos!FilesOf
  <2>9. kind # "documento" => disk = Photos!FilesOf(Photos!Row)
    BY <2>1, CalmIs DEF Photos!Inductive
  <2>10. AtWork(r)'
    BY <1>3, <2>1, <2>3, <2>4, <2>5, <2>6, <2>8, <2>9 DEF AtWork
  <2>11. QED BY <1>5, <2>2, <2>10
<1>15. kind' = "perfil" => exists'
  BY <1>3 DEF Photos!Inductive
<1>16. QED
  BY <1>4, <1>6, <1>8, <1>10, <1>11, <1>12, <1>13, <1>14, <1>15 DEF Photos!Inductive

-----------------------------------------------------------------------------
LEMMA PhotosInit == Photos!Init => Photos!Inductive
<1> SUFFICES ASSUME Photos!Init PROVE Photos!Inductive
  OBVIOUS
<1>1. /\ kind \in Photos!Kinds /\ exists = (kind = "perfil") /\ url = Photos!Nothing
      /\ disk = {} /\ calm = TRUE
      /\ \A r \in FileRequests : state[r] = "new"
      /\ \A r \in FileRequests : op[r].does = "none" /\ op[r].read = Photos!Nothing
                                 /\ op[r].removed = {}
  BY DEF Photos!Init
<1>2. Photos!TypeOK
  <2>1. op \in [FileRequests -> Photos!Operation]
    BY UrlsAre DEF Photos!Init, Photos!Operation
  <2>2. todo \in [FileRequests -> Seq(Photos!Awaits)]
    BY DEF Photos!Init
  <2>3. state \in [FileRequests -> {"new", "running", "done", "failed"}]
    BY DEF Photos!Init
  <2>4. QED BY <1>1, <2>1, <2>2, <2>3, UrlsAre DEF Photos!TypeOK
<1>3. Photos!Running = {}
  BY <1>1 DEF Photos!Running
<1>4. Photos!NamesOK(Photos!Nothing) /\ Photos!Named = {}
  BY <1>1, UrlsAre DEF Photos!NamesOK, Photos!Nothing, Photos!Named
<1>5. Photos!Founded
  BY <1>1, <1>3 DEF Photos!Founded, Photos!Asks
<1>6. \A r \in FileRequests : Photos!CreatorOK(r)
  BY <1>1 DEF Photos!CreatorOK
<1>7. Photos!CalmOK /\ Photos!MissingHasCulprit
  BY <1>1, <1>3, <1>4 DEF Photos!CalmOK, Photos!MissingHasCulprit
<1>8. QED
  BY <1>1, <1>2, <1>3, <1>4, <1>5, <1>6, <1>7 DEF Photos!Inductive

LEMMA StepKeeps ==
  ASSUME Photos!Inductive, NEW r \in FileRequests, StepOf(r)
  PROVE  Photos!Inductive'
<1>1. r \in Photos!Running /\ Moves(r)
  BY StepMoves
<1>2. Photos!TypeOK'
  BY StepMoves DEF Photos!TypeOK
<1>3. ASSUME NEW q \in FileRequests, state'[q] = "new"
      PROVE  op'[q].does = "none" /\ op'[q].read = Photos!Nothing /\ op'[q].removed = {}
  BY <1>1, <1>3 DEF Moves, Photos!Inductive
<1>4. Photos!NamesOK(url)' /\ \A q \in FileRequests : Photos!NamesOK(op[q].read)'
  BY StepKeepsNames
<1>5. /\ \A q \in FileRequests : Photos!CreatorOK(q)'
      /\ Photos!Founded' /\ (kind' = "perfil" => exists')
  BY StepKeepsCreators
<1>6. \A q \in Photos!Running' :
        Photos!TodoOK(q)' /\ Photos!OpOK(q)' /\ Photos!UploadedIsThere(q)'
  BY StepKeepsTodo, StepKeepsOps
<1>7. Photos!CalmOK' /\ Photos!MissingHasCulprit'
  BY StepKeepsCalm, StepKeepsCulprits
<1>8. QED BY <1>2, <1>3, <1>4, <1>5, <1>6, <1>7 DEF Photos!Inductive

LEMMA PhotosNext == Photos!Inductive /\ [Photos!Next]_Photos!vars => Photos!Inductive'
<1> SUFFICES ASSUME Photos!Inductive, [Photos!Next]_Photos!vars PROVE Photos!Inductive'
  OBVIOUS
<1>1. ASSUME NEW r \in FileRequests, NEW does \in {"create", "update", "delete", "upsert"},
             NEW photos \in SUBSET Photos!Slots, NEW links \in SUBSET Photos!Slots,
             Photos!Receive(r, does, photos, links)
      PROVE  Photos!Inductive'
  BY <1>1, ReceiveKeeps
<1>2. ASSUME NEW r \in FileRequests, StepOf(r) PROVE Photos!Inductive'
  BY <1>2, StepKeeps
<1>3. CASE UNCHANGED Photos!vars
  <2>1. /\ kind' = kind /\ exists' = exists /\ url' = url /\ disk' = disk /\ op' = op
        /\ todo' = todo /\ state' = state /\ calm' = calm
    BY <1>3 DEF Photos!vars
  <2>2. Photos!TypeOK' /\ Photos!Running' = Photos!Running
    BY <2>1 DEF Photos!Inductive, Photos!TypeOK, Photos!Running
  <2>3. ASSUME NEW r \in FileRequests
        PROVE  /\ Photos!Ahead(r)' = Photos!Ahead(r) /\ Photos!Final(r)' = Photos!Final(r)
               /\ Photos!ToUnlink(r)' = Photos!ToUnlink(r)
               /\ Photos!ToRead(r)' = Photos!ToRead(r) /\ Photos!Row' = Photos!Row
    BY <2>1 DEF Photos!Ahead, Photos!ToRead, Photos!Final, Photos!ToUnlink, Photos!Row
  <2>4. ASSUME NEW r \in Photos!Running
        PROVE  Photos!TodoOK(r)' /\ Photos!OpOK(r)' /\ Photos!UploadedIsThere(r)'
    <3>1. r \in FileRequests /\ Photos!TodoOK(r) /\ Photos!OpOK(r) /\ Photos!UploadedIsThere(r)
      BY DEF Photos!Inductive, Photos!Running
    <3>2. Photos!TodoOK(r)'
      BY <2>1, <2>3, <3>1 DEF Photos!TodoOK, Photos!InTurn
    <3>3. Photos!OpOK(r)'
      BY <2>1, <2>3, <3>1 DEF Photos!OpOK
    <3>4. Photos!UploadedIsThere(r)'
      BY <2>1, <2>3, <3>1 DEF Photos!UploadedIsThere
    <3>5. QED BY <3>2, <3>3, <3>4
  <2>5. ASSUME NEW r \in FileRequests
        PROVE  /\ Photos!NamesOK(op[r].read)' /\ Photos!CreatorOK(r)'
               /\ state'[r] = "new" =>
                    op'[r].does = "none" /\ op'[r].read = Photos!Nothing /\ op'[r].removed = {}
    <3>1. /\ Photos!NamesOK(op[r].read) /\ Photos!CreatorOK(r)
          /\ state[r] = "new" =>
               op[r].does = "none" /\ op[r].read = Photos!Nothing /\ op[r].removed = {}
      BY DEF Photos!Inductive
    <3>2. Photos!NamesOK(op[r].read)'
      BY <2>1, <3>1 DEF Photos!NamesOK
    <3>3. Photos!CreatorOK(r)'
      BY <2>1, <2>2, <2>3, <3>1 DEF Photos!CreatorOK, Photos!Running
    <3>4. QED BY <2>1, <3>1, <3>2, <3>3
  <2>6. Photos!NamesOK(url)' /\ Photos!Founded' /\ (kind' = "perfil" => exists')
    <3>1. Photos!NamesOK(url) /\ Photos!Founded /\ (kind = "perfil" => exists)
      BY DEF Photos!Inductive
    <3>2. Photos!NamesOK(url)'
      BY <2>1, <3>1 DEF Photos!NamesOK
    <3>3. Photos!Founded'
      BY <2>1, <2>2, <2>3, <3>1 DEF Photos!Founded, Photos!Running
    <3>4. QED BY <2>1, <3>1, <3>2, <3>3
  <2>7. Photos!CalmOK'
    <3>1. ASSUME NEW r \in Photos!Running, AtWork(r) PROVE AtWork(r)'
      <4>1. r \in FileRequests
        BY DEF Photos!Running
      <4>2. Photos!Names(r)' = Photos!Names(r) /\ Photos!Uploaded(r)' = Photos!Uploaded(r)
        BY <2>1, <2>3, <4>1 DEF Photos!Names, Photos!Uploaded
      <4>3. QED BY <2>1, <2>3, <3>1, <4>1, <4>2 DEF AtWork
    <3>2. Photos!Named' = Photos!Named
      BY <2>1 DEF Photos!Named
    <3>3. calm =>
            /\ \A r, q \in Photos!Running : r = q
            /\ \A r \in Photos!Running : AtWork(r)
            /\ Photos!Running = {} /\ kind # "documento" => disk = Photos!Named
      BY CalmIs DEF Photos!Inductive
    <3>4. calm' =>
            /\ \A r, q \in Photos!Running' : r = q
            /\ \A r \in Photos!Running' : AtWork(r)'
            /\ Photos!Running' = {} /\ kind' # "documento" => disk' = Photos!Named'
      BY <2>1, <2>2, <3>1, <3>2, <3>3
    <3>5. QED BY <3>4 DEF Photos!CalmOK, AtWork
  <2>8. Photos!MissingHasCulprit'
    BY <2>1 DEF Photos!Inductive, Photos!MissingHasCulprit, Photos!Named
  <2>9. QED BY <2>2, <2>4, <2>5, <2>6, <2>7, <2>8 DEF Photos!Inductive
<1>4. QED BY <1>1, <1>2, <1>3 DEF Photos!Next, StepOf

LEMMA PhotosPromise == Photos!Inductive => Photos!TypeOK /\ Photos!FilesMatchRows
BY DEF Photos!Inductive, Photos!FilesMatchRows, Photos!CalmOK, Photos!NothingIsLeftOver

\* A file that a row names is missing only by a request still on its way, or failed; and
\* requests one after another leave no file that the row does not name
\* (FileUploadService and the services around it), for any number of requests.
THEOREM PhotosAreSafe == Photos!Spec => [](Photos!TypeOK /\ Photos!FilesMatchRows)
<1>1. QED BY PhotosInit, PhotosNext, PhotosPromise, PTL DEF Photos!Spec

-----------------------------------------------------------------------------
(* The composition *)

\* A step of the composition is one of each component, or leaves it alone.
LEMMA StepsOfComponents ==
  ASSUME [MCNext]_MCvars
  PROVE  /\ [Provider!Next]_Provider!vars
         /\ [Access!Next]_Access!vars
         /\ [Photos!Next]_Photos!vars
         /\ [Next]_vars
         /\ [SyncNext]_syncVars
<1> USE DEF MCNext, MCvars, OfCommands, OfSync, OfProvider, OfPosition, OfPhotos, OfAccess
<1>1. [Provider!Next]_Provider!vars
  BY DEF providerVars, Provider!vars, Provider!memory, Provider!Next
<1>2. [Access!Next]_Access!vars
  BY DEF accessVars, Access!vars, Access!Next
<1>3. [Photos!Next]_Photos!vars
  BY DEF photosVars, Photos!vars, Photos!Next
<1>4. [Next]_vars
  BY DEF vars, Next, Request
<1>5. [SyncNext]_syncVars
  BY DEF syncVars, rows, ghosts, SyncNext
<1>6. QED BY <1>1, <1>2, <1>3, <1>4, <1>5

\* The composition hides nothing: its behaviours are behaviours of each component, and
\* what is proved of a component alone, as of the commands and the list of the vehicles
\* in Vehicles_proofs, holds of it.
THEOREM CompositionIsFaithful ==
  MCSpec => Spec /\ SyncSpec /\ Provider!Spec /\ Photos!Spec /\ Access!Spec
<1>1. MCInit => Init /\ SyncInit /\ Provider!Init /\ Photos!Init /\ Access!Init
  BY DEF MCInit
<1>2. QED
  BY <1>1, StepsOfComponents, PTL
  DEF MCSpec, Spec, SyncSpec, Provider!Spec, Photos!Spec, Access!Spec

\* The files of a row, among all that an associado keeps and asks for
\* (FileUploadService and the services around it).
THEOREM FilesMatchRowsHolds == MCSpec => []FilesMatchRows
<1>1. MCInit => Photos!Inductive
  BY PhotosInit DEF MCInit
<1>2. Photos!Inductive /\ [MCNext]_MCvars => Photos!Inductive'
  BY StepsOfComponents, PhotosNext
<1>3. Photos!Inductive => FilesMatchRows
  BY PhotosPromise DEF FilesMatchRows
<1>4. QED BY <1>1, <1>2, <1>3, PTL DEF MCSpec

\* The position shown and the provider of the history, among all that an associado
\* keeps and asks for (rastreamento, HistoricoProviderResolver).
THEOREM RightProviderHolds == MCSpec => []RightProvider
<1>1. MCInit => Provider!Inductive
  BY ProviderInit DEF MCInit
<1>2. Provider!Inductive /\ [MCNext]_MCvars => Provider!Inductive'
  BY StepsOfComponents, ProviderNext
<1>3. Provider!Inductive => RightProvider
  BY ProviderPromises DEF RightProvider
<1>4. QED BY <1>1, <1>2, <1>3, PTL DEF MCSpec

\* The account of a CPF, among all that an associado keeps and asks for
\* (AssociadoService.primeiroAcesso, AuthService).
THEOREM AccountServesItsOwnerHolds == MCSpec => []AccountServesItsOwner
<1>1. MCInit => Access!Inductive
  BY AccessInit DEF MCInit
<1>2. Access!Inductive /\ [MCNext]_MCvars => Access!Inductive'
  BY StepsOfComponents, AccessNext
<1>3. Access!Inductive => AccountServesItsOwner
  BY DEF Access!Inductive, AccountServesItsOwner
<1>4. QED BY <1>1, <1>2, <1>3, PTL DEF MCSpec
=============================================================================
