--------------------------- MODULE ProviderSelection ---------------------------
(***************************************************************************)
(* Which provider serves a chassi.  For the position of now, rastreamento  *)
(* asks Logica, M7 and Softruck together and shows one of the positions    *)
(* that come back dated.  For the history, HistoricoProviderResolver asks  *)
(* Softruck first and Logica only when Softruck does not know the chassi,  *)
(* and remembers for ten minutes which of them it was.  Softruck's service *)
(* remembers, as long, the vehicle of a chassi and the device of a         *)
(* vehicle, for whoever asks: the resolver, the report of the history and  *)
(* the position of now.                                                    *)
(*                                                                         *)
(* One chassi, which keeps its id at Softruck.  Instants of positions are  *)
(* counted in half hours, the age of what is remembered in ticks.          *)
(***************************************************************************)
EXTENDS Integers

CONSTANTS
  Callers,     \* requests in flight together
  Devices,     \* trackers that Softruck may associate with the vehicle
  CacheTtl,    \* CACHE_TTL, ten minutes, in ticks
  MaxInstant,  \* bound: latest instant of a position
  MaxMoves     \* bound: times the tracker of the vehicle is exchanged

Elsewhere == {"logica", "none"}
Places    == Devices \cup Elsewhere

ProviderAssumption ==
  MaxInstant \in Nat /\ CacheTtl \in Nat /\ Devices \cap Elsewhere = {}

Origens   == {"logica", "m7", "softruck"}
Instants  == 0..MaxInstant
Nothing   == MaxInstant + 1   \* the provider failed, or its date cannot be parsed
Tolerance == 2                \* TOLERANCIA_PRIORIDADE_M7_MS, one hour

VARIABLES
  holder,        \* who lists the chassi: Softruck with this device, Logica or none
  moves,         \* times the tracker was exchanged so far
  since,          \* ticks since each device was the vehicle's, if not too many
  cache,         \* providerCache of the chassi
  vehicleCache,  \* whether vehicleCache has the chassi
  deviceCache,   \* deviceCache of the vehicle, and the age of the entry
  caller         \* where each request stands

memory == <<cache, vehicleCache, deviceCache>>
vars   == <<holder, moves, since, memory, caller>>

Idle    == [phase |-> "idle"]
NoEntry == [device |-> "none", age |-> 0]

Set(c, r) == caller' = [caller EXCEPT ![c] = r]

Init ==
  /\ holder \in Places
  /\ moves = 0
  /\ since = [d \in Devices |-> IF d = holder THEN 0 ELSE CacheTtl + 1]
  /\ cache = "none" /\ vehicleCache = FALSE /\ deviceCache = NoEntry
  /\ caller = [c \in Callers |-> Idle]

-----------------------------------------------------------------------------
(* The position of now *)

\* rastreamento asks the three at once, of a chassi that is not cut.
Ask(c) ==
  /\ caller[c] = Idle
  /\ Set(c, [phase |-> "asked"])
  /\ UNCHANGED <<holder, moves, since, memory>>

\* adicionarCandidatoSeValido, over the settled answers.
Candidatos(answers) == {o \in Origens : answers[o] # Nothing}

\* The latest wins, an earlier entry of logica, m7, softruck among equals; Softruck
\* gives way to an M7 position that is at most an hour older.
Selecionado(answers) ==
  LET cs     == Candidatos(answers)
      latest == {o \in cs : \A p \in cs : answers[p] <= answers[o]}
      first  == IF "logica" \in latest THEN "logica"
                ELSE IF "m7" \in latest THEN "m7" ELSE "softruck"
  IN  IF first = "softruck" /\ "m7" \in cs /\ answers["softruck"] - answers["m7"] <= Tolerance
      THEN "m7" ELSE first

\* The three requests are settled; lags is how much later any candidate is than the
\* one shown, kept for the property.
Show(c, answers) ==
  LET cs == Candidatos(answers)
      o  == Selecionado(answers)
  IN
  /\ caller[c].phase = "asked"
  /\ IF cs = {}
     THEN Set(c, Idle)
     ELSE Set(c, [phase |-> "shown", origem |-> o,
                  lags |-> {answers[p] - answers[o] : p \in {q \in cs : answers[q] > answers[o]}}])
  /\ UNCHANGED <<holder, moves, since, memory>>

-----------------------------------------------------------------------------
(* The provider of the history: resolve *)

\* For the property, a request keeps what it may truly be told: where the chassi was
\* at a moment of the request, and the devices it had less than CACHE_TTL before.
Recent == {d \in Devices : since[d] <= CacheTtl}

Begin(c, phase, direct) ==
  /\ caller[c] = Idle
  /\ Set(c, [phase |-> phase, direct |-> direct, seen |-> {holder} \cup Recent,
             answer |-> "none"])
  /\ UNCHANGED <<holder, moves, since, memory>>

\* resolve looks a chassi that is remembered as Logica's up there.
Resolve(c) == Begin(c, IF cache = "logica" THEN "cached" ELSE "vehicle", FALSE)

\* gerarRelatorioPdf and ultimaPosicaoSoftruck ask Softruck alone.
ResolveSoftruck(c) == Begin(c, "vehicle", TRUE)

Goes(c, phase)      == Set(c, [caller[c] EXCEPT !.phase = phase])
Answered(c, answer) == Set(c, [caller[c] EXCEPT !.phase = "resolved", !.answer = answer])

Remember(c, provider) == cache' = IF caller[c].direct THEN cache ELSE provider

\* When Logica's list has the chassi no more, the entry is deleted and Softruck is
\* asked.  A second refusal of the session reads as a list without it.
LookUpCached(c) ==
  /\ caller[c].phase = "cached"
  /\ \/ holder = "logica" /\ Answered(c, "logica") /\ UNCHANGED cache
     \/ Goes(c, "vehicle") /\ cache' = "none"
  /\ UNCHANGED <<holder, moves, since, vehicleCache, deviceCache>>

\* The first look at Logica is not guarded: its failure is the caller's.  So is
\* any failure of Softruck but SoftruckVehicleNotFoundException: a vehicle with no
\* main device, for one.
Fail(c) ==
  /\ caller[c].phase \in {"cached", "vehicle", "device", "arriving"}
  /\ Set(c, Idle)
  /\ UNCHANGED <<holder, moves, since, memory>>

\* obterVehicleId: only a list without the chassi, not one that is remembered, leads
\* to the probe.
FindVehicle(c) ==
  /\ caller[c].phase = "vehicle"
  /\ IF vehicleCache \/ holder \in Devices
     THEN Goes(c, "device") /\ vehicleCache' = TRUE
     ELSE /\ IF caller[c].direct THEN Answered(c, "none") ELSE Goes(c, "probe")
          /\ UNCHANGED vehicleCache
  /\ UNCHANGED <<holder, moves, since, cache, deviceCache>>

\* obterDeviceId: the device that is remembered, or the one that Softruck answers.
FindDevice(c) ==
  /\ caller[c].phase = "device"
  /\ \/ /\ deviceCache # NoEntry
        /\ Answered(c, deviceCache.device)
        /\ Remember(c, "softruck")
     \/ /\ deviceCache = NoEntry /\ holder \in Devices
        /\ Set(c, [caller[c] EXCEPT !.phase = "arriving", !.answer = holder])
        /\ UNCHANGED cache
  /\ UNCHANGED <<holder, moves, since, vehicleCache, deviceCache>>

\* The answer is in: it is remembered from now on, whatever was meanwhile.
DeviceArrives(c) ==
  /\ caller[c].phase = "arriving"
  /\ Goes(c, "resolved")
  /\ deviceCache' = [device |-> caller[c].answer, age |-> 0]
  /\ Remember(c, "softruck")
  /\ UNCHANGED <<holder, moves, since, vehicleCache>>

\* The probe: what goes wrong with it is told as "not found in Softruck".
Probe(c) ==
  /\ caller[c].phase = "probe"
  /\ \/ holder = "logica" /\ Answered(c, "logica") /\ cache' = "logica"
     \/ Answered(c, "none") /\ UNCHANGED cache
  /\ UNCHANGED <<holder, moves, since, vehicleCache, deviceCache>>

Return(c) ==
  /\ caller[c].phase \in {"shown", "resolved"}
  /\ Set(c, Idle)
  /\ UNCHANGED <<holder, moves, since, memory>>

-----------------------------------------------------------------------------
(* The environment *)

History == {"cached", "vehicle", "device", "arriving", "probe", "resolved"}

\* The tracker is exchanged; the requests that run live through it.
Move(p) ==
  /\ moves < MaxMoves
  /\ p # holder
  /\ holder' = p
  /\ moves' = moves + 1
  /\ since' = [d \in Devices |-> IF d = p THEN 0 ELSE since[d]]
  /\ caller' = [c \in Callers |->
       IF caller[c].phase \in History THEN [caller[c] EXCEPT !.seen = @ \cup {p}]
       ELSE caller[c]]
  /\ UNCHANGED memory

\* Mutant: an entry is read however old it is.
TickExpiresNothing ==
  /\ \A c \in Callers : caller[c].phase # "arriving"
  /\ since' = [d \in Devices |->
       IF d = holder \/ since[d] > CacheTtl THEN since[d] ELSE since[d] + 1]
  /\ deviceCache' = IF deviceCache = NoEntry \/ deviceCache.age = CacheTtl THEN deviceCache
                    ELSE [deviceCache EXCEPT !.age = @ + 1]
  /\ UNCHANGED <<holder, moves, cache, vehicleCache, caller>>

\* Time passes: the answer of Softruck is in, or given up (SOFTRUCK_REQUEST_TIMEOUT is
\* short against a tick), and an entry that is older than CACHE_TTL is not read again.
Tick ==
  /\ \A c \in Callers : caller[c].phase # "arriving"
  /\ since' = [d \in Devices |->
       IF d = holder \/ since[d] > CacheTtl THEN since[d] ELSE since[d] + 1]
  /\ deviceCache' = IF deviceCache = NoEntry \/ deviceCache.age = CacheTtl THEN NoEntry
                    ELSE [deviceCache EXCEPT !.age = @ + 1]
  /\ UNCHANGED <<holder, moves, cache, vehicleCache, caller>>

\* The age of the other two does not matter: they may expire at any time.
Expire ==
  /\ \/ cache # "none" /\ cache' = "none" /\ UNCHANGED vehicleCache
     \/ vehicleCache /\ vehicleCache' = FALSE /\ UNCHANGED cache
  /\ UNCHANGED <<holder, moves, since, deviceCache, caller>>

Next ==
  \/ \E c \in Callers :
       \/ Ask(c) \/ Resolve(c) \/ ResolveSoftruck(c) \/ LookUpCached(c) \/ Fail(c)
       \/ FindVehicle(c) \/ FindDevice(c) \/ DeviceArrives(c) \/ Probe(c) \/ Return(c)
       \/ \E answers \in [Origens -> 0..Nothing] : Show(c, answers)
  \/ \E p \in Places : Move(p)
  \/ Tick \/ Expire

Spec == Init /\ [][Next]_vars

-----------------------------------------------------------------------------
(* Properties *)

\* The position shown is at most an hour older than the latest one received, though
\* the preference for M7 compares it with Softruck's alone.
ShownIsFresh ==
  \A c \in Callers : caller[c].phase = "shown" =>
    \A lag \in caller[c].lags : lag <= Tolerance

\* Three caches, and answers that arrive late, do not add up: a device that a request
\* reads the history of was the vehicle's at a moment of the request or less than one
\* CACHE_TTL before it; Logica listed the chassi during the request; and a chassi is
\* called unknown only when Softruck, for a moment, did not list it.
ResolvedByHolder ==
  \A c \in Callers : caller[c].phase = "resolved" =>
    IF caller[c].answer = "none" THEN caller[c].seen \cap Elsewhere # {}
    ELSE caller[c].answer \in caller[c].seen

-----------------------------------------------------------------------------
(* The inductive invariant: what is remembered, and what is on its way, is    *)
(* no older than its device is gone, and what a request may be told holds     *)
(* the devices not gone for long and the provider of now.                     *)

CallerState ==
  [phase : {"idle", "asked"}]
    \cup [phase : {"shown"}, origem : Origens, lags : SUBSET Int]
    \cup [phase : History, direct : BOOLEAN, seen : SUBSET Places, answer : Places]

\* Every variable keeps its type.
TypeOK ==
  /\ holder \in Places
  /\ moves \in Nat
  /\ since \in [Devices -> 0..CacheTtl + 1]
  /\ cache \in {"softruck", "logica", "none"}
  /\ vehicleCache \in BOOLEAN
  /\ deviceCache \in [device : Devices, age : 0..CacheTtl] \cup {NoEntry}
  /\ caller \in [Callers -> CallerState]

MemoryOK ==
  /\ holder \in Devices => since[holder] = 0
  /\ deviceCache # NoEntry => since[deviceCache.device] <= deviceCache.age

CallerOK(r) ==
  /\ r.phase = "shown" => \A lag \in r.lags : lag <= Tolerance
  /\ r.phase \in History => {holder} \cup Recent \subseteq r.seen
  /\ r.phase = "arriving" => r.answer \in Devices /\ since[r.answer] = 0
  /\ r.phase = "probe" => r.seen \cap Elsewhere # {}
  /\ r.phase = "resolved" => IF r.answer = "none" THEN r.seen \cap Elsewhere # {}
                             ELSE r.answer \in r.seen

Inductive ==
  /\ TypeOK
  /\ MemoryOK
  /\ \A c \in Callers : CallerOK(caller[c])
=============================================================================
