---------------------------- MODULE SoftruckSession ----------------------------
(***************************************************************************)
(* RastreamentoSoftruck: the token of a base, its logins, and the calls    *)
(* that make their way through several requests with it: the last position *)
(* (vehicle, device, tracking) and the days of a history (vehicle, device, *)
(* then by-keys or geom of the days).  One base and one vehicle; nobody    *)
(* passes the tokenOverride that the methods take.                         *)
(*                                                                         *)
(* Every request reads the token of the map when it goes out               *)
(* (getRequestHeaders), so a call may use one token for the vehicle and    *)
(* another for the device, or find none: getValidToken, on behalf of       *)
(* another call, deletes the token that is about to expire before the      *)
(* login that replaces it has begun to answer.                             *)
(***************************************************************************)
EXTENDS Naturals

CONSTANTS
  Callers,   \* calls in flight together
  MaxCalls   \* bound: calls ever made

Kinds == {"posicao", "historico"}
Steps == {"vehicle", "device", "data"}

VARIABLES
  entry,   \* softruckTokenByBase: "none", "fresh", or "expiring" (within the buffer)
  login,   \* loginPromiseByBase has the base
  cached,  \* vehicleCache and deviceCache: steps whose answer is at hand
  calls,   \* calls so far
  caller   \* where each call stands

vars == <<entry, login, cached, calls, caller>>

At(phase, kind, step, attempt, token, refused) ==
  [phase |-> phase, kind |-> kind, step |-> step, attempt |-> attempt,
   token |-> token, refused |-> refused]

Idle       == At("idle", "posicao", "vehicle", 1, "none", "none")
Set(c, r)  == caller' = [caller EXCEPT ![c] = r]
Aged(t)    == IF t = "current" THEN "old" ELSE t
JoinLogin  == login' = TRUE

Init ==
  /\ entry = "none"
  /\ login = FALSE
  /\ cached = {}
  /\ calls = 0
  /\ caller = [c \in Callers |-> Idle]

-----------------------------------------------------------------------------
(* The requests of a call *)

\* A request that cannot go out for want of a token: the position throws; the day
\* of a history is logged as one without data (buscarByKeysPorAcc, buscarGeomPorAcc).
Unsent(r) ==
  IF r.kind = "historico" /\ r.step = "data" THEN [r EXCEPT !.phase = "empty"]
  ELSE Idle

\* executarComReautenticacao calls request(), which reads the token of now.
Request(r, attempt) ==
  IF entry = "none" THEN Unsent(r)
  ELSE [r EXCEPT !.phase = "call", !.attempt = attempt, !.token = "current"]

\* resolveVehicleAndDevice and ultimaPosicaoSoftruck: without a token, or with one
\* about to expire, which getValidToken deletes, autenticarSoftruck comes first.
Start(c, k) ==
  LET r == At("ready", k, "vehicle", 1, "none", "none") IN
  /\ caller[c].phase = "idle"
  /\ calls < MaxCalls
  /\ calls' = calls + 1
  /\ IF entry = "fresh"
     THEN Set(c, r) /\ UNCHANGED <<entry, login>>
     ELSE /\ Set(c, [r EXCEPT !.phase = "signin"])
          /\ entry' = "none"
          /\ JoinLogin
  /\ UNCHANGED cached

\* obterVehicleId and obterDeviceId answer from their caches (CACHE_TTL).
FromCache(c) ==
  /\ caller[c].phase = "ready"
  /\ caller[c].step \in cached
  /\ Set(c, [caller[c] EXCEPT !.step = IF @ = "vehicle" THEN "device" ELSE "data"])
  /\ UNCHANGED <<entry, login, cached, calls>>

Send(c) ==
  /\ caller[c].phase = "ready"
  /\ caller[c].step \notin cached
  /\ Set(c, Request(caller[c], 1))
  /\ UNCHANGED <<entry, login, cached, calls>>

\* The answer of the step is cached, and the next step follows.
Serve(c) ==
  /\ caller[c].phase = "call"
  /\ CASE caller[c].step = "vehicle" ->
            /\ Set(c, At("ready", caller[c].kind, "device", 1, "none", "none"))
            /\ cached' = cached \cup {"vehicle"}
       [] caller[c].step = "device" ->
            /\ Set(c, At("ready", caller[c].kind, "data", 1, "none", "none"))
            /\ cached' = cached \cup {"device"}
       [] caller[c].step = "data" ->
            /\ Set(c, [caller[c] EXCEPT !.phase = "served"])
            /\ UNCHANGED cached
  /\ UNCHANGED <<entry, login, calls>>

\* Any other failure than a refusal.
CallFails(c) ==
  /\ caller[c].phase = "call"
  /\ Set(c, Unsent(caller[c]))
  /\ UNCHANGED <<entry, login, cached, calls>>

\* A 401 or 403: log in, or join who does, and repeat the request.
Refused(c) ==
  /\ caller[c].phase = "call"
  /\ caller[c].attempt = 1
  /\ Set(c, [caller[c] EXCEPT !.phase = "relogin", !.refused = caller[c].token])
  /\ JoinLogin
  /\ UNCHANGED <<entry, cached, calls>>

\* A second refusal is thrown, by the searches of days too.
RefusedAgain(c) ==
  /\ caller[c].phase = "call"
  /\ caller[c].attempt = 2
  /\ Set(c, Idle)
  /\ UNCHANGED <<entry, login, cached, calls>>

Return(c) ==
  /\ caller[c].phase \in {"served", "empty"}
  /\ Set(c, Idle)
  /\ UNCHANGED <<entry, login, cached, calls>>

-----------------------------------------------------------------------------
(* The login of the base, and time *)

\* executeAutenticarSoftruck stores the token; continuations of the callers that
\* wait run before any other event.
LoginSucceeds ==
  /\ login
  /\ login' = FALSE
  /\ entry' = "fresh"
  /\ caller' = [c \in Callers |->
       LET r == caller[c] IN
       CASE r.phase = "signin"  -> [r EXCEPT !.phase = "ready"]
         [] r.phase = "relogin" -> At("call", r.kind, r.step, 2, "current", Aged(r.refused))
         [] OTHER -> [r EXCEPT !.token = Aged(@), !.refused = Aged(@)]]
  /\ UNCHANGED <<cached, calls>>

LoginFails ==
  /\ login
  /\ login' = FALSE
  /\ caller' = [c \in Callers |->
       CASE caller[c].phase = "signin"  -> Idle
         [] caller[c].phase = "relogin" -> Unsent(caller[c])
         [] OTHER -> caller[c]]
  /\ UNCHANGED <<entry, cached, calls>>

\* A minute before its exp the token counts as expired.
TokenAges ==
  /\ entry = "fresh"
  /\ entry' = "expiring"
  /\ UNCHANGED <<login, cached, calls, caller>>

\* Ten minutes pass: getCached deletes what is older.
CachesAge ==
  /\ cached # {}
  /\ \E s \in SUBSET cached : s # cached /\ cached' = s
  /\ UNCHANGED <<entry, login, calls, caller>>

Advance(c) ==
  FromCache(c) \/ Send(c) \/ Serve(c) \/ CallFails(c) \/ RefusedAgain(c) \/ Return(c)
Login == LoginSucceeds \/ LoginFails

Next ==
  \/ \E c \in Callers : Advance(c) \/ Refused(c) \/ \E k \in Kinds : Start(c, k)
  \/ Login \/ TokenAges \/ CachesAge

Spec == Init /\ [][Next]_vars

\* Requests have timeouts and Node runs continuations.
Fairness == (\A c \in Callers : WF_vars(Advance(c))) /\ WF_vars(Login)

FairSpec == Spec /\ Fairness

-----------------------------------------------------------------------------
(* Properties *)

\* executarComReautenticacao never repeats a request with the token that was refused.
RetryIsNewer ==
  \A c \in Callers :
    caller[c].phase = "call" /\ caller[c].attempt = 2 => caller[c].refused = "old"

\* Every call ends.
CallsEnd == \A c \in Callers : caller[c].phase # "idle" ~> caller[c].phase = "idle"

-----------------------------------------------------------------------------
(* The inductive invariant: what the callers of a login under way were     *)
(* refused with.                                                           *)

Held == {"none", "current", "old"}

CallerState ==
  [phase : {"idle", "signin", "ready", "call", "relogin", "served", "empty"},
   kind : Kinds, step : Steps, attempt : 1..2, token : Held, refused : Held]

\* Every variable keeps its type.
TypeOK ==
  /\ entry \in {"none", "fresh", "expiring"}
  /\ login \in BOOLEAN
  /\ cached \in SUBSET Steps
  /\ calls \in Nat
  /\ caller \in [Callers -> CallerState]

\* loginPromiseByBase has the login that a caller waits for.
NoneWaitsInVain ==
  \A c \in Callers : caller[c].phase \in {"signin", "relogin"} => login

CallerOK(r) ==
  /\ r.phase = "call" => r.token # "none"
  /\ r.phase = "relogin" => r.refused # "none"
  /\ r.phase = "call" /\ r.attempt = 2 => r.refused = "old"
  /\ r.phase \in {"signin", "relogin"} => login

Inductive ==
  /\ TypeOK
  /\ \A c \in Callers : CallerOK(caller[c])
=============================================================================
