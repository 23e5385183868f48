------------------------------- MODULE M7Session -------------------------------
(***************************************************************************)
(* The two classes that hold a token of the M7 API, RastreamentoM7         *)
(* ("posicao") and HistoricoM7Service ("historico"), for one base.  They   *)
(* are written alike: a renewal is a promise that later callers join, a    *)
(* refused call renews and is repeated once, a timer renews every half     *)
(* hour, and a renewal that fails leaves the token as it was.  They differ *)
(* at boot: RastreamentoM7 awaits its first logins and swallows their      *)
(* failures, HistoricoM7Service neither awaits nor catches them, and main  *)
(* has no handler: Node ends, and the container is started again.          *)
(*                                                                         *)
(* What M7 accepts is nondeterministic.  A caller's token is told apart    *)
(* only as the current one of its class or an older one.                   *)
(***************************************************************************)
EXTENDS Naturals

CONSTANTS
  Callers,   \* calls to M7 that may be in flight together
  MaxBoots   \* bound: starts of the process

M7SessionAssumption == MaxBoots \in Nat

Services == {"posicao", "historico"}

VARIABLES
  process,  \* "booting", "up" (it listens) or "down"
  boots,    \* starts so far
  m7,       \* M7 answers logins or does not
  hasToken, \* state.token # null, by service
  renewal,  \* tokenRenewalPromise: who created it, or "none"
  caller    \* where each call stands

vars == <<process, boots, m7, hasToken, renewal, caller>>

At(phase, service, attempt, token, refused) ==
  [phase |-> phase, service |-> service, attempt |-> attempt,
   token |-> token, refused |-> refused]

Idle      == At("idle", "posicao", 1, "none", "none")
Set(c, r) == caller' = [caller EXCEPT ![c] = r]

\* The constructor and onModuleInit start their logins before the server listens.
Booting ==
  /\ process' = "booting"
  /\ hasToken' = [s \in Services |-> FALSE]
  /\ renewal' = [s \in Services |-> "boot"]
  /\ caller' = [c \in Callers |-> Idle]

Init ==
  /\ process = "booting"
  /\ boots = 1
  /\ m7 = "up"
  /\ hasToken = [s \in Services |-> FALSE]
  /\ renewal = [s \in Services |-> "boot"]
  /\ caller = [c \in Callers |-> Idle]

-----------------------------------------------------------------------------
(* The process and its environment *)

Boot ==
  /\ process = "down"
  /\ boots < MaxBoots
  /\ boots' = boots + 1
  /\ Booting
  /\ UNCHANGED m7

\* app.listen waits for onModuleInit, that is, for the logins of RastreamentoM7 only.
Listen ==
  /\ process = "booting"
  /\ renewal["posicao"] = "none"
  /\ process' = "up"
  /\ UNCHANGED <<boots, m7, hasToken, renewal, caller>>

M7Stops ==
  /\ m7 = "up"
  /\ m7' = "down"
  /\ UNCHANGED <<process, boots, hasToken, renewal, caller>>

M7Returns ==
  /\ m7 = "down"
  /\ m7' = "up"
  /\ UNCHANGED <<process, boots, hasToken, renewal, caller>>

\* Mutant: the timer only renews a token that is there.
TimerWithToken(s) ==
  /\ process = "up" /\ hasToken[s]
  /\ renewal[s] = "none"
  /\ renewal' = [renewal EXCEPT ![s] = "timer"]
  /\ UNCHANGED <<process, boots, m7, hasToken, caller>>

\* setInterval: a renewal in flight is joined, which changes nothing.
Timer(s) ==
  /\ process = "up"
  /\ renewal[s] = "none"
  /\ renewal' = [renewal EXCEPT ![s] = "timer"]
  /\ UNCHANGED <<process, boots, m7, hasToken, caller>>

-----------------------------------------------------------------------------
(* The calls: executarComReautenticacao *)

\* Without a token the call throws at once, whatever renewal is in flight.
Start(c, s) ==
  /\ process = "up"
  /\ caller[c].phase = "idle"
  /\ hasToken[s]
  /\ Set(c, At("call", s, 1, "current", "none"))
  /\ UNCHANGED <<process, boots, m7, hasToken, renewal>>

\* Served, refused for the second time, or failed: the call ends.
Return(c) ==
  /\ caller[c].phase = "call"
  /\ Set(c, Idle)
  /\ UNCHANGED <<process, boots, m7, hasToken, renewal>>

\* A 401, or a body whose mensagem names the token (isTokenError): renovarToken
\* joins the renewal in flight or starts one, also when the token was renewed since.
Refused(c) ==
  LET s == caller[c].service IN
  /\ caller[c].phase = "call"
  /\ caller[c].attempt = 1
  /\ Set(c, [caller[c] EXCEPT !.phase = "wait", !.refused = caller[c].token])
  /\ renewal' = IF renewal[s] = "none" THEN [renewal EXCEPT ![s] = "call"] ELSE renewal
  /\ UNCHANGED <<process, boots, m7, hasToken>>

-----------------------------------------------------------------------------
(* The renewals: executeRenovarToken *)

Aged(token) == IF token = "current" THEN "old" ELSE token

\* The token is replaced; who waits repeats the call with the new one.
LoginSucceeds(s) ==
  /\ renewal[s] # "none"
  /\ m7 = "up"
  /\ hasToken' = [hasToken EXCEPT ![s] = TRUE]
  /\ renewal' = [renewal EXCEPT ![s] = "none"]
  /\ caller' = [c \in Callers |->
       LET r == caller[c] IN
       IF r.service # s THEN r
       ELSE IF r.phase = "wait" THEN At("call", s, 2, "current", Aged(r.refused))
       ELSE [r EXCEPT !.token = Aged(r.token), !.refused = Aged(r.refused)]]
  /\ UNCHANGED <<process, boots, m7>>

\* The promise rejects: who waits throws.  The first login of HistoricoM7Service
\* is nobody's to catch.
LoginFails(s) ==
  /\ renewal[s] # "none"
  /\ m7 = "down"
  /\ IF s = "historico" /\ renewal[s] = "boot"
     THEN /\ process' = "down"
          /\ hasToken' = [t \in Services |-> FALSE]
          /\ renewal' = [t \in Services |-> "none"]
          /\ caller' = [c \in Callers |-> Idle]
     ELSE /\ renewal' = [renewal EXCEPT ![s] = "none"]
          /\ caller' = [c \in Callers |->
               IF caller[c].phase = "wait" /\ caller[c].service = s
               THEN Idle ELSE caller[c]]
          /\ UNCHANGED <<process, hasToken>>
  /\ UNCHANGED <<boots, m7>>

Login(s) == LoginSucceeds(s) \/ LoginFails(s)

Next ==
  \/ \E c \in Callers : Return(c) \/ Refused(c) \/ \E s \in Services : Start(c, s)
  \/ \E s \in Services : Login(s) \/ Timer(s)
  \/ Boot \/ Listen \/ M7Stops \/ M7Returns

Spec == Init /\ [][Next]_vars

\* Requests have timeouts, timers fire, Node runs continuations, and the container
\* is restarted (docker-compose, restart: unless-stopped).
Fairness ==
  /\ \A c \in Callers : WF_vars(Return(c))
  /\ \A s \in Services : WF_vars(Login(s)) /\ WF_vars(Timer(s))
  /\ WF_vars(Boot) /\ WF_vars(Listen)

FairSpec == Spec /\ Fairness

-----------------------------------------------------------------------------
(* Properties *)

\* executarComReautenticacao never repeats a call with the token that was refused,
\* though the renewal it waits for may be another caller's.
RetryIsNewer ==
  \A c \in Callers : caller[c].attempt = 2 => caller[c].refused = "old"

\* A class left without a token by a failed first login gets one from the timer once
\* M7 stays up, unless the process spent its starts: no call is needed for it, and
\* none would help, since a call without a token throws before it can renew.
TokenComesBack ==
  \A s \in Services :
    <>[](m7 = "up") => <>[](hasToken[s] \/ process = "down")

\* Every call ends: none waits for a renewal that is over.
CallsEnd == \A c \in Callers : caller[c].phase # "idle" ~> caller[c].phase = "idle"

-----------------------------------------------------------------------------
(* The inductive invariant: what the caller of a renewal under way was     *)
(* refused with.                                                           *)

Held == {"none", "current", "old"}

CallerState == [phase : {"idle", "call", "wait"}, service : Services,
                attempt : 1..2, token : Held, refused : Held]

\* Every variable keeps its type.
TypeOK ==
  /\ process \in {"booting", "up", "down"}
  /\ boots \in Nat
  /\ m7 \in {"up", "down"}
  /\ hasToken \in [Services -> BOOLEAN]
  /\ renewal \in [Services -> {"none", "boot", "timer", "call"}]
  /\ caller \in [Callers -> CallerState]

\* tokenRenewalPromise is the renewal that a refused caller waits for.
NoneWaitsInVain ==
  \A c \in Callers :
    caller[c].phase = "wait" => renewal[caller[c].service] # "none"

CallerOK(r) ==
  /\ r.phase = "call" => r.token # "none"
  /\ r.phase = "wait" => r.refused # "none" /\ renewal[r.service] # "none"
  /\ r.attempt = 2 => r.phase # "wait" /\ r.refused = "old"

Inductive ==
  /\ TypeOK
  /\ \A c \in Callers : CallerOK(caller[c])
=============================================================================
