------------------------------ MODULE LogicaAuth ------------------------------
(***************************************************************************)
(* LogicaAuthService: the sessions of the tracking provider Logica, and    *)
(* the calls that use them (ultimaPosicao, buscarVeiculoPorChassi,         *)
(* obterTrajeto, obterPosicoes: one call, and one more after a refusal).   *)
(* Tokens and logins are kept per base; the provider has one credential,   *)
(* and a login ends the session before it.                                 *)
(*                                                                         *)
(* An action is what happens between two awaits.  A base has a promise in  *)
(* authEmVoo exactly while its login runs, so login[b] stands for both.    *)
(***************************************************************************)
EXTENDS Naturals, FiniteSets

CONSTANTS
  Callers,    \* calls to the provider that may be in flight together
  Bases,      \* bases of the deployment
  MaxTokens,  \* bound: tokens the provider ever issues
  MaxLapses   \* bound: sessions the provider ends of age

LogicaAuthAssumption ==
  /\ Callers # {} /\ Bases # {}
  /\ MaxTokens \in Nat /\ MaxLapses \in Nat

TotalTentativas == 4        \* LOGICA_AUTH_BACKOFF_MS has three entries
EnvToken        == 0        \* LOGICA_TOKEN, or the token the caller brings
Tokens          == 0..MaxTokens
NoSession       == MaxTokens + 1

VARIABLES
  tokenCache,  \* token by base, EnvToken where there is none
  login,       \* the login in flight by base, and its attempt
  session,     \* provider: the only token it accepts, or NoSession
  issued,      \* provider: tokens issued so far
  lapses,      \* provider: sessions ended of age so far
  caller       \* where each caller stands

vars == <<tokenCache, login, session, issued, lapses, caller>>

At(phase, base, attempt, first, token, answer) ==
  [phase |-> phase, base |-> base, attempt |-> attempt, first |-> first,
   token |-> token, answer |-> answer]

Goto(c, r)         == caller' = [caller EXCEPT ![c] = r]
Answered(r, a)     == [r EXCEPT !.phase = "answered", !.answer = a]
NoLogin            == [phase |-> "none", attempt |-> 1]
Posting(tentativa) == [phase |-> "post", attempt |-> tentativa]
Backoff(tentativa) == [phase |-> "backoff", attempt |-> tentativa]

Init ==
  /\ tokenCache = [b \in Bases |-> EnvToken]
  /\ login = [b \in Bases |-> NoLogin]
  /\ session \in {EnvToken, NoSession}
  /\ issued = 0
  /\ lapses = 0
  /\ \E b \in Bases :
       caller = [c \in Callers |-> At("idle", b, 1, EnvToken, EnvToken, "none")]

-----------------------------------------------------------------------------
(* The calls *)

\* obterTokenInicial, and the first attempt.
Start(c, b) ==
  /\ caller[c].phase = "idle"
  /\ Goto(c, At("call", b, 1, tokenCache[b], tokenCache[b], "none"))
  /\ UNCHANGED <<tokenCache, login, session, issued, lapses>>

\* A token that the provider does not accept gets erro=true and logado=false.
Serve(c) ==
  /\ caller[c].phase = "call"
  /\ Goto(c, Answered(caller[c],
                      IF caller[c].token = session THEN "served" ELSE "refused"))
  /\ UNCHANGED <<tokenCache, login, session, issued, lapses>>

\* The call times out or fails: it throws.
CallFails(c) ==
  /\ caller[c].phase = "call"
  /\ Goto(c, [caller[c] EXCEPT !.phase = "idle"])
  /\ UNCHANGED <<tokenCache, login, session, issued, lapses>>

\* Whatever the second attempt brought is read as the answer, a refusal too.
Return(c) ==
  /\ caller[c].phase = "answered"
  /\ caller[c].answer # "refused" \/ caller[c].attempt = 2
  /\ Goto(c, [caller[c] EXCEPT !.phase = "idle"])
  /\ UNCHANGED <<tokenCache, login, session, issued, lapses>>

\* Mutant: a token renewed since is taken from the cache, refused or not.
RenovarTokenFromCache(c) ==
  LET b == caller[c].base IN
  /\ caller[c].phase = "answered"
  /\ caller[c].answer = "refused"
  /\ caller[c].attempt = 1
  /\ IF tokenCache[b] # EnvToken
     THEN /\ Goto(c, At("call", b, 2, caller[c].first, tokenCache[b], "none"))
          /\ UNCHANGED login
     ELSE /\ Goto(c, At("wait", b, 1, caller[c].first, caller[c].token, "none"))
          /\ login' = [login EXCEPT ![b] = Posting(1)]
  /\ UNCHANGED <<tokenCache, session, issued, lapses>>

\* renovarToken joins the login in flight, or starts one, whatever became of
\* the cached token since the refused call went out.
RenovarToken(c) ==
  LET b == caller[c].base IN
  /\ caller[c].phase = "answered"
  /\ caller[c].answer = "refused"
  /\ caller[c].attempt = 1
  /\ Goto(c, At("wait", b, 1, caller[c].first, caller[c].token, "none"))
  /\ IF login[b].phase = "none"
     THEN login' = [login EXCEPT ![b] = Posting(1)]
     ELSE UNCHANGED login
  /\ UNCHANGED <<tokenCache, session, issued, lapses>>

-----------------------------------------------------------------------------
(* The logins *)

NewSession ==
  /\ issued < MaxTokens
  /\ issued' = issued + 1
  /\ session' = issued'

Awaits(c, b) == caller[c].phase = "wait" /\ caller[c].base = b

\* The provider answers with a token: it is cached, and all who wait call again.
LoginSucceeds(b) ==
  /\ login[b].phase = "post"
  /\ NewSession
  /\ tokenCache' = [tokenCache EXCEPT ![b] = issued']
  /\ login' = [login EXCEPT ![b] = NoLogin]
  /\ caller' = [c \in Callers |->
       IF Awaits(c, b)
       THEN At("call", b, 2, caller[c].first, issued', "none")
       ELSE caller[c]]
  /\ UNCHANGED <<lapses>>

\* All attempts spent: the promise rejects and leaves authEmVoo.
LoginGivesUp(b) ==
  /\ login' = [login EXCEPT ![b] = NoLogin]
  /\ caller' = [c \in Callers |->
       IF Awaits(c, b) THEN [caller[c] EXCEPT !.phase = "idle"] ELSE caller[c]]

\* No token comes back: refused by the throttle, or lost after the provider
\* had opened the session.
LoginUnanswered(b) ==
  /\ login[b].phase = "post"
  /\ NewSession \/ UNCHANGED <<session, issued>>
  /\ IF login[b].attempt < TotalTentativas
     THEN /\ login' = [login EXCEPT ![b] = Backoff(login[b].attempt + 1)]
          /\ UNCHANGED caller
     ELSE LoginGivesUp(b)
  /\ UNCHANGED <<tokenCache, lapses>>

\* aguardar is over: the next attempt goes out.
BackoffEnds(b) ==
  /\ login[b].phase = "backoff"
  /\ login' = [login EXCEPT ![b].phase = "post"]
  /\ UNCHANGED <<tokenCache, session, issued, lapses, caller>>

\* The provider ends the session of age.
Lapse ==
  /\ lapses < MaxLapses
  /\ session # NoSession
  /\ session' = NoSession
  /\ lapses' = lapses + 1
  /\ UNCHANGED <<tokenCache, login, issued, caller>>

Answer(c) == Serve(c) \/ CallFails(c)
Resume(c) == Return(c) \/ RenovarToken(c)
Login(b)  == LoginSucceeds(b) \/ LoginUnanswered(b) \/ BackoffEnds(b)

Next ==
  \/ \E c \in Callers : Answer(c) \/ Resume(c) \/ \E b \in Bases : Start(c, b)
  \/ \E b \in Bases : Login(b)
  \/ Lapse

Spec == Init /\ [][Next]_vars

\* Requests have timeouts, timers fire, and Node runs continuations.
Fairness ==
  /\ \A c \in Callers : WF_vars(Answer(c)) /\ WF_vars(Resume(c))
  /\ \A b \in Bases : WF_vars(Login(b))

FairSpec == Spec /\ Fairness

-----------------------------------------------------------------------------
(* Properties *)

\* The second attempt goes out with a token newer than the refused one, even
\* when its login was started by another caller and before the refusal.
RetryIsNewer ==
  \A c \in Callers :
    caller[c].attempt = 2 => caller[c].first < caller[c].token

\* Every call ends, through all the refusals and pauses of the logins: none waits
\* on a login that is over.
CallsEnd == \A c \in Callers : caller[c].phase # "idle" ~> caller[c].phase = "idle"

-----------------------------------------------------------------------------
(* The inductive invariant: how old the tokens are that the cache and the  *)
(* callers hold, and that who waits for a login waits for one under way.   *)

CallerState == [phase : {"idle", "call", "answered", "wait"}, base : Bases,
                attempt : 1..2, first : Tokens, token : Tokens,
                answer : {"none", "served", "refused"}]

\* Every variable keeps its type.
TypeOK ==
  /\ tokenCache \in [Bases -> Tokens]
  /\ login \in [Bases -> [phase : {"none", "post", "backoff"},
                          attempt : 1..TotalTentativas]]
  /\ session \in Tokens \cup {NoSession}
  /\ issued \in Tokens
  /\ lapses \in 0..MaxLapses
  /\ caller \in [Callers -> CallerState]

\* authEmVoo has the login that a caller of renovarToken waits for.
NoneWaitsInVain ==
  \A c \in Callers :
    caller[c].phase = "wait" => login[caller[c].base].phase # "none"

CallerOK(r) ==
  /\ r.first <= issued
  /\ r.token <= issued
  /\ r.attempt = 2 => r.first < r.token
  /\ r.phase = "wait" => login[r.base].phase # "none"

Inductive ==
  /\ TypeOK
  /\ \A b \in Bases : tokenCache[b] <= issued
  /\ \A c \in Callers : CallerOK(caller[c])
=============================================================================
