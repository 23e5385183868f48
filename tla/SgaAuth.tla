------------------------------- MODULE SgaAuth -------------------------------
(***************************************************************************)
(* SgaAuthService: the Hinova session of one base, shared by every call    *)
(* the backend makes to the SGA.  The maps of the service are keyed by     *)
(* base and no operation touches two bases, so one base is the whole of    *)
(* it.                                                                     *)
(*                                                                         *)
(* A caller runs executeWithAuth: token, call, and after a 401 one more    *)
(* token and one more call.  Node runs one continuation at a time, so an   *)
(* action is what happens between two awaits; the .then and .finally of a  *)
(* login and the continuations of those that await it run in one drain of  *)
(* the microtask queue, and are one action.                                *)
(***************************************************************************)
EXTENDS Naturals, FiniteSets

CONSTANTS
  Callers,     \* calls to the SGA that may be in flight together
  NoCaller,    \* stands for the absence of a login in flight
  MaxTokens    \* bound: tokens Hinova ever issues

ASSUME SgaAuthAssumption == NoCaller \notin Callers /\ MaxTokens \in Nat

NoToken == 0
Tokens  == 1..MaxTokens     \* in the order Hinova issues them

VARIABLES
  cache,     \* userTokenCache
  inFlight,  \* authInFlight: whose login the promise is, or NoCaller
  logins,    \* calls to usuario/autenticar not yet answered, by who sent them
  issued,    \* Hinova: tokens issued so far
  expired,   \* Hinova: tokens it no longer accepts
  refused,   \* tokens some caller has been answered 401 for
  caller     \* where each caller stands

vars == <<cache, inFlight, logins, issued, expired, refused, caller>>

\* attempt is 1 or 2; first is the token of the first attempt, token that of
\* the current one; login is the login awaited; status is Hinova's answer.
At(phase, attempt, first, token, login, status) ==
  [phase |-> phase, attempt |-> attempt, first |-> first, token |-> token,
   login |-> login, status |-> status]

Idle                         == At("idle", 1, NoToken, NoToken, NoCaller, "none")
Calling(attempt, first, t)   == At("call", attempt, first, t, NoCaller, "none")
Waiting(attempt, first, l)   == At("wait", attempt, first, NoToken, l, "none")
Answered(c, status) ==
  At("answered", caller[c].attempt, caller[c].first, caller[c].token, NoCaller,
     status)

Init ==
  /\ cache = NoToken
  /\ inFlight = NoCaller
  /\ logins = {}
  /\ issued = 0
  /\ expired = {}
  /\ refused = {}
  /\ caller = [c \in Callers |-> Idle]

Goto(c, r) == caller' = [caller EXCEPT ![c] = r]

-----------------------------------------------------------------------------
(* getUserToken *)

\* Mutant: a login is sent even when one is in flight.
AuthenticateAlways(c, attempt, first) ==
  /\ logins' = logins \cup {c}
  /\ inFlight' = c
  /\ Goto(c, Waiting(attempt, first, c))

\* Join the login in flight, or send one.
Authenticate(c, attempt, first) ==
  IF inFlight # NoCaller
  THEN /\ Goto(c, Waiting(attempt, first, inFlight))
       /\ UNCHANGED <<inFlight, logins>>
  ELSE /\ logins' = logins \cup {c}
       /\ inFlight' = c
       /\ Goto(c, Waiting(attempt, first, c))

(* executeWithAuth *)

\* The first token is the cached one, if any.
Start(c) ==
  /\ caller[c].phase = "idle"
  /\ IF cache # NoToken
     THEN Goto(c, Calling(1, cache, cache)) /\ UNCHANGED <<inFlight, logins>>
     ELSE Authenticate(c, 1, NoToken)
  /\ UNCHANGED <<cache, issued, expired, refused>>

\* What an awaiting caller goes on with once login l has produced token t.
Resumed(r, t) ==
  Calling(r.attempt, IF r.attempt = 1 THEN t ELSE r.first, t)

LoginSucceeds(l) ==
  /\ l \in logins
  /\ issued < MaxTokens
  /\ issued' = issued + 1
  /\ cache' = issued'
  /\ inFlight' = NoCaller
  /\ logins' = logins \ {l}
  /\ caller' = [c \in Callers |->
       IF caller[c].phase = "wait" /\ caller[c].login = l
       THEN Resumed(caller[c], issued') ELSE caller[c]]
  /\ UNCHANGED <<expired, refused>>

\* Mutant: the promise stays in the map when the login fails.
LoginFailsStuck(l) ==
  /\ l \in logins
  /\ logins' = logins \ {l}
  /\ caller' = [c \in Callers |->
       IF caller[c].phase = "wait" /\ caller[c].login = l
       THEN Idle ELSE caller[c]]
  /\ UNCHANGED <<cache, inFlight, issued, expired, refused>>

\* Refused, lost, or answered without a token: all who await it throw.
LoginFails(l) ==
  /\ l \in logins
  /\ inFlight' = NoCaller
  /\ logins' = logins \ {l}
  /\ caller' = [c \in Callers |->
       IF caller[c].phase = "wait" /\ caller[c].login = l
       THEN Idle ELSE caller[c]]
  /\ UNCHANGED <<cache, issued, expired, refused>>

\* Hinova judges the token when the call reaches it, not when it is sent.
Serve(c) ==
  /\ caller[c].phase = "call"
  /\ Goto(c, Answered(c, IF caller[c].token \in expired THEN "401" ELSE "ok"))
  /\ UNCHANGED <<cache, inFlight, logins, issued, expired, refused>>

\* The call itself rejects: the caller throws.
CallFails(c) ==
  /\ caller[c].phase = "call"
  /\ Goto(c, Idle)
  /\ UNCHANGED <<cache, inFlight, logins, issued, expired, refused>>

\* Anything but a 401, or the answer to the second attempt, is returned.
Return(c) ==
  /\ caller[c].phase = "answered"
  /\ caller[c].status # "401" \/ caller[c].attempt = 2
  /\ Goto(c, Idle)
  /\ UNCHANGED <<cache, inFlight, logins, issued, expired, refused>>

\* Mutant: the cached token is neither dropped nor bypassed.
RetryFromCache(c) ==
  /\ caller[c].phase = "answered"
  /\ caller[c].status = "401"
  /\ caller[c].attempt = 1
  /\ refused' = refused \cup {caller[c].token}
  /\ IF cache # NoToken
     THEN /\ Goto(c, Calling(2, caller[c].token, cache))
          /\ UNCHANGED <<inFlight, logins>>
     ELSE Authenticate(c, 2, caller[c].token)
  /\ UNCHANGED <<cache, issued, expired>>

\* invalidateUserToken drops whatever token is cached by now, and the forced
\* getUserToken that follows does not look at the cache.
Retry(c) ==
  /\ caller[c].phase = "answered"
  /\ caller[c].status = "401"
  /\ caller[c].attempt = 1
  /\ refused' = refused \cup {caller[c].token}
  /\ cache' = NoToken
  /\ Authenticate(c, 2, caller[c].token)
  /\ UNCHANGED <<issued, expired>>

\* Hinova: a token lapses, of age or because of a later login.
Expire(t) ==
  /\ t \in 1..issued
  /\ t \notin expired
  /\ expired' = expired \cup {t}
  /\ UNCHANGED <<cache, inFlight, logins, issued, refused, caller>>

\* Bound: with MaxTokens issued, a login can only fail.
Login(l)  == LoginSucceeds(l) \/ LoginFails(l)
Answer(c) == Serve(c) \/ CallFails(c)
Resume(c) == Return(c) \/ Retry(c)

Next ==
  \/ \E c \in Callers : Start(c) \/ Login(c) \/ Answer(c) \/ Resume(c)
  \/ \E t \in Tokens : Expire(t)

Spec == Init /\ [][Next]_vars

\* Hinova answers or the connection breaks, and Node runs continuations.
Fairness ==
  \A c \in Callers : WF_vars(Login(c)) /\ WF_vars(Answer(c)) /\ WF_vars(Resume(c))

FairSpec == Spec /\ Fairness

-----------------------------------------------------------------------------
(* Properties *)

CallerState == [phase : {"idle", "wait", "call", "answered"}, attempt : 1..2,
                first : Tokens \cup {NoToken}, token : Tokens \cup {NoToken},
                login : Callers \cup {NoCaller}, status : {"none", "ok", "401"}]

\* Every variable keeps its type.
TypeOK ==
  /\ cache \in Tokens \cup {NoToken}
  /\ inFlight \in Callers \cup {NoCaller}
  /\ logins \in SUBSET Callers
  /\ issued \in 0..MaxTokens
  /\ expired \in SUBSET Tokens
  /\ refused \in SUBSET Tokens
  /\ caller \in [Callers -> CallerState]

\* At most one login of the base is in flight, and authInFlight holds it: it
\* neither forgets a live login nor keeps a settled one.
SingleFlight == logins = IF inFlight = NoCaller THEN {} ELSE {inFlight}

\* A second attempt goes out with a token issued after the one refused.
RetryIsNewer ==
  \A c \in Callers :
    caller[c].attempt = 2 /\ caller[c].phase = "call"
      => caller[c].first < caller[c].token

\* A token that earned some caller a 401 and a retry is never handed out by
\* the cache again, however late other answers come in.
RefusedNotCached == cache \notin refused

\* No caller waits for ever on a login that was settled before.
CallsEnd == \A c \in Callers : caller[c].phase # "idle" ~> caller[c].phase = "idle"

-----------------------------------------------------------------------------
(* The inductive invariant: who awaits which login, and how old the tokens *)
(* in their hands are.                                                     *)

CallerOK(r) ==
  /\ r.phase = "wait" => r.login \in logins
  /\ r.phase = "wait" /\ r.attempt = 2 => r.first \in 1..issued
  /\ r.phase \in {"call", "answered"} => r.token \in 1..issued
  /\ r.phase = "call" /\ r.attempt = 2 => r.first < r.token

Inductive ==
  /\ TypeOK
  /\ SingleFlight
  /\ \A c \in Callers : CallerOK(caller[c])
  /\ cache # NoToken => cache \in 1..issued
  /\ refused \subseteq 1..issued
  /\ RefusedNotCached
=============================================================================
