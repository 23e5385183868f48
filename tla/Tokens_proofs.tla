----------------------------- MODULE Tokens_proofs -----------------------------
(***************************************************************************)
(* Proofs about the clients that log in.  SgaAuth, which MCTokens extends, *)
(* comes first; then the sessions of the trackers, LogicaAuth, M7Session   *)
(* and SoftruckSession, through the instances of MCTokens: what holds of   *)
(* each of them by itself; and last the composition.  A proof has one      *)
(* lemma per action that keeps the component's Inductive.                  *)
(***************************************************************************)
EXTENDS MCTokens, TLAPS

(***************************************************************************)
(* SgaAuth, for any number of callers and of tokens.                       *)
(***************************************************************************)

USE SgaAuthAssumption

\* The fields of a caller's record are of their types.
LEMMA CallerFields ==
  ASSUME TypeOK, NEW c \in Callers
  PROVE  /\ caller[c].phase \in {"idle", "wait", "call", "answered"}
         /\ caller[c].attempt \in 1..2
         /\ caller[c].first \in Tokens \cup {NoToken}
         /\ caller[c].token \in Tokens \cup {NoToken}
         /\ caller[c].login \in Callers \cup {NoCaller}
         /\ caller[c].status \in {"none", "ok", "401"}
BY DEF TypeOK, CallerState

\* A step that moves one caller to a record that is typed and in order keeps
\* the callers typed and in order, if it takes nothing from the others.
LEMMA OneCallerMoves ==
  ASSUME Inductive, NEW c \in Callers, NEW r \in CallerState, Goto(c, r),
         logins \subseteq logins', issued' = issued,
         r.phase = "wait" => r.login \in logins',
         r.phase = "wait" /\ r.attempt = 2 => r.first \in 1..issued,
         r.phase \in {"call", "answered"} => r.token \in 1..issued,
         r.phase = "call" /\ r.attempt = 2 => r.first < r.token
  PROVE  /\ caller' \in [Callers -> CallerState]
         /\ \A d \in Callers : CallerOK(caller[d])'
<1>1. caller' \in [Callers -> CallerState]
  BY DEF Goto, Inductive, TypeOK
<1>2. ASSUME NEW d \in Callers PROVE CallerOK(caller[d])'
  <2>1. CASE d = c
    <3>1. caller'[d] = r
      BY <2>1 DEF Goto, Inductive, TypeOK
    <3>2. QED BY <3>1 DEF CallerOK
  <2>2. CASE d # c
    <3>1. caller'[d] = caller[d]
      BY <2>2 DEF Goto, Inductive, TypeOK
    <3>2. CallerOK(caller[d])
      BY DEF Inductive
    <3>3. QED BY <3>1, <3>2 DEF CallerOK
  <2>3. QED BY <2>1, <2>2
<1>3. QED BY <1>1, <1>2

\* Joining the login in flight or sending one keeps SingleFlight, and the
\* caller awaits a login that is under way.
LEMMA AuthenticateKeeps ==
  ASSUME Inductive, NEW c \in Callers, NEW attempt \in 1..2,
         NEW first \in Tokens \cup {NoToken},
         Authenticate(c, attempt, first), issued' = issued,
         attempt = 2 => first \in 1..issued
  PROVE  /\ inFlight' \in Callers \cup {NoCaller}
         /\ logins' \in SUBSET Callers
         /\ SingleFlight'
         /\ caller' \in [Callers -> CallerState]
         /\ \A d \in Callers : CallerOK(caller[d])'
<1>1. inFlight \in Callers \cup {NoCaller} /\ logins \in SUBSET Callers
  BY DEF Inductive, TypeOK
<1>2. PICK l \in Callers : /\ Goto(c, Waiting(attempt, first, l))
                           /\ l \in logins'
                           /\ logins' = {l}
                           /\ inFlight' = l
                           /\ logins \subseteq logins'
  <2>1. CASE inFlight # NoCaller
    BY <1>1, <2>1 DEF Authenticate, Inductive, SingleFlight
  <2>2. CASE inFlight = NoCaller
    BY <1>1, <2>2 DEF Authenticate, Inductive, SingleFlight
  <2>3. QED BY <2>1, <2>2
<1> DEFINE r == Waiting(attempt, first, l)
<1>3. /\ r \in CallerState
      /\ r.phase = "wait" /\ r.login = l /\ r.attempt = attempt /\ r.first = first
  BY DEF Waiting, At, CallerState
<1>4. Goto(c, r)
  BY <1>2
<1> HIDE DEF r
<1>5. /\ caller' \in [Callers -> CallerState]
      /\ \A d \in Callers : CallerOK(caller[d])'
  BY <1>2, <1>3, <1>4, OneCallerMoves
<1>6. SingleFlight'
  BY <1>2 DEF SingleFlight
<1>7. QED BY <1>2, <1>5, <1>6

\* Inductive holds at the start.
LEMMA InitInductive == Init => Inductive
<1> SUFFICES ASSUME Init PROVE Inductive
  OBVIOUS
<1> DEFINE r == Idle
<1>1. r \in CallerState /\ r.phase = "idle"
  BY DEF Idle, At, CallerState
<1>2. \A c \in Callers : caller[c] = r
  BY DEF Init
<1>3. caller \in [Callers -> CallerState]
  BY <1>1 DEF Init
<1> HIDE DEF r
<1>4. \A c \in Callers : CallerOK(caller[c])
  BY <1>1, <1>2 DEF CallerOK
<1>5. TypeOK
  BY <1>3 DEF Init, TypeOK, NoToken
<1>6. QED
  BY <1>4, <1>5 DEF Init, Inductive, SingleFlight, RefusedNotCached, NoToken

\* Start keeps Inductive: the token taken from the cache is one that was issued.
LEMMA StartKeeps ==
  ASSUME Inductive, NEW c \in Callers, Start(c)
  PROVE  Inductive'
<1>1. UNCHANGED <<cache, issued, expired, refused>>
  BY DEF Start
<1>2. /\ inFlight' \in Callers \cup {NoCaller}
      /\ logins' \in SUBSET Callers
      /\ SingleFlight'
      /\ caller' \in [Callers -> CallerState]
      /\ \A d \in Callers : CallerOK(caller[d])'
  <2>1. CASE cache # NoToken
    <3> DEFINE r == Calling(1, cache, cache)
    <3>1. Goto(c, r) /\ UNCHANGED <<inFlight, logins>>
      BY <2>1 DEF Start
    <3>2. cache \in 1..issued /\ cache \in Tokens
      BY <2>1 DEF Inductive, TypeOK, NoToken
    <3>3. r \in CallerState /\ r.phase = "call" /\ r.attempt = 1 /\ r.token = cache
      BY <3>2 DEF Calling, At, CallerState
    <3> HIDE DEF r
    <3>4. /\ caller' \in [Callers -> CallerState]
          /\ \A d \in Callers : CallerOK(caller[d])'
      BY <1>1, <3>1, <3>2, <3>3, OneCallerMoves
    <3>5. QED BY <3>1, <3>4 DEF Inductive, TypeOK, SingleFlight
  <2>2. CASE cache = NoToken
    <3>1. Authenticate(c, 1, NoToken)
      BY <2>2 DEF Start
    <3>2. QED BY <1>1, <3>1, AuthenticateKeeps
  <2>3. QED BY <2>1, <2>2
<1>3. QED BY <1>1, <1>2 DEF Inductive, TypeOK, RefusedNotCached

\* Retry keeps Inductive: no token is cached when the new login is awaited.
LEMMA RetryKeeps ==
  ASSUME Inductive, NEW c \in Callers, Retry(c)
  PROVE  Inductive'
<1>1. /\ caller[c].phase = "answered"
      /\ refused' = refused \cup {caller[c].token}
      /\ cache' = NoToken
      /\ Authenticate(c, 2, caller[c].token)
      /\ UNCHANGED <<issued, expired>>
  BY DEF Retry
<1>2. CallerOK(caller[c]) /\ TypeOK
  BY DEF Inductive
<1>3. caller[c].token \in 1..issued /\ caller[c].token \in Tokens
  <2>1. caller[c].token \in 1..issued
    BY <1>1, <1>2 DEF CallerOK
  <2>2. issued \in 0..MaxTokens
    BY <1>2 DEF TypeOK
  <2>3. QED BY <2>1, <2>2 DEF Tokens
<1>4. /\ inFlight' \in Callers \cup {NoCaller}
      /\ logins' \in SUBSET Callers
      /\ SingleFlight'
      /\ caller' \in [Callers -> CallerState]
      /\ \A d \in Callers : CallerOK(caller[d])'
  BY <1>1, <1>3, AuthenticateKeeps
<1>5. refused' \subseteq 1..issued' /\ refused' \in SUBSET Tokens
  BY <1>1, <1>3 DEF Inductive, TypeOK
<1>6. cache' \notin refused'
  BY <1>1, <1>5 DEF NoToken, Inductive, TypeOK
<1>7. QED
  BY <1>1, <1>4, <1>5, <1>6 DEF Inductive, TypeOK, RefusedNotCached

\* A login that is under way is the one in authInFlight.
LEMMA TheLogin ==
  ASSUME Inductive, NEW l \in logins
  PROVE  inFlight = l /\ logins = {l} /\ logins \ {l} = {}
BY DEF Inductive, SingleFlight

\* LoginSucceeds keeps Inductive: the new token is newer than any refused one.
LEMMA LoginSucceedsKeeps ==
  ASSUME Inductive, NEW l \in Callers, LoginSucceeds(l)
  PROVE  Inductive'
<1>1. /\ l \in logins
      /\ issued < MaxTokens /\ issued' = issued + 1 /\ cache' = issued'
      /\ inFlight' = NoCaller /\ logins' = logins \ {l}
      /\ UNCHANGED <<expired, refused>>
      /\ caller' = [c \in Callers |->
           IF caller[c].phase = "wait" /\ caller[c].login = l
           THEN Resumed(caller[c], issued') ELSE caller[c]]
  BY DEF LoginSucceeds
<1>2. issued \in Nat /\ MaxTokens \in Nat /\ TypeOK
  BY DEF Inductive, TypeOK
<1>3. issued' \in 0..MaxTokens /\ issued' \in Tokens /\ issued' \in 1..issued'
  BY <1>1, <1>2 DEF Tokens
<1>4. logins' = {}
  BY <1>1, TheLogin
<1>5. ASSUME NEW d \in Callers
      PROVE  caller'[d] \in CallerState /\ CallerOK(caller[d])'
  <2>1. CallerOK(caller[d]) /\ caller[d] \in CallerState
    BY DEF Inductive, TypeOK
  <2>2. CASE caller[d].phase = "wait"
    <3>1. caller[d].login = l
      BY <1>1, <2>1, <2>2, TheLogin DEF CallerOK
    <3> DEFINE r == Resumed(caller[d], issued')
    <3>2. caller'[d] = r
      BY <1>1, <2>2, <3>1
    <3>3. PICK a \in 1..2, f \in Tokens \cup {NoToken} :
            /\ a = 2 => f \in 1..issued
            /\ r = Calling(a, f, issued')
      <4>1. CASE caller[d].attempt = 1
        BY <1>3, <4>1 DEF Resumed
      <4>2. CASE caller[d].attempt = 2
        <5>1. caller[d].first \in 1..issued
          BY <2>1, <2>2, <4>2 DEF CallerOK
        <5>2. caller[d].first \in Tokens \cup {NoToken}
          BY <1>2, CallerFields
        <5>3. r = Calling(2, caller[d].first, issued')
          BY <4>2 DEF Resumed
        <5>4. QED BY <5>1, <5>2, <5>3
      <4>3. QED BY <1>2, <4>1, <4>2, CallerFields
    <3>4. /\ r \in CallerState /\ r.phase = "call" /\ r.attempt = a
          /\ r.first = f /\ r.token = issued'
      BY <1>3, <3>3 DEF Calling, At, CallerState
    <3> HIDE DEF r
    <3>5. a = 2 => f < issued'
      BY <1>1, <1>2, <3>3
    <3>6. QED BY <1>3, <3>2, <3>4, <3>5 DEF CallerOK
  <2>3. CASE caller[d].phase # "wait"
    <3>1. caller'[d] = caller[d]
      BY <1>1, <2>3
    <3>2. 1..issued \subseteq 1..issued'
      BY <1>1, <1>2
    <3>3. QED BY <2>1, <2>3, <3>1, <3>2 DEF CallerOK
  <2>4. QED BY <2>2, <2>3
<1>6. caller' \in [Callers -> CallerState]
  BY <1>1, <1>5
<1>7. refused' \subseteq 1..issued' /\ cache' \notin refused'
  BY <1>1, <1>2 DEF Inductive
<1>8. TypeOK'
  BY <1>1, <1>2, <1>3, <1>4, <1>6 DEF TypeOK
<1>9. QED
  BY <1>1, <1>3, <1>4, <1>5, <1>7, <1>8
  DEF Inductive, SingleFlight, RefusedNotCached

\* LoginFails keeps Inductive: nobody is left waiting for it.
LEMMA LoginFailsKeeps ==
  ASSUME Inductive, NEW l \in Callers, LoginFails(l)
  PROVE  Inductive'
<1> DEFINE idle == Idle
<1>1. /\ l \in logins
      /\ inFlight' = NoCaller /\ logins' = logins \ {l}
      /\ UNCHANGED <<cache, issued, expired, refused>>
      /\ caller' = [c \in Callers |->
           IF caller[c].phase = "wait" /\ caller[c].login = l
           THEN idle ELSE caller[c]]
  BY DEF LoginFails
<1>2. idle \in CallerState /\ idle.phase = "idle"
  BY DEF Idle, At, CallerState
<1> HIDE DEF idle
<1>3. logins' = {}
  BY <1>1, TheLogin
<1>4. ASSUME NEW d \in Callers
      PROVE  caller'[d] \in CallerState /\ CallerOK(caller[d])'
  <2>1. CallerOK(caller[d]) /\ caller[d] \in CallerState
    BY DEF Inductive, TypeOK
  <2>2. CASE caller[d].phase = "wait"
    <3>1. caller[d].login = l
      BY <1>1, <2>1, <2>2, TheLogin DEF CallerOK
    <3>2. caller'[d] = idle
      BY <1>1, <2>2, <3>1
    <3>3. QED BY <1>2, <3>2 DEF CallerOK
  <2>3. CASE caller[d].phase # "wait"
    <3>1. caller'[d] = caller[d]
      BY <1>1, <2>3
    <3>2. QED BY <1>1, <2>1, <2>3, <3>1 DEF CallerOK
  <2>4. QED BY <2>2, <2>3
<1>5. caller' \in [Callers -> CallerState]
  BY <1>1, <1>4
<1>6. TypeOK'
  BY <1>1, <1>3, <1>5 DEF TypeOK, Inductive
<1>7. QED
  BY <1>1, <1>3, <1>4, <1>6 DEF Inductive, SingleFlight, RefusedNotCached

\* The steps of one caller that only move it back to idle keep Inductive.
LEMMA BackToIdleKeeps ==
  ASSUME Inductive, NEW c \in Callers, CallFails(c) \/ Return(c)
  PROVE  Inductive'
<1> DEFINE r == Idle
<1>1. Goto(c, r) /\ UNCHANGED <<cache, inFlight, logins, issued, expired, refused>>
  BY DEF CallFails, Return
<1>2. r \in CallerState /\ r.phase = "idle"
  BY DEF Idle, At, CallerState
<1> HIDE DEF r
<1>3. /\ caller' \in [Callers -> CallerState]
      /\ \A d \in Callers : CallerOK(caller[d])'
  BY <1>1, <1>2, OneCallerMoves
<1>4. QED
  BY <1>1, <1>3 DEF Inductive, TypeOK, SingleFlight, RefusedNotCached

\* Hinova's answer keeps Inductive.
LEMMA ServeKeeps ==
  ASSUME Inductive, NEW c \in Callers, Serve(c)
  PROVE  Inductive'
<1>1. PICK s \in {"ok", "401"} : Goto(c, Answered(c, s))
  BY DEF Serve
<1>2. /\ caller[c].phase = "call"
      /\ UNCHANGED <<cache, inFlight, logins, issued, expired, refused>>
  BY DEF Serve
<1> DEFINE r == Answered(c, s)
<1>3. caller[c].token \in 1..issued
  BY <1>2 DEF Inductive, CallerOK
<1>4. TypeOK
  BY DEF Inductive
<1>5. r \in CallerState /\ r.phase = "answered" /\ r.token = caller[c].token
  BY <1>4, CallerFields DEF Answered, At, CallerState
<1>6. Goto(c, r)
  BY <1>1
<1> HIDE DEF r
<1>7. /\ caller' \in [Callers -> CallerState]
      /\ \A d \in Callers : CallerOK(caller[d])'
  BY <1>2, <1>3, <1>5, <1>6, OneCallerMoves
<1>8. QED
  BY <1>2, <1>7 DEF Inductive, TypeOK, SingleFlight, RefusedNotCached

\* A token that lapses keeps Inductive.
LEMMA ExpireKeeps ==
  ASSUME Inductive, NEW t \in Tokens, Expire(t)
  PROVE  Inductive'
BY DEF Expire, Inductive, TypeOK, SingleFlight, RefusedNotCached, CallerOK

\* Inductive is inductive.
THEOREM InductiveHolds == Spec => []Inductive
<1>1. Init => Inductive
  BY InitInductive
<1>2. Inductive /\ [Next]_vars => Inductive'
  <2> SUFFICES ASSUME Inductive, [Next]_vars PROVE Inductive'
    OBVIOUS
  <2>1. ASSUME NEW c \in Callers, Start(c) PROVE Inductive'
    BY <2>1, StartKeeps
  <2>2. ASSUME NEW c \in Callers, Login(c) PROVE Inductive'
    BY <2>2, LoginSucceedsKeeps, LoginFailsKeeps DEF Login
  <2>3. ASSUME NEW c \in Callers, Answer(c) PROVE Inductive'
    BY <2>3, ServeKeeps, BackToIdleKeeps DEF Answer
  <2>4. ASSUME NEW c \in Callers, Resume(c) PROVE Inductive'
    BY <2>4, RetryKeeps, BackToIdleKeeps DEF Resume
  <2>5. ASSUME NEW t \in Tokens, Expire(t) PROVE Inductive'
    BY <2>5, ExpireKeeps
  <2>6. CASE UNCHANGED vars
    BY <2>6
    DEF vars, Inductive, TypeOK, SingleFlight, RefusedNotCached, CallerOK
  <2>7. QED
    BY <2>1, <2>2, <2>3, <2>4, <2>5, <2>6 DEF Next
<1>3. QED BY <1>1, <1>2, PTL DEF Spec

-----------------------------------------------------------------------------
\* Every variable of SgaAuthService keeps its type.
THEOREM TypeCorrect == Spec => []TypeOK
<1>1. Inductive => TypeOK
  BY DEF Inductive
<1>2. QED BY <1>1, InductiveHolds, PTL

\* However many callers are answered 401 together, one login is in flight and
\* authInFlight holds exactly it (getUserToken).
THEOREM OneLogin == Spec => []SingleFlight
<1>1. Inductive => SingleFlight
  BY DEF Inductive
<1>2. QED BY <1>1, InductiveHolds, PTL

\* executeWithAuth never repeats a call with the token refused, or an older one.
THEOREM RetriesAreNewer == Spec => []RetryIsNewer
<1>1. Inductive => RetryIsNewer
  BY DEF Inductive, RetryIsNewer, CallerOK
<1>2. QED BY <1>1, InductiveHolds, PTL

\* A token that was refused and invalidated never returns to userTokenCache.
THEOREM RefusedStaysOut == Spec => []RefusedNotCached
<1>1. Inductive => RefusedNotCached
  BY DEF Inductive
<1>2. QED BY <1>1, InductiveHolds, PTL

USE TrackersAssumption DEF Logica!LogicaAuthAssumption, M7!M7SessionAssumption

-----------------------------------------------------------------------------
(* LogicaAuth *)

\* The initial state is in order.
LEMMA LogicaInit == Logica!Init => Logica!Inductive
<1> SUFFICES ASSUME Logica!Init PROVE Logica!Inductive
  OBVIOUS
<1>1. PICK b \in Bases : user = [c \in TrackerCallers |->
        Logica!At("idle", b, 1, Logica!EnvToken, Logica!EnvToken, "none")]
  BY DEF Logica!Init
<1>2. Logica!TypeOK
  BY <1>1 DEF Logica!Init, Logica!TypeOK, Logica!CallerState, Logica!At, Logica!Tokens,
              Logica!EnvToken, Logica!NoLogin, Logica!TotalTentativas, Logica!NoSession
<1>3. \A d \in Bases : tokenCache[d] <= opened
  BY DEF Logica!Init, Logica!EnvToken
<1>4. \A c \in TrackerCallers : Logica!CallerOK(user[c])
  BY <1>1 DEF Logica!Init, Logica!CallerOK, Logica!At, Logica!EnvToken
<1>5. QED BY <1>2, <1>3, <1>4 DEF Logica!Inductive

\* A step of one call keeps every call in order, if its record is in order and
\* no login ends.
LEMMA LogicaCallMoves ==
  ASSUME Logica!Inductive, NEW c \in TrackerCallers, NEW r \in Logica!CallerState,
         Logica!Goto(c, r), opened' = opened,
         \A b \in Bases : login[b].phase # "none" => login'[b].phase # "none",
         r.first <= opened, r.token <= opened,
         r.attempt = 2 => r.first < r.token,
         r.phase = "wait" => login'[r.base].phase # "none"
  PROVE  /\ user' \in [TrackerCallers -> Logica!CallerState]
         /\ \A d \in TrackerCallers : Logica!CallerOK(user[d])'
<1>1. user \in [TrackerCallers -> Logica!CallerState]
  BY DEF Logica!Inductive, Logica!TypeOK
<1>2. user' = [user EXCEPT ![c] = r]
  BY DEF Logica!Goto
<1>3. user' \in [TrackerCallers -> Logica!CallerState]
  BY <1>1, <1>2
<1>4. ASSUME NEW d \in TrackerCallers PROVE Logica!CallerOK(user[d])'
  <2>1. CASE d = c
    BY <1>1, <1>2, <2>1 DEF Logica!CallerOK
  <2>2. CASE d # c
    <3>1. user'[d] = user[d] /\ user[d].base \in Bases
      BY <1>1, <1>2, <2>2 DEF Logica!CallerState
    <3>2. Logica!CallerOK(user[d])
      BY DEF Logica!Inductive
    <3>3. QED BY <3>1, <3>2 DEF Logica!CallerOK
  <2>3. QED BY <2>1, <2>2
<1>5. QED BY <1>3, <1>4

\* The fields of a call, and how old its tokens are.
LEMMA LogicaFields ==
  ASSUME Logica!Inductive, NEW c \in TrackerCallers
  PROVE  /\ user[c] \in Logica!CallerState
         /\ user[c].phase \in {"idle", "call", "answered", "wait"}
         /\ user[c].base \in Bases
         /\ user[c].attempt \in 1..2
         /\ user[c].first \in Logica!Tokens /\ user[c].first <= opened
         /\ user[c].token \in Logica!Tokens /\ user[c].token <= opened
         /\ user[c].answer \in {"none", "served", "refused"}
         /\ user[c].attempt = 2 => user[c].first < user[c].token
         /\ user[c].phase = "wait" => login[user[c].base].phase # "none"
BY DEF Logica!Inductive, Logica!TypeOK, Logica!CallerState, Logica!CallerOK

\* A new call takes the cached token, which is no newer than the last one issued.
LEMMA LogicaStart ==
  ASSUME Logica!Inductive, NEW c \in TrackerCallers, NEW b \in Bases,
         Logica!Start(c, b)
  PROVE  Logica!Inductive'
<1> DEFINE r == Logica!At("call", b, 1, tokenCache[b], tokenCache[b], "none")
<1>1. tokenCache[b] \in Logica!Tokens /\ tokenCache[b] <= opened
  BY DEF Logica!Inductive, Logica!TypeOK
<1>2. /\ r \in Logica!CallerState
      /\ r.first <= opened /\ r.token <= opened /\ r.attempt = 1 /\ r.phase = "call"
  BY <1>1 DEF Logica!At, Logica!CallerState
<1>3. Logica!Goto(c, r) /\ UNCHANGED <<tokenCache, login, session, opened, lapses>>
  BY DEF Logica!Start
<1> HIDE DEF r
<1>4. /\ user' \in [TrackerCallers -> Logica!CallerState]
      /\ \A d \in TrackerCallers : Logica!CallerOK(user[d])'
  BY <1>2, <1>3, LogicaCallMoves
<1>5. QED BY <1>3, <1>4 DEF Logica!Inductive, Logica!TypeOK

\* An answer, and the end of a call, change neither its tokens nor its attempt.
LEMMA LogicaSamePlace ==
  ASSUME Logica!Inductive, NEW c \in TrackerCallers,
         Logica!Serve(c) \/ Logica!CallFails(c) \/ Logica!Return(c)
  PROVE  Logica!Inductive'
<1>1. PICK p \in {"idle", "answered"}, a \in {"none", "served", "refused"} :
        Logica!Goto(c, [user[c] EXCEPT !.phase = p, !.answer = a])
  <2>1. [user[c] EXCEPT !.phase = "idle"]
          = [user[c] EXCEPT !.phase = "idle", !.answer = user[c].answer]
    BY LogicaFields DEF Logica!CallerState
  <2>2. QED
    BY <2>1, LogicaFields DEF Logica!Serve, Logica!CallFails, Logica!Return, Logica!Answered
<1> DEFINE r == [user[c] EXCEPT !.phase = p, !.answer = a]
<1>2. /\ r \in Logica!CallerState
      /\ r.phase = p /\ r.attempt = user[c].attempt
      /\ r.first = user[c].first /\ r.token = user[c].token
  BY LogicaFields DEF Logica!CallerState
<1>3. UNCHANGED <<tokenCache, login, session, opened, lapses>>
  BY DEF Logica!Serve, Logica!CallFails, Logica!Return
<1>4. Logica!Goto(c, r)
  BY <1>1
<1> HIDE DEF r
<1>5. /\ user' \in [TrackerCallers -> Logica!CallerState]
      /\ \A d \in TrackerCallers : Logica!CallerOK(user[d])'
  BY <1>2, <1>3, <1>4, LogicaFields, LogicaCallMoves
<1>6. QED BY <1>3, <1>5 DEF Logica!Inductive, Logica!TypeOK

\* A refused call joins the login of its base or starts it: it waits for a login.
LEMMA LogicaRenovarToken ==
  ASSUME Logica!Inductive, NEW c \in TrackerCallers, Logica!RenovarToken(c)
  PROVE  Logica!Inductive'
<1> DEFINE b == user[c].base
           r == Logica!At("wait", b, 1, user[c].first, user[c].token, "none")
<1>1. b \in Bases /\ login \in [Bases -> [phase : {"none", "post", "backoff"},
                                          attempt : 1..Logica!TotalTentativas]]
  BY LogicaFields DEF Logica!Inductive, Logica!TypeOK
<1>2. /\ r \in Logica!CallerState
      /\ r.first <= opened /\ r.token <= opened
      /\ r.attempt = 1 /\ r.base = b
  BY LogicaFields DEF Logica!At, Logica!CallerState
<1>3. Logica!Goto(c, r) /\ UNCHANGED <<tokenCache, session, opened, lapses>>
  BY DEF Logica!RenovarToken
<1>4. /\ login' \in [Bases -> [phase : {"none", "post", "backoff"},
                               attempt : 1..Logica!TotalTentativas]]
      /\ login'[b].phase # "none"
      /\ \A d \in Bases : login[d].phase # "none" => login'[d].phase # "none"
  BY <1>1 DEF Logica!RenovarToken, Logica!Posting, Logica!TotalTentativas
<1> HIDE DEF r
<1>5. /\ user' \in [TrackerCallers -> Logica!CallerState]
      /\ \A d \in TrackerCallers : Logica!CallerOK(user[d])'
  BY <1>2, <1>3, <1>4, LogicaCallMoves
<1>6. QED BY <1>3, <1>4, <1>5 DEF Logica!Inductive, Logica!TypeOK

\* A login that succeeds gives everybody who waits for it a token above all that
\* were issued, and so above the one each was refused with.
LEMMA LogicaLoginSucceeds ==
  ASSUME Logica!Inductive, NEW b \in Bases, Logica!LoginSucceeds(b)
  PROVE  Logica!Inductive'
<1>1. /\ opened \in Logica!Tokens /\ opened' = opened + 1 /\ opened' \in Logica!Tokens
      /\ session' = opened' /\ lapses' = lapses
  BY DEF Logica!LoginSucceeds, Logica!NewSession, Logica!Inductive, Logica!TypeOK,
         Logica!Tokens
<1>2. /\ tokenCache' \in [Bases -> Logica!Tokens]
      /\ \A d \in Bases : tokenCache'[d] <= opened'
  <2>1. tokenCache' = [tokenCache EXCEPT ![b] = opened']
    BY DEF Logica!LoginSucceeds
  <2>2. tokenCache \in [Bases -> Logica!Tokens] /\ \A d \in Bases : tokenCache[d] <= opened
    BY DEF Logica!Inductive, Logica!TypeOK
  <2>3. QED BY <1>1, <2>1, <2>2 DEF Logica!Tokens
<1>3. /\ login' \in [Bases -> [phase : {"none", "post", "backoff"},
                               attempt : 1..Logica!TotalTentativas]]
      /\ \A d \in Bases : d # b => login'[d] = login[d]
  BY DEF Logica!LoginSucceeds, Logica!NoLogin, Logica!TotalTentativas, Logica!Inductive,
         Logica!TypeOK
<1>4. ASSUME NEW c \in TrackerCallers
      PROVE  user'[c] \in Logica!CallerState /\ Logica!CallerOK(user[c])'
  <2>1. CASE Logica!Awaits(c, b)
    <3>1. user'[c] = Logica!At("call", b, 2, user[c].first, opened', "none")
      BY <2>1 DEF Logica!LoginSucceeds
    <3>2. user[c].first < opened' /\ user[c].first \in Logica!Tokens
      BY <1>1, LogicaFields DEF Logica!Tokens
    <3>3. QED BY <1>1, <3>1, <3>2 DEF Logica!At, Logica!CallerState, Logica!CallerOK, Logica!Tokens
  <2>2. CASE ~ Logica!Awaits(c, b)
    <3>1. user'[c] = user[c]
      BY <2>2 DEF Logica!LoginSucceeds
    <3>2. user[c].first <= opened' /\ user[c].token <= opened'
      BY <1>1, LogicaFields DEF Logica!Tokens
    <3>3. user[c].phase = "wait" => login'[user[c].base].phase # "none"
      BY <1>3, <2>2, LogicaFields DEF Logica!Awaits
    <3>4. QED BY <3>1, <3>2, <3>3, LogicaFields DEF Logica!CallerOK
  <2>3. QED BY <2>1, <2>2
<1>5. user' \in [TrackerCallers -> Logica!CallerState]
  BY <1>4 DEF Logica!LoginSucceeds
<1>6. QED BY <1>1, <1>2, <1>3, <1>4, <1>5 DEF Logica!Inductive, Logica!TypeOK

\* An attempt without an answer may have opened a session; the callers go on
\* waiting, or, after the last one, all throw.
LEMMA LogicaLoginUnanswered ==
  ASSUME Logica!Inductive, NEW b \in Bases, Logica!LoginUnanswered(b)
  PROVE  Logica!Inductive'
<1>1. /\ opened \in Logica!Tokens /\ opened' \in Logica!Tokens /\ opened <= opened'
      /\ session' \in Logica!Tokens \cup {Logica!NoSession}
      /\ lapses' = lapses /\ tokenCache' = tokenCache
  BY DEF Logica!LoginUnanswered, Logica!NewSession, Logica!Inductive, Logica!TypeOK,
         Logica!Tokens
<1>2. /\ login' \in [Bases -> [phase : {"none", "post", "backoff"},
                               attempt : 1..Logica!TotalTentativas]]
      /\ \A d \in Bases : d # b => login'[d] = login[d]
  <2>1. login \in [Bases -> [phase : {"none", "post", "backoff"},
                             attempt : 1..Logica!TotalTentativas]]
    BY DEF Logica!Inductive, Logica!TypeOK
  <2>2. CASE login[b].attempt < Logica!TotalTentativas
    <3>1. login' = [login EXCEPT ![b] = Logica!Backoff(login[b].attempt + 1)]
      BY <2>2 DEF Logica!LoginUnanswered
    <3>2. Logica!Backoff(login[b].attempt + 1)
            \in [phase : {"none", "post", "backoff"}, attempt : 1..Logica!TotalTentativas]
      BY <2>1, <2>2 DEF Logica!Backoff, Logica!TotalTentativas
    <3>3. QED BY <2>1, <3>1, <3>2
  <2>3. CASE ~ (login[b].attempt < Logica!TotalTentativas)
    BY <2>1, <2>3 DEF Logica!LoginUnanswered, Logica!LoginGivesUp, Logica!NoLogin,
                      Logica!TotalTentativas
  <2>4. QED BY <2>2, <2>3
<1>3. ASSUME NEW c \in TrackerCallers
      PROVE  user'[c] \in Logica!CallerState /\ Logica!CallerOK(user[c])'
  <2>1. user[c].first <= opened' /\ user[c].token <= opened'
    BY <1>1, LogicaFields DEF Logica!Tokens
  <2>2. CASE user'[c] = user[c] /\ login'[b].phase # "none"
    BY <1>2, <2>1, <2>2, LogicaFields DEF Logica!CallerOK
  <2>3. CASE Logica!LoginGivesUp(b)
    <3>1. CASE Logica!Awaits(c, b)
      <4>1. user'[c] = [user[c] EXCEPT !.phase = "idle"]
        BY <2>3, <3>1 DEF Logica!LoginGivesUp
      <4>2. /\ user'[c] \in Logica!CallerState
            /\ user'[c].phase = "idle" /\ user'[c].attempt = user[c].attempt
            /\ user'[c].first = user[c].first /\ user'[c].token = user[c].token
        BY <4>1, LogicaFields DEF Logica!CallerState
      <4>3. QED BY <2>1, <4>2, LogicaFields DEF Logica!CallerOK
    <3>2. CASE ~ Logica!Awaits(c, b)
      <4>1. user'[c] = user[c]
        BY <2>3, <3>2 DEF Logica!LoginGivesUp
      <4>2. user[c].phase = "wait" => login'[user[c].base].phase # "none"
        BY <1>2, <3>2, LogicaFields DEF Logica!Awaits
      <4>3. QED BY <2>1, <4>1, <4>2, LogicaFields DEF Logica!CallerOK
    <3>3. QED BY <3>1, <3>2
  <2>4. \/ user'[c] = user[c] /\ login'[b].phase # "none"
        \/ Logica!LoginGivesUp(b)
    BY DEF Logica!LoginUnanswered, Logica!Backoff, Logica!Inductive, Logica!TypeOK
  <2>5. QED BY <2>2, <2>3, <2>4
<1>4. user' \in [TrackerCallers -> Logica!CallerState]
  <2>1. user \in [TrackerCallers -> Logica!CallerState]
    BY DEF Logica!Inductive, Logica!TypeOK
  <2>2. CASE Logica!LoginGivesUp(b)
    BY <1>3, <2>2 DEF Logica!LoginGivesUp
  <2>3. CASE user' = user
    BY <2>1, <2>3
  <2>4. QED BY <2>2, <2>3 DEF Logica!LoginUnanswered
<1>5. \A d \in Bases : tokenCache'[d] <= opened'
  BY <1>1 DEF Logica!Inductive, Logica!TypeOK, Logica!Tokens
<1>6. QED BY <1>1, <1>2, <1>3, <1>4, <1>5 DEF Logica!Inductive, Logica!TypeOK

\* The pause before an attempt ends, or the provider ends a session: the login
\* under way stays under way.
LEMMA LogicaTime ==
  ASSUME Logica!Inductive, Logica!Lapse \/ \E b \in Bases : Logica!BackoffEnds(b)
  PROVE  Logica!Inductive'
<1>1. /\ login' \in [Bases -> [phase : {"none", "post", "backoff"},
                               attempt : 1..Logica!TotalTentativas]]
      /\ \A d \in Bases : login[d].phase # "none" => login'[d].phase # "none"
  BY SMTT(30) DEF Logica!Lapse, Logica!BackoffEnds, Logica!Inductive, Logica!TypeOK
<1>2. UNCHANGED <<tokenCache, opened, user>>
  BY DEF Logica!Lapse, Logica!BackoffEnds
<1>3. session' \in Logica!Tokens \cup {Logica!NoSession} /\ lapses' \in 0..MaxLapses
  BY DEF Logica!Lapse, Logica!BackoffEnds, Logica!Inductive, Logica!TypeOK
<1>4. ASSUME NEW c \in TrackerCallers PROVE Logica!CallerOK(user[c])'
  BY <1>1, <1>2, LogicaFields DEF Logica!CallerOK
<1>5. QED BY <1>1, <1>2, <1>3, <1>4 DEF Logica!Inductive, Logica!TypeOK

\* Every step of LogicaAuth keeps its invariant.
LEMMA LogicaNext ==
  Logica!Inductive /\ [Logica!Next]_Logica!vars => Logica!Inductive'
<1> SUFFICES ASSUME Logica!Inductive, [Logica!Next]_Logica!vars
             PROVE  Logica!Inductive'
  OBVIOUS
<1>1. CASE UNCHANGED Logica!vars
  BY <1>1 DEF Logica!vars, Logica!Inductive, Logica!TypeOK, Logica!CallerOK
<1>2. CASE Logica!Next
  BY <1>2, LogicaStart, LogicaSamePlace, LogicaRenovarToken, LogicaLoginSucceeds,
     LogicaLoginUnanswered, LogicaTime
     DEF Logica!Next, Logica!Answer, Logica!Resume, Logica!Login
<1>3. QED BY <1>1, <1>2

\* What the invariant says to a caller: LogicaAuth's promises.
LEMMA LogicaPromises ==
  Logica!Inductive => Logica!TypeOK /\ Logica!RetryIsNewer /\ Logica!NoneWaitsInVain
BY DEF Logica!Inductive, Logica!RetryIsNewer, Logica!NoneWaitsInVain, Logica!CallerOK

\* LogicaAuth: however callers, logins, backoffs and lapses interleave, a second
\* attempt goes out with a newer token than the refused one, and nobody waits for
\* a login that authEmVoo no longer holds.
THEOREM LogicaIsSafe ==
  Logica!Spec => [](Logica!TypeOK /\ Logica!RetryIsNewer /\ Logica!NoneWaitsInVain)
BY LogicaInit, LogicaNext, LogicaPromises, PTL DEF Logica!Spec

-----------------------------------------------------------------------------
(* M7Session *)

\* The initial state, and that of an instance that does not run, are in order.
LEMMA M7Init == M7!Init \/ M7Off => M7!Inductive
<1> SUFFICES ASSUME M7!Init \/ M7Off PROVE M7!Inductive
  OBVIOUS
<1>1. M7!Idle \in M7!CallerState /\ M7!CallerOK(M7!Idle)
  BY DEF M7!Idle, M7!At, M7!CallerState, M7!CallerOK, M7!Services, M7!Held
<1>2. m7Caller = [c \in TrackerCallers |-> M7!Idle]
  BY DEF M7!Init, M7Off
<1>3. process \in {"booting", "down"} /\ boots \in Nat /\ m7 = "up"
  BY DEF M7!Init, M7Off
<1>4. /\ hasToken = [s \in M7!Services |-> FALSE]
      /\ \/ renewal = [s \in M7!Services |-> "boot"]
         \/ renewal = [s \in M7!Services |-> "none"]
  BY DEF M7!Init, M7Off
<1>5. M7!TypeOK
  BY <1>1, <1>2, <1>3, <1>4 DEF M7!TypeOK
<1>6. QED BY <1>1, <1>2, <1>5 DEF M7!Inductive

\* The fields of a call, and what its tokens are.
LEMMA M7Fields ==
  ASSUME M7!Inductive, NEW c \in TrackerCallers
  PROVE  /\ m7Caller[c] \in M7!CallerState
         /\ m7Caller[c].phase \in {"idle", "call", "wait"}
         /\ m7Caller[c].service \in M7!Services
         /\ m7Caller[c].attempt \in 1..2
         /\ m7Caller[c].token \in M7!Held /\ m7Caller[c].refused \in M7!Held
         /\ M7!CallerOK(m7Caller[c])
BY DEF M7!Inductive, M7!TypeOK, M7!CallerState

\* A call that has not begun is in order whatever is being renewed.
LEMMA M7IdleOK == M7!Idle \in M7!CallerState /\ M7!CallerOK(M7!Idle) /\ M7!CallerOK(M7!Idle)'
BY DEF M7!Idle, M7!At, M7!CallerState, M7!CallerOK, M7!Services, M7!Held

\* A step of one call keeps every call in order, if its record is in order and
\* no renewal ends.
LEMMA M7CallMoves ==
  ASSUME M7!Inductive, NEW c \in TrackerCallers, NEW r \in M7!CallerState,
         M7!Set(c, r), M7!CallerOK(r)',
         \A s \in M7!Services : renewal[s] # "none" => renewal'[s] # "none"
  PROVE  /\ m7Caller' \in [TrackerCallers -> M7!CallerState]
         /\ \A d \in TrackerCallers : M7!CallerOK(m7Caller[d])'
<1>1. m7Caller \in [TrackerCallers -> M7!CallerState]
  BY DEF M7!Inductive, M7!TypeOK
<1>2. m7Caller' = [m7Caller EXCEPT ![c] = r]
  BY DEF M7!Set
<1>3. ASSUME NEW d \in TrackerCallers PROVE M7!CallerOK(m7Caller[d])'
  <2>1. CASE d = c
    BY <1>1, <1>2, <2>1 DEF M7!CallerOK
  <2>2. CASE d # c
    BY <1>1, <1>2, <2>2, M7Fields DEF M7!CallerOK
  <2>3. QED BY <2>1, <2>2
<1>4. QED BY <1>1, <1>2, <1>3

\* The beginning and the end of a call, and a first refusal, which leaves its caller
\* with a renewal to wait for.
LEMMA M7Call ==
  ASSUME M7!Inductive, NEW c \in TrackerCallers,
         M7!Return(c) \/ M7!Refused(c) \/ \E s \in M7!Services : M7!Start(c, s)
  PROVE  M7!Inductive'
<1>1. renewal \in [M7!Services -> {"none", "boot", "timer", "call"}]
  BY DEF M7!Inductive, M7!TypeOK
<1>2. /\ renewal' \in [M7!Services -> {"none", "boot", "timer", "call"}]
      /\ \A s \in M7!Services : renewal[s] # "none" => renewal'[s] # "none"
  BY <1>1, M7Fields DEF M7!Return, M7!Refused, M7!Start
<1>3. PICK r \in M7!CallerState : M7!Set(c, r) /\ M7!CallerOK(r)'
  <2>1. CASE M7!Return(c)
    BY <2>1, M7IdleOK DEF M7!Return
  <2>2. CASE M7!Refused(c)
    <3>1. PICK r \in M7!CallerState :
            r = [m7Caller[c] EXCEPT !.phase = "wait", !.refused = m7Caller[c].token]
      BY M7Fields DEF M7!CallerState
    <3>2. /\ r.phase = "wait" /\ r.attempt = m7Caller[c].attempt
          /\ r.refused = m7Caller[c].token /\ r.service = m7Caller[c].service
      BY <3>1, M7Fields DEF M7!CallerState
    <3>3. m7Caller[c].attempt = 1 /\ m7Caller[c].token # "none"
      BY <2>2, M7Fields DEF M7!Refused, M7!CallerOK
    <3>4. renewal'[m7Caller[c].service] # "none"
      BY <1>1, <2>2, M7Fields DEF M7!Refused
    <3>5. M7!CallerOK(r)'
      BY <3>2, <3>3, <3>4 DEF M7!CallerOK
    <3>6. M7!Set(c, r)
      BY <2>2, <3>1 DEF M7!Refused
    <3>7. QED BY <3>5, <3>6
  <2>3. ASSUME NEW s \in M7!Services, M7!Start(c, s)
        PROVE  \E r \in M7!CallerState : M7!Set(c, r) /\ M7!CallerOK(r)'
    <3>1. /\ M7!At("call", s, 1, "current", "none") \in M7!CallerState
          /\ M7!CallerOK(M7!At("call", s, 1, "current", "none"))'
      BY DEF M7!At, M7!CallerState, M7!CallerOK, M7!Held
    <3>2. QED BY <2>3, <3>1 DEF M7!Start
  <2>4. QED BY <2>1, <2>2, <2>3
<1>4. /\ m7Caller' \in [TrackerCallers -> M7!CallerState]
      /\ \A d \in TrackerCallers : M7!CallerOK(m7Caller[d])'
  BY <1>2, <1>3, M7CallMoves
<1>5. UNCHANGED <<process, boots, m7, hasToken>>
  BY DEF M7!Return, M7!Refused, M7!Start
<1>6. QED BY <1>2, <1>4, <1>5 DEF M7!Inductive, M7!TypeOK

\* A login replaces the token of its class: what its calls hold has grown old, and
\* those that waited hold the new one.
LEMMA M7LoginSucceeds ==
  ASSUME M7!Inductive, NEW s \in M7!Services, M7!LoginSucceeds(s)
  PROVE  M7!Inductive'
<1>1. /\ hasToken' \in [M7!Services -> BOOLEAN]
      /\ renewal' \in [M7!Services -> {"none", "boot", "timer", "call"}]
      /\ \A t \in M7!Services : t # s => renewal'[t] = renewal[t]
      /\ UNCHANGED <<process, boots, m7>>
  BY DEF M7!LoginSucceeds, M7!Inductive, M7!TypeOK
<1>2. ASSUME NEW c \in TrackerCallers
      PROVE  m7Caller'[c] \in M7!CallerState /\ M7!CallerOK(m7Caller[c])'
  <2> DEFINE r == m7Caller[c]
  <2>1. CASE r.service # s
    <3>1. m7Caller'[c] = r
      BY <2>1 DEF M7!LoginSucceeds
    <3>2. QED BY <1>1, <2>1, <3>1, M7Fields DEF M7!CallerOK
  <2>2. CASE r.service = s /\ r.phase = "wait"
    <3>1. m7Caller'[c] = M7!At("call", s, 2, "current", M7!Aged(r.refused))
      BY <2>2 DEF M7!LoginSucceeds
    <3>2. M7!Aged(r.refused) = "old"
      BY <2>2, M7Fields DEF M7!Aged, M7!CallerOK, M7!Held
    <3>3. QED BY <3>1, <3>2 DEF M7!At, M7!CallerState, M7!CallerOK, M7!Held
  <2>3. CASE r.service = s /\ r.phase # "wait"
    <3>1. m7Caller'[c] = [r EXCEPT !.token = M7!Aged(r.token), !.refused = M7!Aged(r.refused)]
      BY <2>3 DEF M7!LoginSucceeds
    <3>2. /\ M7!Aged(r.token) \in M7!Held /\ M7!Aged(r.refused) \in M7!Held
          /\ r.token # "none" => M7!Aged(r.token) # "none"
          /\ r.refused = "old" => M7!Aged(r.refused) = "old"
      BY M7Fields DEF M7!Aged, M7!Held
    <3>3. /\ m7Caller'[c] \in M7!CallerState
          /\ m7Caller'[c].phase = r.phase /\ m7Caller'[c].attempt = r.attempt
          /\ m7Caller'[c].token = M7!Aged(r.token)
          /\ m7Caller'[c].refused = M7!Aged(r.refused)
      BY <3>1, <3>2, M7Fields DEF M7!CallerState
    <3>4. QED BY <2>3, <3>2, <3>3, M7Fields DEF M7!CallerOK
  <2>4. QED BY <2>1, <2>2, <2>3
<1>3. m7Caller' \in [TrackerCallers -> M7!CallerState]
  BY <1>2 DEF M7!LoginSucceeds
<1>4. QED BY <1>1, <1>2, <1>3 DEF M7!Inductive, M7!TypeOK

\* A login that fails ends the calls that waited for it, or the whole process.
LEMMA M7LoginFails ==
  ASSUME M7!Inductive, NEW s \in M7!Services, M7!LoginFails(s)
  PROVE  M7!Inductive'
<1>1. UNCHANGED <<boots, m7>>
  BY DEF M7!LoginFails
<1>2. CASE s = "historico" /\ renewal[s] = "boot"
  <2>1. /\ process' = "down"
        /\ hasToken' = [t \in M7!Services |-> FALSE]
        /\ renewal' = [t \in M7!Services |-> "none"]
        /\ m7Caller' = [c \in TrackerCallers |-> M7!Idle]
    BY <1>2 DEF M7!LoginFails
  <2>2. \A c \in TrackerCallers : M7!CallerOK(m7Caller[c])'
    BY <2>1, M7IdleOK DEF M7!CallerOK
  <2>3. m7Caller' \in [TrackerCallers -> M7!CallerState]
    BY <2>1, M7IdleOK
  <2>4. QED BY <1>1, <2>1, <2>2, <2>3 DEF M7!Inductive, M7!TypeOK
<1>3. CASE ~ (s = "historico" /\ renewal[s] = "boot")
  <2>1. /\ renewal' = [renewal EXCEPT ![s] = "none"]
        /\ m7Caller' = [c \in TrackerCallers |->
             IF m7Caller[c].phase = "wait" /\ m7Caller[c].service = s
             THEN M7!Idle ELSE m7Caller[c]]
        /\ UNCHANGED <<process, hasToken>>
    BY <1>3 DEF M7!LoginFails
  <2>2. /\ renewal' \in [M7!Services -> {"none", "boot", "timer", "call"}]
        /\ \A t \in M7!Services : t # s => renewal'[t] = renewal[t]
    BY <2>1 DEF M7!Inductive, M7!TypeOK
  <2>3. ASSUME NEW c \in TrackerCallers
        PROVE  m7Caller'[c] \in M7!CallerState /\ M7!CallerOK(m7Caller[c])'
    <3>1. CASE m7Caller[c].phase = "wait" /\ m7Caller[c].service = s
      BY <2>1, <3>1, M7IdleOK DEF M7!CallerOK
    <3>2. CASE ~ (m7Caller[c].phase = "wait" /\ m7Caller[c].service = s)
      BY <2>1, <2>2, <3>2, M7Fields DEF M7!CallerOK
    <3>3. QED BY <3>1, <3>2
  <2>4. m7Caller' \in [TrackerCallers -> M7!CallerState]
    BY <2>1, <2>3
  <2>5. QED BY <1>1, <2>1, <2>2, <2>3, <2>4 DEF M7!Inductive, M7!TypeOK
<1>4. QED BY <1>2, <1>3

\* A start of the process has no calls and begins both logins.
LEMMA M7Boot ==
  ASSUME M7!Inductive, M7!Boot PROVE M7!Inductive'
<1>1. /\ process' = "booting" /\ boots' \in Nat /\ m7' = m7
      /\ hasToken' = [s \in M7!Services |-> FALSE]
      /\ renewal' = [s \in M7!Services |-> "boot"]
      /\ m7Caller' = [c \in TrackerCallers |-> M7!Idle]
  BY DEF M7!Boot, M7!Booting, M7!Inductive, M7!TypeOK
<1>2. \A c \in TrackerCallers : M7!CallerOK(m7Caller[c])'
  BY <1>1, M7IdleOK DEF M7!CallerOK
<1>3. m7Caller' \in [TrackerCallers -> M7!CallerState]
  BY <1>1, M7IdleOK
<1>4. QED BY <1>1, <1>2, <1>3 DEF M7!Inductive, M7!TypeOK

\* The timers, the port and the provider take no renewal from those who wait.
LEMMA M7Environment ==
  ASSUME M7!Inductive,
         M7!Listen \/ M7!M7Stops \/ M7!M7Returns \/ \E s \in M7!Services : M7!Timer(s)
  PROVE  M7!Inductive'
<1>1. /\ renewal' \in [M7!Services -> {"none", "boot", "timer", "call"}]
      /\ \A t \in M7!Services : renewal[t] # "none" => renewal'[t] # "none"
  BY DEF M7!Listen, M7!M7Stops, M7!M7Returns, M7!Timer, M7!Inductive, M7!TypeOK
<1>2. /\ process' \in {"booting", "up", "down"} /\ m7' \in {"up", "down"}
      /\ UNCHANGED <<boots, hasToken, m7Caller>>
  BY DEF M7!Listen, M7!M7Stops, M7!M7Returns, M7!Timer, M7!Inductive, M7!TypeOK
<1>3. \A c \in TrackerCallers : M7!CallerOK(m7Caller[c])'
  BY <1>1, <1>2, M7Fields DEF M7!CallerOK
<1>4. QED BY <1>1, <1>2, <1>3 DEF M7!Inductive, M7!TypeOK

\* Every step of M7Session keeps its invariant.
LEMMA M7Next == M7!Inductive /\ [M7!Next]_M7!vars => M7!Inductive'
<1> SUFFICES ASSUME M7!Inductive, [M7!Next]_M7!vars PROVE M7!Inductive'
  OBVIOUS
<1>1. CASE UNCHANGED M7!vars
  BY <1>1 DEF M7!vars, M7!Inductive, M7!TypeOK, M7!CallerOK
<1>2. CASE M7!Next
  BY <1>2, M7Call, M7LoginSucceeds, M7LoginFails, M7Boot, M7Environment
     DEF M7!Next, M7!Login
<1>3. QED BY <1>1, <1>2

\* What the invariant says to a caller: M7Session's promises.
LEMMA M7Promises ==
  M7!Inductive => M7!TypeOK /\ M7!RetryIsNewer /\ M7!NoneWaitsInVain
BY DEF M7!Inductive, M7!RetryIsNewer, M7!NoneWaitsInVain, M7!CallerOK

\* M7Session: however calls, timers, failures of M7 and restarts interleave, no call
\* is repeated with the token that was refused, and nobody waits for a renewal that
\* tokenRenewalPromise no longer holds.
THEOREM M7IsSafe ==
  M7!Spec => [](M7!TypeOK /\ M7!RetryIsNewer /\ M7!NoneWaitsInVain)
BY M7Init, M7Next, M7Promises, PTL DEF M7!Spec

-----------------------------------------------------------------------------
(* SoftruckSession *)

\* A call that has not begun is in order whatever logs in.
LEMMA SoftruckIdleOK ==
  /\ Softruck!Idle \in Softruck!CallerState
  /\ Softruck!CallerOK(Softruck!Idle) /\ Softruck!CallerOK(Softruck!Idle)'
BY DEF Softruck!Idle, Softruck!At, Softruck!CallerState, Softruck!CallerOK,
       Softruck!Kinds, Softruck!Steps, Softruck!Held

\* The initial state is in order.
LEMMA SoftruckInit == Softruck!Init => Softruck!Inductive
<1> SUFFICES ASSUME Softruck!Init PROVE Softruck!Inductive
  OBVIOUS
<1>1. entry = "none" /\ softruckLogin = FALSE /\ cached = {} /\ calls = 0
  BY DEF Softruck!Init
<1>2. softruckCaller = [c \in TrackerCallers |-> Softruck!Idle]
  BY DEF Softruck!Init
<1>3. softruckCaller \in [TrackerCallers -> Softruck!CallerState]
  BY <1>2, SoftruckIdleOK
<1>4. QED BY <1>1, <1>2, <1>3, SoftruckIdleOK DEF Softruck!Inductive, Softruck!TypeOK

\* The fields of a call, and what its tokens are.
LEMMA SoftruckFields ==
  ASSUME Softruck!Inductive, NEW c \in TrackerCallers
  PROVE  /\ softruckCaller[c] \in Softruck!CallerState
         /\ softruckCaller[c].phase
              \in {"idle", "signin", "ready", "call", "relogin", "served", "empty"}
         /\ softruckCaller[c].kind \in Softruck!Kinds
         /\ softruckCaller[c].step \in Softruck!Steps
         /\ softruckCaller[c].attempt \in 1..2
         /\ softruckCaller[c].token \in Softruck!Held
         /\ softruckCaller[c].refused \in Softruck!Held
         /\ Softruck!CallerOK(softruckCaller[c])
BY DEF Softruck!Inductive, Softruck!TypeOK, Softruck!CallerState

\* A step of one call keeps every call in order, if its record is in order and
\* no login ends.
LEMMA SoftruckCallMoves ==
  ASSUME Softruck!Inductive, NEW c \in TrackerCallers, NEW r \in Softruck!CallerState,
         Softruck!Set(c, r), Softruck!CallerOK(r)', softruckLogin => softruckLogin'
  PROVE  /\ softruckCaller' \in [TrackerCallers -> Softruck!CallerState]
         /\ \A d \in TrackerCallers : Softruck!CallerOK(softruckCaller[d])'
<1>1. softruckCaller \in [TrackerCallers -> Softruck!CallerState]
  BY DEF Softruck!Inductive, Softruck!TypeOK
<1>2. softruckCaller' = [softruckCaller EXCEPT ![c] = r]
  BY DEF Softruck!Set
<1>3. ASSUME NEW d \in TrackerCallers PROVE Softruck!CallerOK(softruckCaller[d])'
  <2>1. CASE d = c
    BY <1>1, <1>2, <2>1 DEF Softruck!CallerOK
  <2>2. CASE d # c
    <3>1. softruckCaller'[d] = softruckCaller[d]
      BY <1>1, <1>2, <2>2
    <3>2. QED BY <3>1, SoftruckFields DEF Softruck!CallerOK
  <2>3. QED BY <2>1, <2>2
<1>4. QED BY <1>1, <1>2, <1>3

\* A request that cannot go out ends its call, or empties the day of a history: it
\* waits for nobody and holds no token that matters.
LEMMA SoftruckUnsent ==
  ASSUME NEW r \in Softruck!CallerState, r.phase \in {"call", "relogin", "ready"}
  PROVE  /\ Softruck!Unsent(r) \in Softruck!CallerState
         /\ Softruck!Unsent(r).phase \in {"idle", "empty"}
<1>1. CASE r.kind = "historico" /\ r.step = "data"
  <2>1. Softruck!Unsent(r) = [r EXCEPT !.phase = "empty"]
    BY <1>1 DEF Softruck!Unsent
  <2>2. QED BY <2>1 DEF Softruck!CallerState
<1>2. CASE ~ (r.kind = "historico" /\ r.step = "data")
  <2>1. Softruck!Unsent(r) = Softruck!Idle
    BY <1>2 DEF Softruck!Unsent
  <2>2. QED BY <2>1, SoftruckIdleOK DEF Softruck!Idle, Softruck!At
<1>3. QED BY <1>1, <1>2

\* A request that goes out does so with the token of now, for the attempt it is.
LEMMA SoftruckRequest ==
  ASSUME Softruck!Inductive, NEW r \in Softruck!CallerState, r.phase = "ready"
  PROVE  /\ Softruck!Request(r, 1) \in Softruck!CallerState
         /\ \/ Softruck!Request(r, 1).phase \in {"idle", "empty"}
            \/ /\ Softruck!Request(r, 1).phase = "call"
               /\ Softruck!Request(r, 1).attempt = 1
               /\ Softruck!Request(r, 1).token = "current"
<1>1. CASE entry = "none"
  BY <1>1, SoftruckUnsent DEF Softruck!Request
<1>2. CASE entry # "none"
  <2>1. Softruck!Request(r, 1)
          = [r EXCEPT !.phase = "call", !.attempt = 1, !.token = "current"]
    BY <1>2 DEF Softruck!Request
  <2> DEFINE q == [r EXCEPT !.phase = "call", !.attempt = 1, !.token = "current"]
  <2>2. 1 \in 1..2 /\ "current" \in Softruck!Held
    BY DEF Softruck!Held
  <2>3. q \in Softruck!CallerState
    BY <2>2, Zenon DEF Softruck!CallerState
  <2>4. q.phase = "call" /\ q.attempt = 1 /\ q.token = "current"
    BY DEF Softruck!CallerState
  <2>5. QED BY <2>1, <2>3, <2>4
<1>3. QED BY <1>1, <1>2

\* A new call: with a fresh token it is ready, or else it waits for the login.
LEMMA SoftruckStart ==
  ASSUME Softruck!Inductive, NEW c \in TrackerCallers, NEW k \in Softruck!Kinds,
         Softruck!Start(c, k)
  PROVE  Softruck!Inductive'
<1>1. PICK r \in Softruck!CallerState :
        /\ Softruck!Set(c, r) /\ Softruck!CallerOK(r)'
        /\ softruckLogin' \in BOOLEAN /\ (softruckLogin => softruckLogin')
        /\ entry' \in {"none", "fresh", "expiring"}
  <2> DEFINE q(p) == Softruck!At(p, k, "vehicle", 1, "none", "none")
  <2>1. CASE entry = "fresh"
    <3>1. q("ready") \in Softruck!CallerState /\ Softruck!CallerOK(q("ready"))'
      BY DEF Softruck!At, Softruck!CallerState, Softruck!CallerOK, Softruck!Steps,
             Softruck!Held
    <3>2. Softruck!Set(c, q("ready")) /\ UNCHANGED <<entry, softruckLogin>>
      BY <2>1 DEF Softruck!Start
    <3>3. QED BY <3>1, <3>2 DEF Softruck!Inductive, Softruck!TypeOK
  <2>2. CASE entry # "fresh"
    <3>1. /\ Softruck!Set(c, [q("ready") EXCEPT !.phase = "signin"])
          /\ entry' = "none" /\ softruckLogin'
      BY <2>2 DEF Softruck!Start, Softruck!JoinLogin
    <3>2. [q("ready") EXCEPT !.phase = "signin"] = q("signin")
      BY DEF Softruck!At
    <3>3. q("signin") \in Softruck!CallerState /\ Softruck!CallerOK(q("signin"))'
      BY <3>1 DEF Softruck!At, Softruck!CallerState, Softruck!CallerOK, Softruck!Steps,
                  Softruck!Held
    <3>4. softruckLogin' \in BOOLEAN
      BY <2>2 DEF Softruck!Start, Softruck!JoinLogin
    <3>5. QED BY <3>1, <3>2, <3>3, <3>4
  <2>3. QED BY <2>1, <2>2
<1>2. /\ softruckCaller' \in [TrackerCallers -> Softruck!CallerState]
      /\ \A d \in TrackerCallers : Softruck!CallerOK(softruckCaller[d])'
  BY <1>1, SoftruckCallMoves
<1>3. cached' = cached /\ calls' \in Nat
  BY DEF Softruck!Start, Softruck!Inductive, Softruck!TypeOK
<1>4. QED BY <1>1, <1>2, <1>3 DEF Softruck!Inductive, Softruck!TypeOK

\* The requests of a call, one step after the other, and its end.
LEMMA SoftruckAdvance ==
  ASSUME Softruck!Inductive, NEW c \in TrackerCallers, Softruck!Advance(c)
  PROVE  Softruck!Inductive'
<1> DEFINE q == softruckCaller[c]
<1>1. /\ UNCHANGED <<entry, softruckLogin, calls>>
      /\ cached' \in SUBSET Softruck!Steps
  BY SoftruckFields DEF Softruck!Advance, Softruck!FromCache, Softruck!Send, Softruck!Serve,
     Softruck!CallFails, Softruck!RefusedAgain, Softruck!Return, Softruck!Inductive,
     Softruck!TypeOK, Softruck!Steps
<1>2. PICK r \in Softruck!CallerState :
        /\ Softruck!Set(c, r)
        /\ \/ r.phase \in {"idle", "ready", "served", "empty"}
           \/ r.phase = "call" /\ r.attempt = 1 /\ r.token = "current"
  <2>1. CASE Softruck!FromCache(c)
    <3>1. PICK s \in Softruck!Steps :
            Softruck!Set(c, [q EXCEPT !.step = s]) /\ q.phase = "ready"
      BY <2>1 DEF Softruck!FromCache, Softruck!Steps
    <3>2. [q EXCEPT !.step = s] \in Softruck!CallerState
      BY SoftruckFields DEF Softruck!CallerState
    <3>3. [q EXCEPT !.step = s].phase = "ready"
      BY <3>1, SoftruckFields DEF Softruck!CallerState
    <3>4. QED BY <3>1, <3>2, <3>3
  <2>2. CASE Softruck!Send(c)
    BY <2>2, SoftruckFields, SoftruckRequest DEF Softruck!Send
  <2>3. CASE Softruck!Serve(c)
    <3>1. CASE q.step = "data"
      <4>1. Softruck!Set(c, [q EXCEPT !.phase = "served"])
        BY <2>3, <3>1 DEF Softruck!Serve
      <4>2. /\ [q EXCEPT !.phase = "served"] \in Softruck!CallerState
            /\ [q EXCEPT !.phase = "served"].phase = "served"
        BY SoftruckFields DEF Softruck!CallerState
      <4>3. QED BY <4>1, <4>2
    <3>2. CASE q.step # "data"
      <4>1. PICK s \in Softruck!Steps :
              Softruck!Set(c, Softruck!At("ready", q.kind, s, 1, "none", "none"))
        BY <2>3, <3>2, SoftruckFields DEF Softruck!Serve, Softruck!Steps
      <4>2. /\ Softruck!At("ready", q.kind, s, 1, "none", "none") \in Softruck!CallerState
            /\ Softruck!At("ready", q.kind, s, 1, "none", "none").phase = "ready"
        BY SoftruckFields DEF Softruck!At, Softruck!CallerState, Softruck!Held
      <4>3. QED BY <4>1, <4>2
    <3>3. QED BY <3>1, <3>2
  <2>4. CASE Softruck!CallFails(c)
    BY <2>4, SoftruckFields, SoftruckUnsent DEF Softruck!CallFails
  <2>5. CASE Softruck!RefusedAgain(c) \/ Softruck!Return(c)
    BY <2>5, SoftruckIdleOK DEF Softruck!RefusedAgain, Softruck!Return, Softruck!Idle,
                                Softruck!At
  <2>6. QED BY <2>1, <2>2, <2>3, <2>4, <2>5 DEF Softruck!Advance
<1>3. Softruck!CallerOK(r)'
  BY <1>2 DEF Softruck!CallerOK
<1>4. /\ softruckCaller' \in [TrackerCallers -> Softruck!CallerState]
      /\ \A d \in TrackerCallers : Softruck!CallerOK(softruckCaller[d])'
  BY <1>1, <1>2, <1>3, SoftruckCallMoves
<1>5. QED BY <1>1, <1>4 DEF Softruck!Inductive, Softruck!TypeOK

\* A first refusal: the call waits for a login, with the token it was refused in hand.
LEMMA SoftruckRefused ==
  ASSUME Softruck!Inductive, NEW c \in TrackerCallers, Softruck!Refused(c)
  PROVE  Softruck!Inductive'
<1> DEFINE q == softruckCaller[c]
<1>1. /\ UNCHANGED <<entry, cached, calls>> /\ softruckLogin' = TRUE
      /\ q.phase = "call" /\ q.attempt = 1
      /\ Softruck!Set(c, [q EXCEPT !.phase = "relogin", !.refused = q.token])
  BY DEF Softruck!Refused, Softruck!JoinLogin
<1>2. PICK r \in Softruck!CallerState :
        r = [q EXCEPT !.phase = "relogin", !.refused = q.token]
  BY SoftruckFields DEF Softruck!CallerState
<1>3. r.phase = "relogin" /\ r.refused = q.token
  BY <1>2, SoftruckFields DEF Softruck!CallerState
<1>4. q.token # "none"
  BY <1>1, SoftruckFields DEF Softruck!CallerOK
<1>5. Softruck!CallerOK(r)'
  BY <1>1, <1>3, <1>4 DEF Softruck!CallerOK
<1>6. /\ softruckCaller' \in [TrackerCallers -> Softruck!CallerState]
      /\ \A d \in TrackerCallers : Softruck!CallerOK(softruckCaller[d])'
  BY <1>1, <1>2, <1>5, SoftruckCallMoves
<1>7. QED BY <1>1, <1>6 DEF Softruck!Inductive, Softruck!TypeOK

\* A login replaces the token: the refused ones have grown old, and the refused
\* calls go out again with the new one.
LEMMA SoftruckLoginSucceeds ==
  ASSUME Softruck!Inductive, Softruck!LoginSucceeds
  PROVE  Softruck!Inductive'
<1>1. softruckLogin' = FALSE /\ entry' = "fresh" /\ UNCHANGED <<cached, calls>>
  BY DEF Softruck!LoginSucceeds
<1>2. ASSUME NEW c \in TrackerCallers
      PROVE  /\ softruckCaller'[c] \in Softruck!CallerState
             /\ Softruck!CallerOK(softruckCaller[c])'
  <2> DEFINE r == softruckCaller[c]
             n == softruckCaller'[c]
  <2>1. CASE r.phase = "signin"
    <3>1. n = [r EXCEPT !.phase = "ready"]
      BY <2>1 DEF Softruck!LoginSucceeds
    <3>2. n \in Softruck!CallerState /\ n.phase = "ready"
      BY <3>1, SoftruckFields DEF Softruck!CallerState
    <3>3. QED BY <3>2 DEF Softruck!CallerOK
  <2>2. CASE r.phase = "relogin"
    <3>1. n = Softruck!At("call", r.kind, r.step, 2, "current", Softruck!Aged(r.refused))
      BY <2>2 DEF Softruck!LoginSucceeds
    <3>2. Softruck!Aged(r.refused) = "old"
      BY <2>2, SoftruckFields DEF Softruck!Aged, Softruck!CallerOK, Softruck!Held
    <3>3. QED BY <3>1, <3>2, SoftruckFields
              DEF Softruck!At, Softruck!CallerState, Softruck!CallerOK, Softruck!Held
  <2>3. CASE r.phase \notin {"signin", "relogin"}
    <3>1. n = [r EXCEPT !.token = Softruck!Aged(r.token), !.refused = Softruck!Aged(r.refused)]
      BY <2>3 DEF Softruck!LoginSucceeds
    <3>2. /\ Softruck!Aged(r.token) \in Softruck!Held
          /\ Softruck!Aged(r.refused) \in Softruck!Held
          /\ r.token # "none" => Softruck!Aged(r.token) # "none"
          /\ r.refused = "old" => Softruck!Aged(r.refused) = "old"
      BY SoftruckFields DEF Softruck!Aged, Softruck!Held
    <3>3. /\ n \in Softruck!CallerState
          /\ n.phase = r.phase /\ n.attempt = r.attempt
          /\ n.token = Softruck!Aged(r.token) /\ n.refused = Softruck!Aged(r.refused)
      BY <3>1, <3>2, SoftruckFields DEF Softruck!CallerState
    <3>4. QED BY <2>3, <3>2, <3>3, SoftruckFields DEF Softruck!CallerOK
  <2>4. QED BY <2>1, <2>2, <2>3
<1>3. softruckCaller' \in [TrackerCallers -> Softruck!CallerState]
  BY <1>2 DEF Softruck!LoginSucceeds
<1>4. QED BY <1>1, <1>2, <1>3 DEF Softruck!Inductive, Softruck!TypeOK

\* A login that fails leaves nobody waiting.
LEMMA SoftruckLoginFails ==
  ASSUME Softruck!Inductive, Softruck!LoginFails
  PROVE  Softruck!Inductive'
<1>1. softruckLogin' = FALSE /\ UNCHANGED <<entry, cached, calls>>
  BY DEF Softruck!LoginFails
<1>2. ASSUME NEW c \in TrackerCallers
      PROVE  /\ softruckCaller'[c] \in Softruck!CallerState
             /\ Softruck!CallerOK(softruckCaller[c])'
  <2> DEFINE r == softruckCaller[c]
             n == softruckCaller'[c]
  <2>1. CASE r.phase = "signin"
    BY <2>1, SoftruckIdleOK DEF Softruck!LoginFails, Softruck!CallerOK
  <2>2. CASE r.phase = "relogin"
    <3>1. n = Softruck!Unsent(r)
      BY <2>2 DEF Softruck!LoginFails
    <3>2. n \in Softruck!CallerState /\ n.phase \in {"idle", "empty"}
      BY <2>2, <3>1, SoftruckFields, SoftruckUnsent
    <3>3. QED BY <3>2 DEF Softruck!CallerOK
  <2>3. CASE r.phase \notin {"signin", "relogin"}
    BY <2>3, SoftruckFields DEF Softruck!LoginFails, Softruck!CallerOK
  <2>4. QED BY <2>1, <2>2, <2>3
<1>3. softruckCaller' \in [TrackerCallers -> Softruck!CallerState]
  BY <1>2 DEF Softruck!LoginFails
<1>4. QED BY <1>1, <1>2, <1>3 DEF Softruck!Inductive, Softruck!TypeOK

\* Token and caches age without a call noticing.
LEMMA SoftruckTime ==
  ASSUME Softruck!Inductive, Softruck!TokenAges \/ Softruck!CachesAge
  PROVE  Softruck!Inductive'
<1>1. /\ entry' \in {"none", "fresh", "expiring"} /\ cached' \in SUBSET Softruck!Steps
      /\ UNCHANGED <<softruckLogin, calls, softruckCaller>>
  BY DEF Softruck!TokenAges, Softruck!CachesAge, Softruck!Inductive, Softruck!TypeOK
<1>2. QED BY <1>1 DEF Softruck!Inductive, Softruck!TypeOK, Softruck!CallerOK

\* Every step of SoftruckSession keeps its invariant.
LEMMA SoftruckNext ==
  Softruck!Inductive /\ [Softruck!Next]_Softruck!vars => Softruck!Inductive'
<1> SUFFICES ASSUME Softruck!Inductive, [Softruck!Next]_Softruck!vars
             PROVE  Softruck!Inductive'
  OBVIOUS
<1>1. CASE UNCHANGED Softruck!vars
  BY <1>1 DEF Softruck!vars, Softruck!Inductive, Softruck!TypeOK, Softruck!CallerOK
<1>2. CASE Softruck!Next
  BY <1>2, SoftruckStart, SoftruckAdvance, SoftruckRefused, SoftruckLoginSucceeds,
     SoftruckLoginFails, SoftruckTime DEF Softruck!Next, Softruck!Login
<1>3. QED BY <1>1, <1>2

\* What the invariant says to a caller: SoftruckSession's promises.
LEMMA SoftruckPromises ==
  Softruck!Inductive
    => Softruck!TypeOK /\ Softruck!RetryIsNewer /\ Softruck!NoneWaitsInVain
BY DEF Softruck!Inductive, Softruck!RetryIsNewer, Softruck!NoneWaitsInVain,
       Softruck!CallerOK

\* SoftruckSession: however the requests of calls, the deletion of an expiring token
\* and the logins interleave, no request is repeated with the token that was refused,
\* and nobody waits for a login that loginPromiseByBase no longer holds.
THEOREM SoftruckIsSafe ==
  Softruck!Spec
    => [](Softruck!TypeOK /\ Softruck!RetryIsNewer /\ Softruck!NoneWaitsInVain)
BY SoftruckInit, SoftruckNext, SoftruckPromises, PTL DEF Softruck!Spec

-----------------------------------------------------------------------------
(* The composition *)

\* A step of the composition is one of each component, or leaves it alone.
LEMMA StepsOfComponents ==
  ASSUME [MCNext]_MCvars
  PROVE  /\ [Next]_vars
         /\ [Logica!Next]_Logica!vars
         /\ [M7!Next]_M7!vars
         /\ [Softruck!Next]_Softruck!vars
<1> USE DEF MCNext, MCvars, OfSga, OfLogica, OfM7, OfSoftruck
<1>1. [Logica!Next]_Logica!vars
  BY DEF logicaVars, Logica!vars, Logica!Next, Logica!Answer, Logica!Resume, Logica!Login
<1>2. [M7!Next]_M7!vars
  BY DEF m7Vars, M7!vars, M7!Next, M7!Login
<1>3. [Softruck!Next]_Softruck!vars
  BY DEF softruckVars, Softruck!vars, Softruck!Next, Softruck!Advance, Softruck!Login
<1>4. [Next]_vars
  BY DEF vars, Next, Login, Answer, Resume
<1>5. QED BY <1>1, <1>2, <1>3, <1>4

\* The composition hides nothing of a component that starts where it starts: its
\* behaviours are behaviours of SgaAuth, LogicaAuth and SoftruckSession, and what is
\* proved of these holds of it.
THEOREM CompositionIsFaithful == MCSpec => Spec /\ Logica!Spec /\ Softruck!Spec
<1>1. MCInit => Init /\ Logica!Init /\ Softruck!Init
  BY DEF MCInit
<1>2. QED BY <1>1, StepsOfComponents, PTL DEF MCSpec, Spec, Logica!Spec, Softruck!Spec

\* The three trackers: the second attempt of a call goes out with a token newer than
\* the refused one, whoever's login brought it (executarComReautenticacao,
\* renovarToken, obterTokenInicial).
THEOREM TrackerRetryIsNewerHolds == MCSpec => []TrackerRetryIsNewer
<1> DEFINE Inv == Logica!Inductive /\ M7!Inductive /\ Softruck!Inductive
<1>1. MCInit => Inv
  BY LogicaInit, M7Init, SoftruckInit DEF MCInit
<1>2. Inv /\ [MCNext]_MCvars => Inv'
  BY StepsOfComponents, LogicaNext, M7Next, SoftruckNext
<1>3. Inv => TrackerRetryIsNewer
  BY LogicaPromises, M7Promises, SoftruckPromises DEF TrackerRetryIsNewer
<1>4. QED BY <1>1, <1>2, <1>3, PTL DEF MCSpec
=============================================================================
