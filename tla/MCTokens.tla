------------------------------- MODULE MCTokens -------------------------------
(***************************************************************************)
(* Instances of the clients that log in: SgaAuth, and those of the three   *)
(* trackers, LogicaAuth, M7Session and SoftruckSession.  They share no     *)
(* state, so a behaviour is one of one of them, which client says, and     *)
(* nothing is lost by not interleaving them.                               *)
(***************************************************************************)
EXTENDS SgaAuth, TLC

CONSTANTS
  c1, c2, b1, b2,
  LogicaTokens, Bases, MaxLapses,   \* LogicaAuth
  MaxBoots,                         \* M7Session
  MaxCalls,                         \* SoftruckSession
  TrackerCallers

VARIABLES
  client,
  tokenCache, login, session, opened, lapses, user,
  process, boots, m7, hasToken, renewal, m7Caller,
  entry, softruckLogin, cached, calls, softruckCaller

Logica   == INSTANCE LogicaAuth
              WITH Callers <- TrackerCallers, MaxTokens <- LogicaTokens,
                   issued <- opened, caller <- user
M7       == INSTANCE M7Session WITH Callers <- TrackerCallers, caller <- m7Caller
Softruck == INSTANCE SoftruckSession
              WITH Callers <- TrackerCallers, login <- softruckLogin, caller <- softruckCaller

ASSUME TrackersAssumption ==
  Logica!LogicaAuthAssumption /\ M7!M7SessionAssumption

logicaVars   == <<tokenCache, login, session, opened, lapses, user>>
m7Vars       == <<process, boots, m7, hasToken, renewal, m7Caller>>
softruckVars == <<entry, softruckLogin, cached, calls, softruckCaller>>
MCvars       == <<vars, logicaVars, m7Vars, softruckVars, client>>

\* A client that does not run stands in one of its initial states, where it has
\* nothing to do; but M7Session, whose first logins are on their way there, stands
\* as a process that is not to be started again.
M7Off ==
  /\ process = "down" /\ boots = MaxBoots /\ m7 = "up"
  /\ hasToken = [s \in M7!Services |-> FALSE]
  /\ renewal = [s \in M7!Services |-> "none"]
  /\ m7Caller = [c \in TrackerCallers |-> M7!Idle]

MCInit ==
  /\ Init /\ Logica!Init /\ Softruck!Init
  /\ client \in {"sga", "logica", "m7", "softruck"}
  /\ IF client = "m7" THEN M7!Init ELSE M7Off
  /\ client # "logica" => session = Logica!EnvToken /\ user[c1].base = b1

OfSga      == client = "sga" /\ UNCHANGED <<logicaVars, m7Vars, softruckVars, client>>
OfLogica   == client = "logica" /\ UNCHANGED <<vars, m7Vars, softruckVars, client>>
OfM7       == client = "m7" /\ UNCHANGED <<vars, logicaVars, softruckVars, client>>
OfSoftruck == client = "softruck" /\ UNCHANGED <<vars, logicaVars, m7Vars, client>>

MCNext ==
  \/ OfSga /\ \E c \in Callers : Start(c)
  \/ OfSga /\ \E c \in Callers : LoginSucceeds(c)
  \/ OfSga /\ \E c \in Callers : LoginFails(c)
  \/ OfSga /\ \E c \in Callers : Serve(c)
  \/ OfSga /\ \E c \in Callers : CallFails(c)
  \/ OfSga /\ \E c \in Callers : Return(c)
  \/ OfSga /\ \E c \in Callers : Retry(c)
  \/ OfSga /\ \E t \in Tokens : Expire(t)
  \/ OfLogica /\ \E c \in TrackerCallers, b \in Bases : Logica!Start(c, b)
  \/ OfLogica /\ \E c \in TrackerCallers : Logica!Serve(c)
  \/ OfLogica /\ \E c \in TrackerCallers : Logica!CallFails(c)
  \/ OfLogica /\ \E c \in TrackerCallers : Logica!Return(c)
  \/ OfLogica /\ \E c \in TrackerCallers : Logica!RenovarToken(c)
  \/ OfLogica /\ \E b \in Bases : Logica!LoginSucceeds(b)
  \/ OfLogica /\ \E b \in Bases : Logica!LoginUnanswered(b)
  \/ OfLogica /\ \E b \in Bases : Logica!BackoffEnds(b)
  \/ OfLogica /\ Logica!Lapse
  \/ OfM7 /\ M7!Boot
  \/ OfM7 /\ M7!Listen
  \/ OfM7 /\ M7!M7Stops
  \/ OfM7 /\ M7!M7Returns
  \/ OfM7 /\ \E s \in M7!Services : M7!Timer(s)
  \/ OfM7 /\ \E c \in TrackerCallers, s \in M7!Services : M7!Start(c, s)
  \/ OfM7 /\ \E c \in TrackerCallers : M7!Return(c)
  \/ OfM7 /\ \E c \in TrackerCallers : M7!Refused(c)
  \/ OfM7 /\ \E s \in M7!Services : M7!LoginSucceeds(s)
  \/ OfM7 /\ \E s \in M7!Services : M7!LoginFails(s)
  \/ OfSoftruck /\ \E c \in TrackerCallers, k \in Softruck!Kinds : Softruck!Start(c, k)
  \/ OfSoftruck /\ \E c \in TrackerCallers : Softruck!FromCache(c)
  \/ OfSoftruck /\ \E c \in TrackerCallers : Softruck!Send(c)
  \/ OfSoftruck /\ \E c \in TrackerCallers : Softruck!Serve(c)
  \/ OfSoftruck /\ \E c \in TrackerCallers : Softruck!CallFails(c)
  \/ OfSoftruck /\ \E c \in TrackerCallers : Softruck!Refused(c)
  \/ OfSoftruck /\ \E c \in TrackerCallers : Softruck!RefusedAgain(c)
  \/ OfSoftruck /\ \E c \in TrackerCallers : Softruck!Return(c)
  \/ OfSoftruck /\ Softruck!LoginSucceeds
  \/ OfSoftruck /\ Softruck!LoginFails
  \/ OfSoftruck /\ Softruck!TokenAges
  \/ OfSoftruck /\ Softruck!CachesAge

MCSpec ==
  /\ MCInit /\ [][MCNext]_MCvars
  /\ Fairness /\ Logica!Fairness /\ M7!Fairness /\ Softruck!Fairness

\* LogicaAuth, M7Session and SoftruckSession: the second attempt of a call goes out
\* with a token newer than the refused one, whoever's login brought it.
TrackerRetryIsNewer == Logica!RetryIsNewer /\ M7!RetryIsNewer /\ Softruck!RetryIsNewer

\* M7Session: a class without a token gets one from its timer once M7 stays up.
TokenComesBack == M7!TokenComesBack

\* The four clients: every call ends, with an answer or an error.
SessionsEnd == CallsEnd /\ Logica!CallsEnd /\ M7!CallsEnd /\ Softruck!CallsEnd
=============================================================================
