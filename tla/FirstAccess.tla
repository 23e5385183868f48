------------------------------ MODULE FirstAccess ------------------------------
(***************************************************************************)
(* The account of one CPF: AssociadoService.primeiroAcesso, which finds    *)
(* the base of Hinova that lists the CPF and creates the account with the  *)
(* CPF as its password; the sign-in; the change of the password, and its   *)
(* reset by mail.  Every await is a step, and requests overlap.            *)
(***************************************************************************)
EXTENDS Integers, Sequences

CONSTANTS
  Requests,    \* the requests made about the CPF
  Bases,       \* the sequence of the tenant's bases
  MaxAttempts, \* callSgaWithRetry: maxAttempts
  MaxChanges   \* bound: changes of what Hinova lists

VARIABLES
  account,   \* the User row, or NoAccount
  listed,    \* Hinova: the associado in each base
  changes,
  req,       \* where each request stands
  known,     \* passwords that reached the owner of the CPF
  signedIn,  \* the owner holds a token
  unsure     \* history: Hinova failed a query or changed its lists, or the account
             \* came from the register endpoint

vars == <<account, listed, changes, req, known, signedIn, unsure>>

NoAccount == [senha |-> "none", primeiroLogin |-> FALSE, base |-> 0]
CPF       == "cpf"                 \* the password that a first access sets
BaseNumbers == 1..Len(Bases)

\* Whether a base lists the CPF, and as what: Permitida stands for the three situations
\* that primeiroAcesso lets in.
Situations == {"ausente", "permitida", "outra"}

FirstAccessAssumption ==
  /\ Len(Bases) \in Nat
  /\ NoAccount.senha \notin Requests   \* a request stands for the password it sets

New  == [phase |-> "new", base |-> 0, attempt |-> 0]

Init ==
  /\ account = NoAccount
  /\ listed \in [BaseNumbers -> Situations]
  /\ changes = 0
  /\ req = [r \in Requests |-> New]
  /\ known = {CPF}
  /\ signedIn = FALSE
  /\ unsure = FALSE

Go(r, phase)  == req' = [req EXCEPT ![r] = [New EXCEPT !.phase = phase]]
End(r)        == Go(r, "done")
Ask(r, phase, b) == req' = [req EXCEPT ![r] = [phase |-> phase, base |-> b, attempt |-> 1]]
At(r, phase)  == req[r].phase = phase

-----------------------------------------------------------------------------
(* primeiroAcesso *)

\* findFirst: an account that still awaits its own password begins anew.
Look(r) ==
  /\ At(r, "new")
  /\ CASE account = NoAccount    -> Go(r, "cached")
       [] account.primeiroLogin  -> Go(r, "reopen")
       [] OTHER                  -> End(r)
  /\ UNCHANGED <<account, listed, changes, known, signedIn, unsure>>

\* The update by id: what was read of the account may be old by now.
Reopen(r) ==
  /\ At(r, "reopen")
  /\ account' = [account EXCEPT !.senha = CPF]
  /\ Go(r, "login")
  /\ UNCHANGED <<listed, changes, known, signedIn, unsure>>

\* detectBaseOrigin: the base of an account that has come up meanwhile; a failure of
\* the query goes on to the bases.
DetectInDatabase(r) ==
  /\ At(r, "cached")
  /\ \/ account # NoAccount /\ account.base # 0
        /\ Ask(r, "buscar", account.base)
     \/ Ask(r, "detect", 1)
  /\ UNCHANGED <<account, listed, changes, known, signedIn, unsure>>

\* The first base that answers 200 is taken; after the last one the request is a 404.
AfterBase(r, found) ==
  IF found THEN Ask(r, "buscar", req[r].base)
  ELSE IF req[r].base < Len(Bases) THEN Ask(r, "detect", req[r].base + 1)
  ELSE End(r)

\* buscar associado of the base asked: 200 where it lists the CPF.
BaseAnswers(r) ==
  /\ At(r, "detect")
  /\ AfterBase(r, listed[req[r].base] # "ausente")
  /\ UNCHANGED <<account, listed, changes, known, signedIn, unsure>>

\* The same query again, for the data of the associado.
BuscarAnswers(r) ==
  /\ At(r, "buscar")
  /\ IF listed[req[r].base] = "permitida"
     THEN req' = [req EXCEPT ![r].phase = "register", ![r].attempt = 0]
     ELSE End(r)
  /\ UNCHANGED <<account, listed, changes, known, signedIn, unsure>>

\* callSgaWithRetry: a 5xx or an error of the network is asked again, other errors are
\* not; in the end detectBaseOrigin goes on to the next base, and primeiroAcesso answers 500.
HinovaFails(r, transient) ==
  /\ At(r, "detect") \/ At(r, "buscar")
  /\ IF transient /\ req[r].attempt < MaxAttempts
     THEN req' = [req EXCEPT ![r].attempt = @ + 1] /\ UNCHANGED unsure
     ELSE /\ IF At(r, "detect") THEN AfterBase(r, FALSE) ELSE End(r)
          /\ unsure' = TRUE
  /\ UNCHANGED <<account, listed, changes, known, signedIn>>

\* AuthService.register: the CPF is unique.
Register(r) ==
  /\ At(r, "register")
  /\ IF account = NoAccount
     THEN /\ account' = [senha |-> CPF, primeiroLogin |-> TRUE, base |-> req[r].base]
          /\ Go(r, "login")
     ELSE End(r) /\ UNCHANGED account
  /\ UNCHANGED <<listed, changes, known, signedIn, unsure>>

\* The register endpoint, with a password, a base or none, as the request says.
SignUp(r, primeiroLogin, base) ==
  /\ At(r, "new") /\ account = NoAccount
  /\ account' = [senha |-> r, primeiroLogin |-> primeiroLogin, base |-> base]
  /\ known' = known \cup {r}
  /\ unsure' = TRUE
  /\ End(r)
  /\ UNCHANGED <<listed, changes, signedIn>>

-----------------------------------------------------------------------------
(* Sign-in and passwords *)

\* validateUser, of a password that the owner has.
Authenticate(r) ==
  /\ At(r, "new")
  /\ account # NoAccount /\ account.senha \in known
  /\ Go(r, "login")
  /\ UNCHANGED <<account, listed, changes, known, signedIn, unsure>>

\* login: the token carries the base of the account, which must have one.
Login(r) ==
  /\ At(r, "login")
  /\ signedIn' = (signedIn \/ account.base # 0)
  /\ End(r)
  /\ UNCHANGED <<account, listed, changes, known, unsure>>

\* changePassword, of a signed-in owner.
ChangePassword(r) ==
  /\ At(r, "new") /\ signedIn
  /\ account' = [account EXCEPT !.senha = r, !.primeiroLogin = FALSE]
  /\ known' = known \cup {r}
  /\ End(r)
  /\ UNCHANGED <<listed, changes, signedIn, unsure>>

\* Mutant: the reset leaves primeiroLogin as it is.
ResetPasswordOnly(r) ==
  /\ At(r, "new") /\ account # NoAccount
  /\ account' = [account EXCEPT !.senha = r]
  /\ Go(r, "mail")
  /\ UNCHANGED <<listed, changes, known, signedIn, unsure>>

\* resetPassword: the new hash is stored before its mail goes out.
ResetPassword(r) ==
  /\ At(r, "new") /\ account # NoAccount
  /\ account' = [account EXCEPT !.senha = r, !.primeiroLogin = TRUE]
  /\ Go(r, "mail")
  /\ UNCHANGED <<listed, changes, known, signedIn, unsure>>

\* sendPasswordReset, which may fail.
Mail(r, sent) ==
  /\ At(r, "mail")
  /\ known' = known \cup {q \in {r} : sent}
  /\ End(r)
  /\ UNCHANGED <<account, listed, changes, signedIn, unsure>>

\* The process stops, or the database rejects the await.
Fail(r) ==
  /\ ~At(r, "new") /\ ~At(r, "done")
  /\ End(r)
  /\ UNCHANGED <<account, listed, changes, known, signedIn, unsure>>

\* Hinova: the CPF comes to a base, leaves it or changes its situation.
Relist(b, situation) ==
  /\ changes < MaxChanges /\ listed[b] # situation
  /\ listed' = [listed EXCEPT ![b] = situation]
  /\ changes' = changes + 1
  /\ unsure' = TRUE
  /\ UNCHANGED <<account, req, known, signedIn>>

Next ==
  \/ \E r \in Requests :
       \/ Look(r) \/ Reopen(r) \/ DetectInDatabase(r) \/ BaseAnswers(r) \/ BuscarAnswers(r)
       \/ \E transient \in BOOLEAN : HinovaFails(r, transient)
       \/ \E first \in BOOLEAN, b \in {0} \cup BaseNumbers : SignUp(r, first, b)
       \/ Register(r) \/ Authenticate(r) \/ Login(r) \/ ChangePassword(r) \/ ResetPassword(r)
       \/ \E sent \in BOOLEAN : Mail(r, sent)
       \/ Fail(r)
  \/ \E b \in BaseNumbers, s \in Situations : Relist(b, s)

Spec == Init /\ [][Next]_vars

-----------------------------------------------------------------------------
(* Safety *)

\* A password that its owner never got, as that of a reset whose mail failed, always
\* leaves the first access open to them, whatever requests overlap.
OwnerGetsIn ==
  account # NoAccount => account.senha \in known \/ account.primeiroLogin

\* detectBaseOrigin: unless Hinova failed or changed its lists, the account belongs to
\* the first base that lists the CPF, in a situation that is let in.
BaseIsTheFirst ==
  account # NoAccount /\ ~unsure =>
    /\ listed[account.base] = "permitida"
    /\ \A b \in 1..(account.base - 1) : listed[b] = "ausente"

\* The account is its owner's to enter, in the base that they belong to.
AccountServesItsOwner == OwnerGetsIn /\ BaseIsTheFirst

-----------------------------------------------------------------------------
(* The inductive invariant: what a request found out on its way to the      *)
(* registration still holds, unless Hinova failed or changed its lists.    *)

Passwords == {NoAccount.senha, CPF} \cup Requests
Phases    == {"new", "cached", "reopen", "detect", "buscar", "register", "login", "mail",
              "done"}

\* Every variable keeps its type.
TypeOK ==
  /\ account \in [senha : Passwords, primeiroLogin : BOOLEAN, base : Nat]
  /\ listed \in [BaseNumbers -> Situations]
  /\ changes \in Nat
  /\ req \in [Requests -> [phase : Phases, base : Nat, attempt : Nat]]
  /\ known \in SUBSET Passwords
  /\ signedIn \in BOOLEAN
  /\ unsure \in BOOLEAN

NoneBefore(base) == \A b \in 1..(base - 1) : listed[b] = "ausente"

RequestOK(q) ==
  /\ q.phase \in {"reopen", "login"} => account # NoAccount
  /\ ~unsure /\ q.phase \in {"detect", "buscar", "register"} => NoneBefore(q.base)
  /\ ~unsure /\ q.phase = "register" => listed[q.base] = "permitida"

Inductive ==
  /\ TypeOK
  /\ CPF \in known
  /\ signedIn => account # NoAccount
  /\ \A r \in Requests : RequestOK(req[r])
  /\ AccountServesItsOwner
=============================================================================
