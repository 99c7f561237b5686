------------------------------ MODULE CodexAuth ------------------------------
(***************************************************************************)
(* The credentials of Codex (ira-llm codex/auth.rs AuthManager, client.rs; *)
(* ira-store codex.rs; ira-api finish_codex_login).  A request takes the   *)
(* stored access token, refreshes it when it is about to expire or was     *)
(* refused, and stores what it got.  The refresh lock belongs to one       *)
(* AuthManager, and every client has its own; the stored credentials are   *)
(* shared, and the issuer takes a refresh token once.                      *)
(*                                                                         *)
(* Abstracted: tokens are numbers in the order they are issued, a pair has *)
(* the number of its access token; encryption, accounts and HTTP.          *)
(* External: the issuer, the service, time.                                *)
(***************************************************************************)
EXTENDS Naturals, FiniteSets

CONSTANTS
  Requests,     \* requests that use the credentials
  ManagerOf,    \* the AuthManager of each
  MaxIssued,    \* bound: pairs the issuer gives out
  MaxAuthFaults \* bound: answers lost, saves that fail, requests that are dropped

VARIABLES
  tokens,       \* the credentials in the database: [access, refresh]
  rotates,      \* the issuer answers a refresh with a new refresh token
  issued,       \* the last pair given out
  usable,       \* the refresh tokens the issuer still takes
  expired,      \* access tokens whose time is over
  refused,      \* access tokens the service refuses
  req,          \* per request: [pc, cred, got, tries]
  lock,         \* per manager: who holds refresh_lock, or "free"
  login,        \* the pair of a sign-in that is not stored yet, 0 for none
  authFaults,
  lost          \* history: a pair never reached the store

authVars == <<tokens, rotates, issued, usable, expired, refused, req, lock, login, authFaults, lost>>

Free == "free"
NoCredentials == [access |-> 0, refresh |-> 0]
Resting == [pc |-> "idle", cred |-> NoCredentials, got |-> NoCredentials, tries |-> 0]

AuthInit ==
  /\ tokens = [access |-> 1, refresh |-> 1]
  /\ rotates \in BOOLEAN
  /\ issued = 1 /\ usable = {1} /\ expired = {} /\ refused = {}
  /\ req = [r \in Requests |-> Resting]
  /\ lock = [m \in {ManagerOf[r] : r \in Requests} |-> Free]
  /\ login = 0 /\ authFaults = 0 /\ lost = FALSE

AuthPlaces == {"idle", "lock", "load", "refresh", "recheck", "save", "send", "lock after", "load after",
               "refresh after"}

At(r, pc) == req[r].pc = pc
To(r, pc) == req' = [req EXCEPT ![r].pc = pc]
Rest(r) == req' = [req EXCEPT ![r] = Resting]
With(r, pc, c) == req' = [req EXCEPT ![r].pc = pc, ![r].cred = c]
Unlock(r) == lock' = [lock EXCEPT ![ManagerOf[r]] = IF @ = r THEN Free ELSE @]

Issuer == <<rotates, issued, usable>>
Clock == <<expired, refused>>

----------------------------------------------------------------------------
\* authorization: with a token that still has time, no lock is taken.
Authorize(r) ==
  /\ At(r, "idle")
  /\ IF tokens.access \in expired THEN With(r, "lock", tokens) ELSE With(r, "send", tokens)
  /\ UNCHANGED <<tokens, Issuer, Clock, lock, login, authFaults, lost>>

\* The lock, from authorization and from refresh_after.
TakeLock(r) ==
  /\ req[r].pc \in {"lock", "lock after"} /\ lock[ManagerOf[r]] = Free
  /\ lock' = [lock EXCEPT ![ManagerOf[r]] = r]
  /\ To(r, IF At(r, "lock") THEN "load" ELSE "load after")
  /\ UNCHANGED <<tokens, Issuer, Clock, login, authFaults, lost>>

\* Somebody may have refreshed it meanwhile.
LoadAgain(r) ==
  /\ req[r].pc \in {"load", "load after"}
  /\ LET renewed == IF At(r, "load") THEN tokens.access \notin expired ELSE tokens.access # req[r].cred.access
     IN IF renewed THEN With(r, "send", tokens) /\ Unlock(r)
        ELSE With(r, IF At(r, "load") THEN "refresh" ELSE "refresh after", tokens) /\ UNCHANGED lock
  /\ UNCHANGED <<tokens, Issuer, Clock, login, authFaults, lost>>

\* Mutant: the refresh token one has is kept.
KeptOld(r) == req[r].cred.refresh

\* credentials_from_response: the new refresh token, or the previous one if there is none.
Kept(r) == IF rotates THEN issued + 1 ELSE req[r].cred.refresh

\* The issuer takes the refresh token.  The answer may be lost on its way.
Refresh(r) ==
  /\ req[r].pc \in {"refresh", "refresh after"}
  /\ req[r].cred.refresh \in usable /\ issued < MaxIssued
  /\ issued' = issued + 1
  /\ usable' = IF rotates THEN (usable \ {req[r].cred.refresh}) \cup {issued + 1} ELSE usable
  /\ \/ /\ req' = [req EXCEPT ![r].pc = "save", ![r].got = [access |-> issued + 1, refresh |-> Kept(r)]]
        /\ UNCHANGED <<lock, authFaults, lost>>
     \/ /\ authFaults < MaxAuthFaults /\ authFaults' = authFaults + 1
        /\ lost' = TRUE
        /\ IF At(r, "refresh") THEN To(r, "recheck") /\ UNCHANGED lock ELSE Rest(r) /\ Unlock(r)
  /\ UNCHANGED <<tokens, rotates, Clock, login>>

\* The refresh token is spent: authorization looks whether another one is stored by now,
\* refresh_after does not.
RefreshRefused(r) ==
  /\ req[r].pc \in {"refresh", "refresh after"} /\ req[r].cred.refresh \notin usable
  /\ IF At(r, "refresh") THEN To(r, "recheck") /\ UNCHANGED lock ELSE Rest(r) /\ Unlock(r)
  /\ UNCHANGED <<tokens, Issuer, Clock, login, authFaults, lost>>

Recheck(r) ==
  /\ At(r, "recheck")
  /\ IF tokens.access # req[r].cred.access THEN With(r, "send", tokens) ELSE Rest(r)
  /\ Unlock(r)
  /\ UNCHANGED <<tokens, Issuer, Clock, login, authFaults, lost>>

Save(r) ==
  /\ At(r, "save")
  /\ \/ /\ tokens' = req[r].got /\ With(r, "send", req[r].got)
        /\ UNCHANGED <<authFaults, lost>>
     \/ /\ authFaults < MaxAuthFaults /\ authFaults' = authFaults + 1
        /\ lost' = TRUE /\ Rest(r) /\ UNCHANGED tokens
  /\ Unlock(r)
  /\ UNCHANGED <<Issuer, Clock, login>>

\* complete, complete_stream and list_models: refused once, the token is refreshed and the
\* request sent again.
SendRequest(r) ==
  /\ At(r, "send")
  /\ IF req[r].cred.access \in expired \cup refused /\ req[r].tries = 0
       THEN req' = [req EXCEPT ![r].pc = "lock after", ![r].tries = 1]
       ELSE Rest(r)
  /\ UNCHANGED <<tokens, Issuer, Clock, lock, login, authFaults, lost>>

\* The request is dropped (its process dies, or nobody waits for it any more).
Drop(r) ==
  /\ ~At(r, "idle") /\ authFaults < MaxAuthFaults /\ authFaults' = authFaults + 1
  /\ lost' = (lost \/ At(r, "save"))
  /\ Rest(r) /\ Unlock(r)
  /\ UNCHANGED <<tokens, Issuer, Clock, login>>

----------------------------------------------------------------------------
\* finish_device_login and finish_codex_login: a pair of a chain of its own, stored without
\* any lock.
SignIn ==
  /\ login = 0 /\ issued < MaxIssued
  /\ issued' = issued + 1 /\ usable' = usable \cup {issued + 1} /\ login' = issued + 1
  /\ UNCHANGED <<tokens, rotates, Clock, req, lock, authFaults, lost>>

StoreLogin ==
  /\ login # 0
  /\ tokens' = [access |-> login, refresh |-> login] /\ login' = 0
  /\ UNCHANGED <<Issuer, Clock, req, lock, authFaults, lost>>

\* External: time passes for a token, or the service refuses it.
Expire ==
  /\ \E k \in (1..issued) \ (expired \cup refused) :
       \/ expired' = expired \cup {k} /\ UNCHANGED refused
       \/ refused' = refused \cup {k} /\ UNCHANGED expired
  /\ UNCHANGED <<tokens, Issuer, req, lock, login, authFaults, lost>>

AuthStep(r) ==
  \/ Authorize(r) \/ TakeLock(r) \/ LoadAgain(r) \/ Refresh(r) \/ RefreshRefused(r)
  \/ Recheck(r) \/ Save(r) \/ SendRequest(r) \/ Drop(r)

AuthNext == (\E r \in Requests : AuthStep(r)) \/ SignIn \/ StoreLogin \/ Expire

AuthSpec == AuthInit /\ [][AuthNext]_authVars

----------------------------------------------------------------------------
\* The user stays signed in: however many requests, managers and sign-ins refresh at once,
\* the stored refresh token is one the issuer still takes, once nobody is between the
\* issuer's answer and the store, unless a pair was lost on that way.
StaysSignedIn ==
  ~lost /\ (\A r \in Requests : ~At(r, "save")) => tokens.refresh \in usable
----------------------------------------------------------------------------
\* The invariant behind it: a refresh token that has been given out and not yet stored is
\* good, and in nobody's hands but of the one that is about to store it.
TokenPairs == [access : Nat, refresh : Nat]
RequestStates == [pc : AuthPlaces, cred : TokenPairs, got : TokenPairs, tries : {0, 1}]

AuthTypeOK ==
  /\ tokens \in TokenPairs /\ rotates \in BOOLEAN /\ issued \in Nat \ {0} /\ login \in Nat
  /\ req \in [Requests -> RequestStates] /\ lost \in BOOLEAN

OnItsWay(r) == req[r].got.refresh
InHands(n) == n = tokens.refresh \/ \E r \in Requests : n = req[r].cred.refresh

NothingIsAhead ==
  /\ tokens.refresh <= issued /\ login <= issued
  /\ \A r \in Requests : req[r].cred.refresh <= issued /\ req[r].got.refresh <= issued

NewIsGood ==
  \A r \in Requests : At(r, "save") =>
    /\ OnItsWay(r) \in usable
    /\ rotates => /\ ~InHands(OnItsWay(r)) /\ OnItsWay(r) # login /\ OnItsWay(r) # 0
                  /\ \A q \in Requests \ {r} : At(q, "save") => OnItsWay(q) # OnItsWay(r)

LoginIsGood == login # 0 => login \in usable /\ (rotates => ~InHands(login))

StoredIsGood == ~lost => tokens.refresh \in usable \/ \E r \in Requests : At(r, "save")

AuthInv == AuthTypeOK /\ NothingIsAhead /\ NewIsGood /\ LoginIsGood /\ StoredIsGood
==============================================================================
