------------------------------- MODULE WebAuth --------------------------------
(***************************************************************************)
(* Who the HTTP surface lets in (ira-server/src/web_auth.rs and the        *)
(* routes of ira-server/src/lib.rs): logins that verify a password away    *)
(* from the lock of the state, the sessions they open, and the requests    *)
(* those sessions make.                                                    *)
(*                                                                         *)
(* Abstracted: passwords (right or wrong), headers (the request comes from *)
(* the page of this server, or not), cookies (the session of the device).  *)
(***************************************************************************)
EXTENDS Naturals, FiniteSets

CONSTANTS
  Browsers,     \* devices; each sends one request at a time
  MaxFailures,  \* MAX_FAILURES
  Window,       \* ATTEMPT_WINDOW, in ticks
  SessionAge,   \* SESSION_AGE, in ticks
  Never,
  MaxTime,      \* bound: ticks
  MaxVerdicts,  \* bound: logins decided
  HasHash,      \* a password is configured
  Reveals       \* it may be shown to the page

ASSUME WebAuthAssumption == MaxFailures \in Nat \ {0} /\ Window \in Nat \ {0} /\ SessionAge \in Nat

VARIABLES
  now,
  failures,   \* the wrong passwords the server remembers: number and time
  sessions,   \* per device: when its session expires
  signing,    \* per device: the login that is being verified
  served,     \* per device: the status of its last request
  wrong,      \* history: the "wrong password" verdicts since the last right one
  verdicts

authVars == <<now, failures, sessions, signing, served, wrong, verdicts>>

Recent(guesses) == {g \in guesses : now - g.at < Window}

Answer(b, status) == served' = [served EXCEPT ![b] = status]

WebInit ==
  /\ now = 0
  /\ failures = {} /\ wrong = {}
  /\ sessions = [b \in Browsers |-> Never]
  /\ signing = [b \in Browsers |-> "no"]
  /\ served = [b \in Browsers |-> "none"]
  /\ verdicts = 0

----------------------------------------------------------------------------
\* The checks before the verification; the lock is released when they end.
Login(b, ownPage, password) ==
  /\ signing[b] = "no"
  /\ IF ~ownPage
       THEN Answer(b, "forbidden") /\ UNCHANGED <<failures, signing>>
     ELSE IF ~HasHash
       THEN Answer(b, "unavailable") /\ UNCHANGED <<failures, signing>>
       ELSE /\ failures' = Recent(failures)
            /\ IF Cardinality(failures') >= MaxFailures
                 THEN Answer(b, "too many") /\ UNCHANGED signing
                 ELSE signing' = [signing EXCEPT ![b] = password] /\ UNCHANGED served
  /\ UNCHANGED <<now, sessions, wrong, verdicts>>

Verdict(b) ==
  /\ signing[b] # "no" /\ verdicts < MaxVerdicts
  /\ signing' = [signing EXCEPT ![b] = "no"]
  /\ verdicts' = verdicts + 1
  /\ UNCHANGED now

Guess == [number |-> verdicts, at |-> now]

Wrong(b) ==
  /\ failures' = Recent(failures) \cup {Guess}
  /\ wrong' = wrong \cup {Guess}
  /\ Answer(b, "unauthorized")
  /\ UNCHANGED sessions

Right(b) ==
  /\ failures' = {} /\ wrong' = {}
  /\ sessions' = [c \in Browsers |-> IF c = b THEN now + SessionAge
                                     ELSE IF sessions[c] # Never /\ sessions[c] <= now THEN Never
                                     ELSE sessions[c]]
  /\ Answer(b, "ok")

\* Mutant: the failures are counted only before the verification.
DecideAtOnce(b) == Verdict(b) /\ IF signing[b] = "right" THEN Right(b) ELSE Wrong(b)

\* The verification has ended: other logins may have failed meanwhile.
Decide(b) ==
  /\ Verdict(b)
  /\ IF Cardinality(Recent(failures)) >= MaxFailures
       THEN /\ failures' = Recent(failures)
            /\ Answer(b, "too many")
            /\ UNCHANGED <<sessions, wrong>>
       ELSE IF signing[b] = "right" THEN Right(b) ELSE Wrong(b)

\* The middleware in front of every route; writes of a session must come from the page.
Routes == {"page", "health", "login", "password", "read", "write"}

Authorize(b, route, ownPage, bearer) ==
  LET cookie == sessions[b] # Never /\ sessions[b] > now
  IN IF route \in {"page", "health", "login"} \/ (route = "password" /\ Reveals) THEN "ok"
     ELSE IF ~bearer /\ ~cookie THEN "unauthorized"
     ELSE IF ~bearer /\ route = "write" /\ ~ownPage THEN "forbidden"
     ELSE "ok"

\* logout is a write: it comes through the middleware too.
Logout(b, ownPage, bearer) ==
  LET status == Authorize(b, "write", ownPage, bearer) IN
    /\ signing[b] = "no"
    /\ sessions' = IF status = "ok" THEN [sessions EXCEPT ![b] = Never] ELSE sessions
    /\ Answer(b, status)
    /\ UNCHANGED <<now, failures, signing, wrong, verdicts>>

Request(b) ==
  /\ signing[b] = "no"
  /\ \E route \in Routes \ {"login"}, ownPage, bearer \in BOOLEAN :
       Answer(b, Authorize(b, route, ownPage, bearer))
  /\ UNCHANGED <<now, failures, sessions, signing, wrong, verdicts>>

Tick ==
  /\ now < MaxTime /\ now' = now + 1
  /\ UNCHANGED <<failures, sessions, signing, served, wrong, verdicts>>

\* Everything is in memory.
RestartServer ==
  /\ failures' = {} /\ wrong' = {}
  /\ sessions' = [b \in Browsers |-> Never]
  /\ signing' = [b \in Browsers |-> "no"]
  /\ served' = [b \in Browsers |-> "none"]
  /\ UNCHANGED <<now, verdicts>>

WebNext ==
  \/ \E b \in Browsers :
       \/ \E ownPage \in BOOLEAN, password \in {"right", "wrong"} : Login(b, ownPage, password)
       \/ \E ownPage, bearer \in BOOLEAN : Logout(b, ownPage, bearer)
       \/ Decide(b) \/ Request(b)
  \/ Tick \/ RestartServer

WebSpec == WebInit /\ [][WebNext]_authVars

\* Between two right passwords no window of time holds more verdicts on wrong ones than the
\* maximum, however many logins are being verified at once.
GuessesAreBounded ==
  \A f \in wrong : Cardinality({g \in wrong : g.at >= f.at /\ g.at - f.at < Window}) <= MaxFailures

===============================================================================
