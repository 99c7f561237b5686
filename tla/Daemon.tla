-------------------------------- MODULE Daemon --------------------------------
(***************************************************************************)
(* The voice daemon outside its engine (ira-daemon/src/main.rs): commands  *)
(* of ira-ctl, one connection each, over the Unix socket                   *)
(* (ira-ipc/src/lib.rs).                                                   *)
(*                                                                         *)
(* A daemon serves one connection at a time, without a time limit, and     *)
(* looks for the interrupt only between two.  It takes the socket's path   *)
(* whoever has it, and at its end removes the path whoever has it then.    *)
(*                                                                         *)
(* Abstracted: what the commands make the engine do (the daemon hands them *)
(* over without waiting; VoiceEngine has the rest); its start, to the part *)
(* before the path is taken (VoiceSettings has the import of settings).    *)
(***************************************************************************)
EXTENDS Naturals, Sequences

CONSTANTS
  Daemons,
  Ctls,     \* runs of ira-ctl, one after the other
  MaxRuns,  \* bound: daemons started
  MaxConnects, \* bound: commands
  MaxKills  \* bound: daemons and clients that are killed

VARIABLES
  daemon,   \* per daemon: where it is
  backlog,  \* connections it has yet to accept
  serving,  \* the connection it serves; {} or one
  path,     \* who listens behind the socket's path; "stale" or "nothing"
  ctl,      \* per client: where it is
  request,  \* what it asks for
  runs, commands, kills

daemonVars == <<daemon, backlog, serving, path, ctl, request, runs, commands, kills>>

DaemonInit ==
  /\ daemon = [d \in Daemons |-> "off"]
  /\ backlog = [d \in Daemons |-> <<>>]
  /\ serving = [d \in Daemons |-> {}]
  /\ path = "nothing"
  /\ ctl = [c \in Ctls |-> "off"]
  /\ request = [c \in Ctls |-> "status"]
  /\ runs = 0 /\ commands = 0 /\ kills = 0

DaemonAt(d, here, there) == daemon[d] = here /\ daemon' = [daemon EXCEPT ![d] = there]

----------------------------------------------------------------------------
StartDaemon(d) ==
  /\ DaemonAt(d, "off", "bind")
  /\ runs < MaxRuns /\ runs' = runs + 1
  /\ UNCHANGED <<backlog, serving, path, ctl, request, commands, kills>>

\* The path is removed, and bound.
Bind(d) ==
  /\ DaemonAt(d, "bind", "accept")
  /\ path' = d
  /\ UNCHANGED <<backlog, serving, ctl, request, runs, commands, kills>>

----------------------------------------------------------------------------
\* A command.
CtlAt(c, here, there) == ctl[c] = here /\ ctl' = [ctl EXCEPT ![c] = there]

Connect(c) ==
  /\ commands < MaxConnects /\ commands' = commands + 1
  /\ \E what \in {"status", "stop", "shutdown"} : request' = [request EXCEPT ![c] = what]
  /\ IF path \in Daemons
       THEN CtlAt(c, "off", "connected") /\ backlog' = [backlog EXCEPT ![path] = Append(@, c)]
       ELSE CtlAt(c, "off", "off") /\ UNCHANGED backlog  \* NotRunning
  /\ UNCHANGED <<daemon, serving, path, runs, kills>>

SendRequest(c) ==
  /\ CtlAt(c, "connected", "waiting")
  /\ UNCHANGED <<daemon, backlog, serving, path, request, runs, commands, kills>>

\* The client is killed; its end of the connection closes.
CtlDies(c) ==
  /\ ctl[c] \in {"connected", "waiting"} /\ CtlAt(c, ctl[c], "gone")
  /\ kills < MaxKills /\ kills' = kills + 1
  /\ UNCHANGED <<daemon, backlog, serving, path, request, runs, commands>>

Accept(d) ==
  /\ DaemonAt(d, "accept", "serve") /\ backlog[d] # <<>>
  /\ serving' = [serving EXCEPT ![d] = {Head(backlog[d])}]
  /\ backlog' = [backlog EXCEPT ![d] = Tail(@)]
  /\ UNCHANGED <<path, ctl, request, runs, commands, kills>>

\* The connections of d close when it ends; their clients fail.
Hangs(d, conns) ==
  ctl' = [c \in Ctls |-> IF c \in conns THEN "off" ELSE ctl[c]]

Conns(d) == serving[d] \union {backlog[d][k] : k \in DOMAIN backlog[d]}

\* Mutant: a request nobody can read leaves its client in the daemon's hands.
RespondOnly(d) ==
  \E c \in serving[d] :
    /\ ctl[c] = "waiting"
    /\ DaemonAt(d, "serve", IF request[c] = "shutdown" THEN "leave" ELSE "accept")
    /\ ctl' = [ctl EXCEPT ![c] = "off"]
    /\ serving' = [serving EXCEPT ![d] = {}]
    /\ UNCHANGED <<backlog, path, request, runs, commands, kills>>

\* read_request to write_response; a connection that closes without a line is skipped.
Respond(d) ==
  \E c \in serving[d] :
    /\ ctl[c] \in {"waiting", "gone"}
    /\ DaemonAt(d, "serve", IF ctl[c] = "waiting" /\ request[c] = "shutdown" THEN "leave"
                            ELSE "accept")
    /\ ctl' = [ctl EXCEPT ![c] = "off"]
    /\ serving' = [serving EXCEPT ![d] = {}]
    /\ UNCHANGED <<backlog, path, request, runs, commands, kills>>

\* The user's interrupt.
SigInt(d) ==
  /\ DaemonAt(d, "accept", "leave")
  /\ UNCHANGED <<backlog, serving, path, ctl, request, runs, commands, kills>>

\* The end: the path is removed, the process exits.
Leave(d) ==
  /\ DaemonAt(d, "leave", "off")
  /\ path' = "nothing"
  /\ Hangs(d, Conns(d))
  /\ serving' = [serving EXCEPT ![d] = {}]
  /\ backlog' = [backlog EXCEPT ![d] = <<>>]
  /\ UNCHANGED <<request, runs, commands, kills>>

\* A killed daemon leaves its path; a statement of the import that fails ends it too.
DaemonDies(d) ==
  /\ daemon[d] # "off" /\ DaemonAt(d, daemon[d], "off")
  /\ kills < MaxKills /\ kills' = kills + 1
  /\ path' = IF path = d THEN "stale" ELSE path
  /\ Hangs(d, Conns(d))
  /\ serving' = [serving EXCEPT ![d] = {}]
  /\ backlog' = [backlog EXCEPT ![d] = <<>>]
  /\ UNCHANGED <<request, runs, commands>>

DaemonRuns(d) ==
  Bind(d) \/ Accept(d) \/ Respond(d) \/ Leave(d)

DaemonNext ==
  \/ \E d \in Daemons : StartDaemon(d) \/ DaemonRuns(d) \/ SigInt(d) \/ DaemonDies(d)
  \/ \E c \in Ctls : Connect(c) \/ SendRequest(c) \/ CtlDies(c)

\* A daemon that runs goes on, and a client writes its line once it is connected.
DaemonFairness ==
  /\ \A d \in Daemons : WF_daemonVars(DaemonRuns(d))
  /\ \A c \in Ctls : WF_daemonVars(SendRequest(c))

DaemonSpec == DaemonInit /\ [][DaemonNext]_daemonVars /\ DaemonFairness

\* Every command ends, though no side has a time limit: it is answered or its connection closes,
\* also when other clients die, another daemon takes the socket, or the daemon is shut down with
\* commands waiting.
EveryCommandEnds == \A c \in Ctls : ctl[c] = "waiting" ~> ctl[c] # "waiting"

===============================================================================
