---------------------------- MODULE McpManager ----------------------------
(***************************************************************************)
(* The process-wide table of MCP sessions (McpManager, ira-mcp/src/        *)
(* manager.rs) and who uses it: turns that attach the configured servers   *)
(* (attach_configured, ira-tools/src/mcp.rs), and the settings that save,  *)
(* delete and test one (save_mcp, delete_mcp, test_mcp of ira-api).        *)
(*                                                                         *)
(* One server id and one process. A configuration is a version; the file   *)
(* holds the current one. Every lock of the manager is taken for one map   *)
(* operation, so a connect is a sequence of steps between which the others *)
(* run; only this process's settings exclude each other. The ira command   *)
(* and any other process write the same file whenever they like, and drop  *)
(* nothing of this table.                                                  *)
(*                                                                         *)
(* Abstracted: the protocol (McpStdio has it), tools, variables of a       *)
(* configuration, the project's own file. Time: a recorded failure expires *)
(* at some moment. The session is one over stdio: its child can die, and   *)
(* is seen to have died.                                                   *)
(***************************************************************************)
EXTENDS Naturals

CONSTANTS
  Users,     \* concurrent turns and settings requests
  Versions,  \* configurations of the server
  Good,      \* the ones whose server starts, unless there is a mishap
  MaxEdits,  \* bound: saves, deletions and tests, here and elsewhere
  MaxMishaps \* bound: tries that fail or are given up, children that die

ASSUME McpManagerAssumption ==
  /\ Versions \subseteq Nat \ {0}
  /\ Good \subseteq Versions
  /\ MaxEdits \in Nat /\ MaxMishaps \in Nat

\* No configuration: the server is not in the file.
Absent == 0

VARIABLES
  file,    \* the configuration in ira.json
  slot,    \* the session of the table: of which configuration, and whether it lives
  fail,    \* a failure is recorded and has not expired
  config,  \* the settings' lock (mcp_config) is held
  step,    \* what each user is at
  mine,    \* the configuration it loaded
  kind,    \* "turn", "test" or "edit"
  edits, mishaps,
  raced,   \* history: the settings dropped the session, or the file was written elsewhere,
           \* while somebody was connecting with an older configuration, or the settings were
           \* dropped themselves before they could
  unseen   \* history: the file was written elsewhere while there was a session, and this
           \* process has not connected with what it says, nor dropped the session, since

managerVars == <<file, slot, fail, config, step, mine, kind, edits, mishaps, raced, unseen>>

Session(v, up) == [of |-> v, up |-> up]
NoSession == Session(Absent, FALSE)

Connecting == {"connect", "failed before", "open", "opened", "cleared", "broken"}

ManagerInit ==
  /\ file \in Versions \union {Absent}
  /\ slot = NoSession
  /\ fail = FALSE /\ config = FALSE
  /\ step = [u \in Users |-> "idle"]
  /\ mine = [u \in Users |-> Absent]
  /\ kind = [u \in Users |-> "turn"]
  /\ edits = 0 /\ mishaps = 0
  /\ raced = FALSE /\ unseen = FALSE

At(u, here, there) == step[u] = here /\ step' = [step EXCEPT ![u] = there]

----------------------------------------------------------------------------
\* connect, one lock at a time.

\* Mutant: any living session will do.
ReusableIfAlive(v) == slot.up

\* The fingerprint is the one of this configuration and the child lives.
Reusable(v) == slot.up /\ slot.of = v

\* Whoever is connected with the file's configuration has seen what was written elsewhere.
StillUnseen(u) == unseen /\ mine[u] # file

LookUp(u) ==
  /\ At(u, "connect", IF Reusable(mine[u]) THEN "connected" ELSE "failed before")
  /\ unseen' = IF Reusable(mine[u]) THEN StillUnseen(u) ELSE unseen
  /\ UNCHANGED <<file, slot, fail, config, mine, kind, edits, mishaps, raced>>

\* A failure less than FAIL_TTL old is the answer, without a try.
CheckFail(u) ==
  /\ At(u, "failed before", IF fail THEN "idle" ELSE "open")
  /\ UNCHANGED <<file, slot, fail, config, mine, kind, edits, mishaps, raced, unseen>>

OpenSucceeds(u) ==
  /\ mine[u] \in Good
  /\ At(u, "open", "opened")
  /\ UNCHANGED <<file, slot, fail, config, mine, kind, edits, mishaps, raced, unseen>>

\* Something that may go wrong does.
Mishap == mishaps < MaxMishaps /\ mishaps' = mishaps + 1

OpenFails(u) ==
  /\ At(u, "open", "broken")
  /\ \/ mine[u] \notin Good /\ UNCHANGED mishaps
     \/ Mishap
  /\ UNCHANGED <<file, slot, fail, config, mine, kind, edits, raced, unseen>>

ClearFail(u) ==
  /\ At(u, "opened", "cleared")
  /\ fail' = FALSE
  /\ UNCHANGED <<file, slot, config, mine, kind, edits, mishaps, raced, unseen>>

\* Whatever session was there is replaced.
Install(u) ==
  /\ At(u, "cleared", "connected")
  /\ slot' = Session(mine[u], TRUE)
  /\ unseen' = StillUnseen(u)
  /\ UNCHANGED <<file, fail, config, mine, kind, edits, mishaps, raced>>

RecordFail(u) ==
  /\ At(u, "broken", "idle")
  /\ fail' = TRUE
  /\ UNCHANGED <<file, slot, config, mine, kind, edits, mishaps, raced, unseen>>

\* attach_configured waits no longer than the open itself may take, and the client of any
\* request may go away: the connect is dropped where it stands, with what it opened.
GiveUp(u) ==
  /\ kind[u] # "edit"
  /\ \E here \in Connecting \union {"drop slot", "drop fail"} : At(u, here, "idle")
  /\ Mishap
  /\ UNCHANGED <<file, slot, fail, config, mine, kind, edits, raced, unseen>>

\* The turn or the test ends. Each of its requests took the session that was in the table
\* at that moment, of whatever configuration, or had an error.
End(u) ==
  /\ At(u, "connected", "idle")
  /\ UNCHANGED <<file, slot, fail, config, mine, kind, edits, mishaps, raced, unseen>>

----------------------------------------------------------------------------
\* A turn and a test load the file and connect.
Attach(u) ==
  /\ file # Absent
  /\ At(u, "idle", "connect")
  /\ mine' = [mine EXCEPT ![u] = file]
  /\ kind' = [kind EXCEPT ![u] = "turn"]
  /\ UNCHANGED <<file, slot, fail, config, edits, mishaps, raced, unseen>>

\* test_mcp disconnects first. It does not take the settings' lock.
Test(u) ==
  /\ file # Absent /\ edits < MaxEdits
  /\ At(u, "idle", "drop slot")
  /\ mine' = [mine EXCEPT ![u] = file]
  /\ kind' = [kind EXCEPT ![u] = "test"]
  /\ edits' = edits + 1
  /\ UNCHANGED <<file, slot, fail, config, mishaps, raced, unseen>>

\* save_mcp and delete_mcp hold the lock to the end.
Edit(u) ==
  /\ ~config /\ edits < MaxEdits
  /\ At(u, "idle", "write")
  /\ \E v \in Versions \union ({Absent} \ {file}) : mine' = [mine EXCEPT ![u] = v]
  /\ kind' = [kind EXCEPT ![u] = "edit"]
  /\ config' = TRUE
  /\ edits' = edits + 1
  /\ UNCHANGED <<file, slot, fail, mishaps, raced, unseen>>

\* Mutant: only the recorded failure is dropped.
WriteFileOnly(u) ==
  /\ At(u, "write", "drop fail")
  /\ file' = mine[u]
  /\ UNCHANGED <<slot, fail, config, mine, kind, edits, mishaps, raced, unseen>>

WriteFile(u) ==
  /\ At(u, "write", "drop slot")
  /\ file' = mine[u]
  /\ UNCHANGED <<slot, fail, config, mine, kind, edits, mishaps, raced, unseen>>

\* The file cannot be read or replaced: the request fails and nothing is dropped.
WriteFileFails(u) ==
  /\ At(u, "write", "idle")
  /\ config' = FALSE
  /\ Mishap
  /\ UNCHANGED <<file, slot, fail, mine, kind, edits, raced, unseen>>

\* The client goes away when the file is written: what is left is not done.
Abandon(u) ==
  /\ kind[u] = "edit"
  /\ At(u, "drop slot", "idle") \/ At(u, "drop fail", "idle")
  /\ config' = FALSE
  /\ raced' = TRUE
  /\ Mishap
  /\ UNCHANGED <<file, slot, fail, mine, kind, edits, unseen>>

\* A turn or a test that loaded another configuration has yet to connect.
StaleConnect ==
  \E u \in Users :
    kind[u] # "edit" /\ step[u] \notin {"idle", "connected"} /\ mine[u] # file

\* disconnect: the session, then the failure.
DropSlot(u) ==
  /\ At(u, "drop slot", "drop fail")
  /\ slot' = NoSession
  /\ raced' = (raced \/ (kind[u] = "edit" /\ StaleConnect))
  /\ unseen' = FALSE
  /\ UNCHANGED <<file, fail, config, mine, kind, edits, mishaps>>

DropFail(u) ==
  /\ At(u, "drop fail", IF kind[u] = "test" THEN "connect" ELSE "idle")
  /\ fail' = FALSE
  /\ config' = IF kind[u] = "edit" THEN FALSE ELSE config
  /\ UNCHANGED <<file, slot, mine, kind, edits, mishaps, raced, unseen>>

\* The ira command, or another process's settings, rewrites the file: neither this process's
\* lock nor its table knows.
Elsewhere ==
  /\ edits < MaxEdits
  /\ edits' = edits + 1
  /\ file' \in (Versions \union {Absent}) \ {file}
  /\ unseen' = (slot # NoSession)
  /\ UNCHANGED <<slot, fail, config, step, mine, kind, mishaps>>
  /\ raced' = (raced \/ StaleConnect')

----------------------------------------------------------------------------
Expire ==
  /\ fail
  /\ fail' = FALSE
  /\ UNCHANGED <<file, slot, config, step, mine, kind, edits, mishaps, raced, unseen>>

ChildDies ==
  /\ slot.up /\ Mishap
  /\ slot' = Session(slot.of, FALSE)
  /\ UNCHANGED <<file, fail, config, step, mine, kind, edits, raced, unseen>>

Connect(u) ==
  \/ LookUp(u) \/ CheckFail(u) \/ OpenSucceeds(u) \/ OpenFails(u)
  \/ ClearFail(u) \/ Install(u) \/ RecordFail(u)

Settle(u) == WriteFile(u) \/ WriteFileFails(u) \/ DropSlot(u) \/ DropFail(u)

ManagerNext ==
  \/ Expire \/ ChildDies \/ Elsewhere
  \/ \E u \in Users :
       \/ Attach(u) \/ Test(u) \/ Edit(u) \/ Connect(u) \/ End(u) \/ Settle(u)
       \/ GiveUp(u) \/ Abandon(u)

ManagerSpec == ManagerInit /\ [][ManagerNext]_managerVars

\* Tasks run, time passes and turns keep coming.
ManagerFairness ==
  /\ WF_managerVars(Expire)
  /\ WF_managerVars(\E u \in Users : Attach(u))
  /\ \A u \in Users : WF_managerVars(Connect(u) \/ End(u) \/ Settle(u))

FairManagerSpec == ManagerSpec /\ ManagerFairness

----------------------------------------------------------------------------
\* The configuration is written before the session is dropped, so a session of an older
\* configuration can only be there because somebody was connecting with it at that moment,
\* or the request was dropped in between: otherwise what a turn finds once the settings
\* have answered is of the file's. What the ira command or another process writes drops
\* nothing here: the older session stays until this process next connects with what the
\* file says, and no longer.
ServesTheFile ==
  ~raced /\ ~unseen /\ ~config /\ slot # NoSession => slot.of = file

\* Whatever races there were, when the user leaves the settings alone the table settles
\* on a living session of the configuration in the file: a session or a recorded failure
\* of an older one does not stay in the way.
Converges == <>[](file \in Good => slot = Session(file, TRUE))

=============================================================================
