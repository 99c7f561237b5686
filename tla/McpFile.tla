------------------------------- MODULE McpFile --------------------------------
(***************************************************************************)
(* The two files that hold the configured MCP servers (ira-mcp/src/        *)
(* config_file.rs), the user's (global) and the project's, and everybody   *)
(* who edits them: the settings of the API, which exclude each other       *)
(* within one process (mcp_config, ira-api: the server and the desktop     *)
(* have one each), and the ira command, another process, which excludes    *)
(* nobody (ira-tui/src/mcp_cli.rs).                                        *)
(*                                                                         *)
(* An edit reads the file, changes what it read, writes all of it under a  *)
(* second name that everybody uses, and renames it.  A write that is       *)
(* caught half way is torn, and a torn file refuses every reader; one      *)
(* whose file is renamed by another goes on writing under the new name.    *)
(*                                                                         *)
(* Abstracted: a configuration, to its transport and one secret; the other *)
(* keys of the file; the sessions an edit drops (McpManager has them).     *)
(***************************************************************************)
EXTENDS Naturals

CONSTANTS
  Apps,      \* processes with settings: the settings requests of each
  Commands,  \* runs of the ira command
  Names,     \* servers
  Transports,
  Secret,    \* a secret, of whatever server
  Blank,     \* no secret; as input of the settings: the one there is
  NoServer,
  MaxJobs,   \* bound: edits
  MaxHalts   \* bound: writes that fail, and deaths

Requests == UNION Apps

Editors == Requests \union Commands

\* Who waits for the same lock as e.
Fellows(e) == UNION {requests \in Apps : e \in requests}

FilePlaces == {"global", "project"}

Configs == Transports \X {Secret, Blank}

Nothing == [n \in Names |-> NoServer]

VARIABLES
  disk,    \* per place: what the file holds
  torn,    \* the places whose file is torn
  temp,    \* per place: what the second name holds: nothing, a torn or a whole text
  editing, \* per editor: where its edit is
  job,     \* the edit: its server, what is wanted of it, the places it has yet to do
  held,    \* what the editor read
  handle,  \* where the file it writes is by now: "temp", "live", "gone"
  guard,   \* the requests that hold the mcp_config of their process
  jobs, halts,
  overlapped, \* history: somebody edited while the command, or another process, did
  meant,   \* history, per place: what the edits that were done wanted of it
  settled  \* history, per server: what the settings saved, until the command changes it

fileVars == <<disk, torn, temp, editing, job, held, handle, guard, jobs, halts, overlapped,
              meant, settled>>

\* Who edits is told apart; a request is of one process.
ASSUME FileAssumption ==
  /\ Requests \intersect Commands = {}
  /\ \A a, b \in Apps : a # b => a \intersect b = {}

NoJob == [name |-> NoServer, as |-> NoServer, at |-> {}]

Draft(is, has) == [is |-> is, has |-> has]

FileInit ==
  /\ disk \in {[p \in FilePlaces |-> IF p = "global" THEN g ELSE Nothing] :
                 g \in {Nothing} \union {[Nothing EXCEPT ![n] = <<t, Secret>>] :
                                           n \in Names, t \in Transports}}
  /\ torn = {} /\ temp = [p \in FilePlaces |-> Draft("none", Nothing)]
  /\ editing = [e \in Editors |-> "idle"]
  /\ job = [e \in Editors |-> NoJob]
  /\ held = [e \in Editors |-> Nothing]
  /\ handle = [e \in Editors |-> "gone"]
  /\ guard = {}
  /\ jobs = 0 /\ halts = 0
  /\ overlapped = FALSE
  /\ meant = disk /\ settled = Nothing

\* What the assistant loads: the project's file hides the user's.
Loaded(n) == IF disk["project"][n] # NoServer THEN disk["project"][n] ELSE disk["global"][n]

EditStep(e, here, there) == editing[e] = here /\ editing' = [editing EXCEPT ![e] = there]

Others(e) == {o \in Editors \ {e} : editing[o] # "idle"}

\* Where e is by now, first of the places its edit has yet to do.
Place(e) == IF "global" \in job[e].at THEN "global" ELSE "project"

Began(e) ==
  /\ jobs < MaxJobs /\ jobs' = jobs + 1
  /\ overlapped' = (overlapped \/ Others(e) \ Fellows(e) # {})

\* A blank secret stands for the one the server has, unless the transport changes.
Completed(input, previous) ==
  IF input # NoServer /\ previous # NoServer /\ input[2] = Blank /\ previous[1] = input[1]
    THEN previous ELSE input

----------------------------------------------------------------------------
\* save_mcp and delete_mcp.  A server of the project is refused to the settings.

\* Mutant: the settings do not exclude each other.
AskWithoutLock(r, n, input) ==
  /\ EditStep(r, "idle", "read") /\ Began(r)
  /\ input # NoServer =>
       "global" \notin torn /\ ("project" \in torn \/ disk["project"][n] = NoServer)
  /\ job' = [job EXCEPT ![r] = [name |-> n, as |-> Completed(input, disk["global"][n]),
                                at |-> {"global"}]]
  /\ UNCHANGED <<disk, torn, temp, held, handle, guard, halts, meant, settled>>

Ask(r, n, input) ==
  /\ EditStep(r, "idle", "read") /\ Began(r)
  /\ guard \intersect Fellows(r) = {} /\ guard' = guard \union {r}
  /\ input # NoServer =>
       "global" \notin torn /\ ("project" \in torn \/ disk["project"][n] = NoServer)
  /\ job' = [job EXCEPT ![r] = [name |-> n, as |-> Completed(input, disk["global"][n]),
                                at |-> {"global"}]]
  /\ UNCHANGED <<disk, torn, temp, held, handle, halts, meant, settled>>

\* ira mcp add, install and import (one server after the other) write one place; remove
\* goes through both.
Command(c, n, input, at) ==
  /\ EditStep(c, "idle", "read") /\ Began(c)
  /\ job' = [job EXCEPT ![c] = [name |-> n, as |-> input, at |-> at]]
  /\ UNCHANGED <<disk, torn, temp, held, handle, guard, halts, meant, settled>>

\* The edit ends here; the settings give their lock back.
Ends(e) ==
  /\ editing' = [editing EXCEPT ![e] = "idle"]
  /\ job' = [job EXCEPT ![e] = NoJob]
  /\ held' = [held EXCEPT ![e] = Nothing]
  /\ guard' = guard \ {e}

\* The next place, or the end.
Leaves(e, here) ==
  IF job[e].at = {here} THEN Ends(e)
    ELSE /\ editing' = [editing EXCEPT ![e] = "read"]
         /\ job' = [job EXCEPT ![e].at = @ \ {here}]
         /\ UNCHANGED <<held, guard>>

\* read_servers: a file nobody can read ends the edit; nothing to remove here skips it.
ReadPlace(e) ==
  /\ editing[e] = "read"
  /\ LET here == Place(e) IN
       IF here \in torn THEN Ends(e)
       ELSE IF job[e].as = disk[here][job[e].name] /\ job[e].as = NoServer
         THEN Leaves(e, here)
         ELSE /\ editing' = [editing EXCEPT ![e] = "open"]
              /\ held' = [held EXCEPT ![e] = [disk[here] EXCEPT ![job[e].name] = job[e].as]]
              /\ UNCHANGED <<job, guard>>
  /\ UNCHANGED <<disk, torn, temp, handle, jobs, halts, overlapped, meant, settled>>

\* write_servers reads the file again for its other keys, then empties the second name.
OpenTemp(e) ==
  /\ EditStep(e, "open", "write")
  /\ Place(e) \notin torn
  /\ handle' = [handle EXCEPT ![e] = "temp"]
  /\ temp' = [temp EXCEPT ![Place(e)] = Draft("torn", Nothing)]
  /\ UNCHANGED <<disk, torn, job, held, guard, jobs, halts, overlapped, meant, settled>>

\* All of it is written, wherever the file has gone since.  Over what another wrote into the
\* same file it leaves either text, or neither.
Write(e) ==
  /\ EditStep(e, "write", "rename")
  /\ LET here == Place(e)
         shared == \E o \in Others(e) : handle[o] = handle[e] /\ Place(o) = here IN
       \/ /\ handle[e] = "temp"
          /\ \/ temp' = [temp EXCEPT ![here] = Draft("whole", held[e])]
             \/ shared /\ UNCHANGED temp
          /\ UNCHANGED <<disk, torn>>
       \/ /\ handle[e] = "live"
          /\ \/ disk' = [disk EXCEPT ![here] = held[e]] /\ torn' = torn \ {here}
             \/ torn' = torn \union {here} /\ UNCHANGED disk
          /\ UNCHANGED temp
       \/ handle[e] = "gone" /\ UNCHANGED <<disk, torn, temp>>
  /\ UNCHANGED <<job, held, handle, guard, jobs, halts, overlapped, meant, settled>>

\* Where the file o writes is, once another has been renamed.
Moved(o, here) ==
  IF Place(o) # here \/ editing[o] \notin {"write", "rename"} THEN handle[o]
    ELSE IF handle[o] = "temp" THEN "live" ELSE "gone"

\* The second name takes the place of the file; when another has renamed it, the edit fails.
Rename(e) ==
  /\ editing[e] = "rename"
  /\ LET here == Place(e) IN
       IF temp[here].is = "none"
         THEN /\ Ends(e)
              /\ handle' = [handle EXCEPT ![e] = "gone"]
              /\ UNCHANGED <<disk, torn, temp, meant, settled>>
         ELSE /\ torn' = IF temp[here].is = "torn" THEN torn \union {here} ELSE torn \ {here}
              /\ disk' = [disk EXCEPT ![here] = temp[here].has]
              /\ temp' = [temp EXCEPT ![here] = Draft("none", Nothing)]
              /\ meant' = [meant EXCEPT ![here][job[e].name] = job[e].as]
              /\ settled' = [settled EXCEPT ![job[e].name] =
                               IF e \in Requests THEN job[e].as ELSE NoServer]
              /\ Leaves(e, here)
              /\ handle' = [o \in Editors |-> IF o = e THEN "gone" ELSE Moved(o, here)]
  /\ UNCHANGED <<jobs, halts, overlapped>>

\* A write or the rename fails, or the process dies, all its requests with it.
Halt(e) ==
  /\ editing[e] # "idle"
  /\ halts < MaxHalts /\ halts' = halts + 1
  /\ Ends(e)
  /\ handle' = [handle EXCEPT ![e] = "gone"]
  /\ UNCHANGED <<disk, torn, temp, jobs, overlapped, meant, settled>>

FileStep(e) == ReadPlace(e) \/ OpenTemp(e) \/ Write(e) \/ Rename(e) \/ Halt(e)

FileNext ==
  \/ \E r \in Requests, n \in Names, input \in Configs \union {NoServer} : Ask(r, n, input)
  \/ \E c \in Commands, n \in Names, input \in Configs, p \in FilePlaces : Command(c, n, input, {p})
  \/ \E c \in Commands, n \in Names : Command(c, n, NoServer, FilePlaces)
  \/ \E e \in Editors : FileStep(e)

FileSpec == FileInit /\ [][FileNext]_fileVars

\* A server that was saved stays as it was meant, with the secret it had where the user left
\* it blank, and a removed one stays away, whoever edits other servers before or after and
\* wherever a write stops; the files can always be read; and what the settings saved is what
\* the assistant loads.  Except when the ira command edits at the same time as somebody else,
\* or the settings of two processes (server and desktop) do: each has a lock of its own.
SavedStays ==
  ~overlapped =>
    /\ torn = {} /\ disk = meant
    /\ \A n \in Names : settled[n] # NoServer => Loaded(n) = settled[n]

===============================================================================
