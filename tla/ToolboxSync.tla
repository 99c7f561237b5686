----------------------------- MODULE ToolboxSync ------------------------------
(***************************************************************************)
(* The databases a user connects (ira-api: create_database, update_data-   *)
(* base, delete_database, test_database, sync_toolbox; toolbox.rs; the     *)
(* table of ira-store databases.rs) and the MCP Toolbox that serves them   *)
(* to the model.  Requests change a row, then take the lock toolbox_sync   *)
(* of the process that answers them (server and desktop have one each, and *)
(* share the database and the files), test every enabled row, and publish  *)
(* the ones that answer as files that the Toolbox watches.  The start of   *)
(* the services empties the Toolbox without the lock.  The client of any   *)
(* request may go away: it is dropped where it stands.                     *)
(*                                                                         *)
(* External: the Toolbox, which reads its files again when it likes, and   *)
(* the remote databases, which answer a test or do not.  Abstracted: the   *)
(* fields of a connection (a version, one more for each update), the text  *)
(* of files and errors, passwords (every row has one: a connection cannot  *)
(* be created without, and an update with none keeps the old one).         *)
(***************************************************************************)
EXTENDS Naturals, FiniteSets

CONSTANTS
  Conns,        \* connections
  Callers,      \* requests of the API, each one at a time
  Servers,      \* processes that answer them
  MaxVersion,   \* bound: updates of a connection
  MaxToolFaults \* bound: statements and file operations that fail, requests dropped, crashes

VARIABLES
  rows,    \* the table: per connection [there, enabled, ok, version]
  files,   \* per connection the version its file holds, 0 for no file
  served,  \* per connection the version the Toolbox serves, 0 for none
  server,  \* per caller: the process that answers it
  lock,    \* the callers that hold the toolbox_sync of their process
  call,    \* per caller: where its request is
  toolFaults,
  blind    \* history: after the last sync began something failed or was dropped and nobody
           \* was told, or that sync ran beside another process's

toolVars == <<rows, files, served, server, lock, call, toolFaults, blind>>

NoRow == [there |-> FALSE, enabled |-> FALSE, ok |-> FALSE, version |-> 0]
NoCall == [pc |-> "idle", op |-> "none", own |-> {}, todo |-> {}, probe |-> {}, unwritten |-> {}]

Enabled == {c \in Conns : rows[c].there /\ rows[c].enabled}
Active == {c \in Enabled : rows[c].ok}

\* set_database_test_result: an UPDATE, of no row when the connection is gone.
SetResult(ids, ok) ==
  [c \in Conns |-> IF c \in ids /\ rows[c].there THEN [rows[c] EXCEPT !.ok = ok] ELSE rows[c]]

\* prepare leaves the group file, which names no connection; reset removes the others.
NoFiles == [c \in Conns |-> 0]
Emptied == files' = NoFiles

ToolInit ==
  /\ rows = [c \in Conns |-> NoRow]
  /\ files = NoFiles /\ served = NoFiles
  /\ server \in [Callers -> Servers]
  /\ lock = {}
  /\ call = [k \in Callers |-> NoCall]
  /\ toolFaults = 0 /\ blind = FALSE

At(k, pc) == call[k].pc = pc
Go(k, pc) == call' = [call EXCEPT ![k].pc = pc]
Return(k) == call' = [call EXCEPT ![k] = NoCall]

----------------------------------------------------------------------------
\* The row changes first, outside the lock.

Open(k, op, own, pc) == call' = [call EXCEPT ![k] = [NoCall EXCEPT !.pc = pc, !.op = op, !.own = own]]

CreateDatabase(k, c) ==
  /\ At(k, "idle") /\ rows[c].version = 0
  /\ \E on \in BOOLEAN :
       rows' = [rows EXCEPT ![c] = [there |-> TRUE, enabled |-> on, ok |-> FALSE, version |-> 1]]
  /\ Open(k, "write", {c}, "lock")
  /\ UNCHANGED <<files, served, server, lock, toolFaults, blind>>

\* An update forgets the result of the last test.
Updated(row, on) == [row EXCEPT !.enabled = on, !.ok = FALSE, !.version = @ + 1]

UpdateDatabase(k, c) ==
  /\ At(k, "idle") /\ rows[c].there /\ rows[c].version < MaxVersion
  /\ \E on \in BOOLEAN : rows' = [rows EXCEPT ![c] = Updated(@, on)]
  /\ Open(k, "write", {c}, "lock")
  /\ UNCHANGED <<files, served, server, lock, toolFaults, blind>>

DeleteDatabase(k, c) ==
  /\ At(k, "idle") /\ rows[c].there
  /\ rows' = [rows EXCEPT ![c] = [@ EXCEPT !.there = FALSE, !.enabled = FALSE, !.ok = FALSE]]
  /\ Open(k, "delete", {}, "lock")
  /\ UNCHANGED <<files, served, server, lock, toolFaults, blind>>

\* test_database: whatever the answer, it is written to the row before the sync.
TestDatabase(k, c) ==
  /\ At(k, "idle") /\ rows[c].there
  /\ \E ok \in BOOLEAN : rows' = SetResult({c}, ok)
  /\ Open(k, "test", {}, "lock")
  /\ UNCHANGED <<files, served, server, lock, toolFaults, blind>>

\* start_services empties the Toolbox at once; try_connect leads to a sync, unless Compose
\* fails or PostgreSQL is not marked for the boot: then it goes no further.
StartServices(k) ==
  /\ At(k, "idle")
  /\ Emptied
  /\ \/ Open(k, "start", {}, "lock") /\ UNCHANGED blind
     \/ blind' = TRUE /\ UNCHANGED call
  /\ UNCHANGED <<rows, served, server, lock, toolFaults>>

----------------------------------------------------------------------------
\* sync_toolbox, under the lock.

Acquire(k) ==
  /\ At(k, "lock") /\ \A j \in lock : server[j] # server[k]
  /\ lock' = lock \union {k} /\ blind' = (lock # {})
  /\ call' = [call EXCEPT ![k].pc = "test", ![k].todo = Enabled]
  /\ UNCHANGED <<rows, files, served, server, toolFaults>>

\* test_postgres: connect, and ask whether the transaction is read only; a wrong answer, a
\* refusal and a time out are all the same to the caller.
Verdicts == {"answers", "refuses"}

\* One row of the list: its password may be gone with the row, and the test takes time.
Test(k) ==
  /\ At(k, "test") /\ call[k].todo # {}
  /\ \E c \in call[k].todo :
       IF rows[c].there
         THEN \E pc \in Verdicts :
                call' = [call EXCEPT ![k].pc = pc, ![k].todo = @ \ {c}, ![k].probe = {c}]
         ELSE Go(k, "mark")
  /\ UNCHANGED <<rows, files, served, server, lock, toolFaults, blind>>

Record(k) ==
  /\ call[k].pc \in Verdicts
  /\ rows' = SetResult(call[k].probe, At(k, "answers"))
  /\ call' = [call EXCEPT ![k].pc = "test", ![k].probe = {}]
  /\ UNCHANGED <<files, served, server, lock, toolFaults, blind>>

\* Nothing to publish: empty the Toolbox and do not wait.
NothingActive(k) ==
  /\ At(k, "test") /\ call[k].todo = {} /\ Active = {}
  /\ Emptied
  /\ Return(k) /\ lock' = lock \ {k}
  /\ UNCHANGED <<rows, served, server, toolFaults, blind>>

\* The files go first and the Toolbox must have noticed, because later it is asked for
\* names only, which are the same for every version.
Reset(k) ==
  /\ At(k, "test") /\ call[k].todo = {} /\ Active # {}
  /\ Emptied
  /\ Go(k, "wait empty")
  /\ UNCHANGED <<rows, served, server, lock, toolFaults, blind>>

\* Mutant: the old configuration is not waited for.
WaitNothing(k) ==
  /\ At(k, "wait empty")
  /\ Go(k, "render")
  /\ UNCHANGED <<rows, files, served, server, lock, toolFaults, blind>>

WaitEmpty(k) ==
  /\ At(k, "wait empty") /\ served = NoFiles
  /\ Go(k, "render")
  /\ UNCHANGED <<rows, files, served, server, lock, toolFaults, blind>>

\* The file of a row, by the settings it was rendered from.
Rendered(c) == <<c, rows[c].version>>

\* toolbox::sync: all the active rows, as they are now.
Render(k) ==
  /\ At(k, "render")
  /\ call' = [call EXCEPT ![k].pc = "passwords", ![k].unwritten = {Rendered(c) : c \in Active}]
  /\ UNCHANGED <<rows, files, served, server, lock, toolFaults, blind>>

\* Then the password of each: a row deleted since the list was read has none, and empties
\* the Toolbox.
Passwords(k) ==
  /\ At(k, "passwords")
  /\ IF \A f \in call[k].unwritten : rows[f[1]].there
       THEN Go(k, "write") /\ UNCHANGED files
       ELSE Go(k, "mark") /\ Emptied
  /\ UNCHANGED <<rows, served, server, lock, toolFaults, blind>>

WriteFile(k) ==
  /\ At(k, "write")
  /\ IF call[k].unwritten = {} THEN Go(k, "wait names") /\ UNCHANGED files
     ELSE \E f \in call[k].unwritten : /\ files' = [files EXCEPT ![f[1]] = f[2]]
                                       /\ call' = [call EXCEPT ![k].unwritten = @ \ {f}]
  /\ UNCHANGED <<rows, served, server, lock, toolFaults, blind>>

\* The names expected are those of the rows that are active by now.
WaitNames(k) ==
  /\ At(k, "wait names") /\ \A c \in Active : served[c] # 0
  /\ Return(k) /\ lock' = lock \ {k}
  /\ UNCHANGED <<rows, files, served, server, toolFaults, blind>>

TimeOut(k) ==
  /\ \/ At(k, "wait empty") /\ served # NoFiles
     \/ At(k, "wait names") /\ \E c \in Active : served[c] = 0
  /\ Go(k, "mark")
  /\ UNCHANGED <<rows, files, served, server, lock, toolFaults, blind>>

\* mark_enabled_database_error and the reset; then the caller that wrote a row marks it.
MarkAll(k) ==
  /\ At(k, "mark")
  /\ rows' = SetResult(Enabled, FALSE)
  /\ Go(k, "empty")
  /\ UNCHANGED <<files, served, server, lock, toolFaults, blind>>

EmptyToolbox(k) ==
  /\ At(k, "empty")
  /\ Emptied /\ lock' = lock \ {k}
  /\ IF call[k].op = "write" THEN Go(k, "mark own") ELSE Return(k)
  /\ UNCHANGED <<rows, served, server, toolFaults, blind>>

MarkOwn(k) ==
  /\ At(k, "mark own")
  /\ rows' = SetResult(call[k].own, FALSE)
  /\ Return(k)
  /\ UNCHANGED <<files, served, server, lock, toolFaults, blind>>

\* Something that may go wrong does.
Trouble == toolFaults < MaxToolFaults /\ toolFaults' = toolFaults + 1

\* What sync_toolbox runs as one block, publish: an error in it is marked and undone.
Publishing(k) ==
  \/ At(k, "test") /\ call[k].todo = {} /\ Active # {}
  \/ call[k].pc \in {"wait empty", "render", "passwords", "write", "wait names"}

PublishFails(k) ==
  /\ Publishing(k) /\ Trouble
  /\ Go(k, "mark")
  /\ UNCHANGED <<rows, files, served, server, lock, blind>>

\* Any other statement or file operation fails: the lock is released, nothing is undone.
ToolFault(k) ==
  /\ call[k].pc \in {"test", "mark", "empty"} \union Verdicts /\ Trouble
  /\ blind' = TRUE
  /\ lock' = lock \ {k}
  /\ IF call[k].op = "write" THEN Go(k, "mark own") ELSE Return(k)
  /\ UNCHANGED <<rows, files, served, server>>

\* The client goes away, at the latest when its row is written and nothing is published.
Drop(k) ==
  /\ ~At(k, "idle") /\ Trouble
  /\ blind' = TRUE
  /\ lock' = lock \ {k}
  /\ Return(k)
  /\ UNCHANGED <<rows, files, served, server>>

\* A process dies; when it starts it empties the Toolbox and one sync follows.
ToolCrash ==
  /\ Trouble
  /\ Emptied
  /\ \E k \in Callers :
       LET dead == {j \in Callers : server[j] = server[k]} IN
         /\ lock' = lock \ dead
         /\ call' = [j \in Callers |-> IF j = k THEN [NoCall EXCEPT !.pc = "lock", !.op = "start"]
                                      ELSE IF j \in dead THEN NoCall ELSE call[j]]
  /\ UNCHANGED <<rows, served, server, blind>>

\* External: the Toolbox notices its files.
Reload ==
  /\ served # files /\ served' = files
  /\ UNCHANGED <<rows, files, server, lock, call, toolFaults, blind>>

Sync(k) ==
  \/ Acquire(k) \/ Test(k) \/ Record(k) \/ NothingActive(k) \/ Reset(k) \/ WaitEmpty(k)
  \/ Render(k) \/ Passwords(k) \/ WriteFile(k) \/ WaitNames(k) \/ TimeOut(k) \/ MarkAll(k) \/ EmptyToolbox(k)
  \/ MarkOwn(k) \/ PublishFails(k) \/ ToolFault(k) \/ Drop(k)

Change(k) ==
  \/ \E c \in Conns : CreateDatabase(k, c) \/ UpdateDatabase(k, c) \/ DeleteDatabase(k, c)
                        \/ TestDatabase(k, c)
  \/ StartServices(k)

ToolNext == (\E k \in Callers : Change(k) \/ Sync(k)) \/ ToolCrash \/ Reload

ToolSpec == ToolInit /\ [][ToolNext]_toolVars

----------------------------------------------------------------------------
\* When no request is under way, none lost its way since the last sync began and that sync
\* did not run beside one of another process, every connection shown as working is served by
\* the Toolbox, and in its present version: the row of an update is never answered for by
\* the settings it replaced.
ServedIsCurrent ==
  (\A k \in Callers : At(k, "idle")) /\ ~blind =>
    \A c \in Active : served[c] = rows[c].version
==============================================================================
