------------------------------ MODULE ChatTurn ------------------------------
(***************************************************************************)
(* Chat turns of several surfaces over shared conversations: App::chat and *)
(* App::chat_stream (ira-api/src/lib.rs), the rows they append             *)
(* (ira-store/src/conversations.rs) and the handlers that start them       *)
(* (ira-server/src/lib.rs).                                                *)
(*                                                                         *)
(* A turn takes the lock of its conversation, appends the user's message,  *)
(* reads the history back, asks the model and appends the reply or an      *)
(* error.  Locks live in a map of weak references: a lock exists while     *)
(* some turn holds a reference to it.  Each process has a map of its own;  *)
(* the rows are in the database they share.                                *)
(*                                                                         *)
(* A "stream" turn runs on a task nobody drops.  A "blocking" turn runs in *)
(* its HTTP handler, which is dropped when the client goes away.  Both die *)
(* with their process.  An INSERT sent by a turn that is cut short may     *)
(* still be run by the database, at any later time.                        *)
(*                                                                         *)
(* Abstracted: what the model answers (ToolLoop has the inside of that     *)
(* step), the texts, and the reads that precede the first append.          *)
(***************************************************************************)
EXTENDS Naturals, Sequences, FiniteSets

CONSTANTS
  Turns,       \* turns; a lock is named after the turn that created it
  Convs,       \* conversations
  Procs,       \* processes that embed ira-api over one database
  None,        \* no lock, no turn
  ContextLimit,  \* CONTEXT_LIMIT: how many messages a turn reads back at most
  MaxDeltas,   \* bound: fragments one turn emits
  MaxCrashes   \* bound: process crashes

ASSUME ChatTurnAssumption ==
  /\ None \notin Turns
  /\ ContextLimit \in Nat \ {0}
  /\ MaxDeltas \in Nat
  /\ MaxCrashes \in Nat

VARIABLES
  req,         \* per turn: the process, conversation and kind it is run with
  pc,          \* per turn: where it is
  lockOf,      \* per turn: the Arc it holds
  registered,  \* per process and conversation: what the weak reference points to
  holder,      \* per lock: the turn inside
  waiters,     \* per lock: the turns waiting, first come first served
  rows,        \* per conversation: its rows in the order of created_at
  context,     \* per turn: how long the log was when it read its history
  events,      \* per turn: what its sink, or its HTTP response, was given
  late,        \* per turn: the role of a row still on its way when it was cut
  crashes      \* process crashes so far

vars == <<req, pc, lockOf, registered, holder, waiters, rows, context, events, late, crashes>>

lockVars == <<lockOf, registered, holder, waiters>>

----------------------------------------------------------------------------
Kinds == {"stream", "blocking"}

RowRoles == {"user", "assistant", "error"}

Places == {"idle", "lookup", "enqueue", "waiting", "prepare", "context", "model",
           "retry", "reply", "error", "finished", "cut"}

\* Where a turn holds its conversation's lock.
CriticalPlaces == {"prepare", "context", "model", "retry", "reply", "error"}

Critical(t) == pc[t] \in CriticalPlaces

Over(t) == pc[t] \in {"finished", "cut"}

Row(t, role) == [turn |-> t, role |-> role]

\* append_message inserts the row, then touches the conversation (and titles it);
\* the row stays when a later statement fails.
AppendOutcomes == {"ok", "lost", "kept_but_failed"}

AppendRow(t, role, outcome) ==
  rows' = IF outcome = "lost"
            THEN rows
            ELSE [rows EXCEPT ![req[t].conv] = Append(@, Row(t, role))]

\* The rows a provider understands: the query leaves errors out before it counts.
Messages(t) == {i \in 1..context[t] : rows[req[t].conv][i].role # "error"}

\* context_messages: the history a turn has read, the last ContextLimit of them.
History(t) ==
  {i \in Messages(t) : Cardinality({j \in Messages(t) : j >= i}) <= ContextLimit}

\* Older messages were left out.
Shortened(t) == Cardinality(Messages(t)) > ContextLimit

Emit(t, type) == events' = [events EXCEPT ![t] = Append(@, type)]

Goto(t, place) == pc' = [pc EXCEPT ![t] = place]

\* Mutant: an early return leaves the mutex locked.
DropArcOnly(ts) ==
  /\ lockOf' = [t \in Turns |-> IF t \in ts THEN None ELSE lockOf[t]]
  /\ UNCHANGED <<holder, waiters>>

\* Dropping the guard and the Arc when the turns of a set end.  A waiter that is
\* dropped keeps its place in the queue, and is passed over.
Drop(ts) ==
  /\ lockOf' = [t \in Turns |-> IF t \in ts THEN None ELSE lockOf[t]]
  /\ holder' = [l \in Turns |-> IF holder[l] \in ts THEN None ELSE holder[l]]
  /\ UNCHANGED waiters

----------------------------------------------------------------------------
Init ==
  /\ req \in [Turns -> [proc : Procs, conv : Convs, kind : Kinds]]
  /\ pc = [t \in Turns |-> "idle"]
  /\ lockOf = [t \in Turns |-> None]
  /\ registered = [p \in Procs |-> [c \in Convs |-> None]]
  /\ holder = [l \in Turns |-> None]
  /\ waiters = [l \in Turns |-> <<>>]
  /\ rows = [c \in Convs |-> <<>>]
  /\ context = [t \in Turns |-> 0]
  /\ events = [t \in Turns |-> <<>>]
  /\ late = [t \in Turns |-> None]
  /\ crashes = 0

\* A surface sends a message.
Request(t) ==
  /\ pc[t] = "idle"
  /\ Goto(t, "lookup")
  /\ UNCHANGED <<req, lockVars, rows, context, events, late, crashes>>

\* Mutant: a lock counts as live only while somebody is inside.
AliveIfHeld(l) == holder[l] # None

\* Weak::strong_count(l) > 0.
Alive(l) == \E u \in Turns : lockOf[u] = l

\* The map of a process without the dead locks.
Kept(p) ==
  [c \in Convs |-> IF registered[p][c] # None /\ Alive(registered[p][c])
                     THEN registered[p][c] ELSE None]

\* The live lock of the turn's conversation, or a new one.
SharedLock(t) ==
  LET kept == Kept(req[t].proc)[req[t].conv] IN IF kept = None THEN t ELSE kept

\* conversation_lock: forget dead locks, share the live one or create one.  The
\* map itself is locked meanwhile.
Lookup(t) ==
  /\ pc[t] = "lookup"
  /\ registered' =
       [registered EXCEPT ![req[t].proc] =
          [Kept(req[t].proc) EXCEPT ![req[t].conv] = SharedLock(t)]]
  /\ lockOf' = [lockOf EXCEPT ![t] = SharedLock(t)]
  /\ Goto(t, "enqueue")
  /\ UNCHANGED <<req, holder, waiters, rows, context, events, late, crashes>>

\* lock().await: a fair mutex serves its waiters first come, first served.
Enqueue(t) ==
  /\ pc[t] = "enqueue"
  /\ waiters' = [waiters EXCEPT ![lockOf[t]] = Append(@, t)]
  /\ Goto(t, "waiting")
  /\ UNCHANGED <<req, lockOf, registered, holder, rows, context, events, late, crashes>>

Acquire(t) ==
  /\ pc[t] = "waiting"
  /\ holder[lockOf[t]] = None
  /\ LET queue == waiters[lockOf[t]] IN
       \E i \in DOMAIN queue :
         /\ queue[i] = t
         /\ \A j \in 1..(i - 1) : pc[queue[j]] # "waiting"
         /\ waiters' = [waiters EXCEPT ![lockOf[t]] = SubSeq(queue, i + 1, Len(queue))]
  /\ holder' = [holder EXCEPT ![lockOf[t]] = t]
  /\ Goto(t, "prepare")
  /\ UNCHANGED <<req, lockOf, registered, rows, context, events, late, crashes>>

\* The turn returns: the last event it gives, and its lock.
Finish(t, type) ==
  /\ Goto(t, "finished")
  /\ Emit(t, type)
  /\ Drop({t})
  /\ UNCHANGED registered

\* No pool, no preferences, no catalogue, no key: nothing has been written.
FailEarly(t) ==
  /\ pc[t] = "prepare"
  /\ Finish(t, "error")
  /\ UNCHANGED <<req, rows, context, late, crashes>>

\* Mutant: a message that could not be stored is ignored.
AppendUserUnchecked(t) ==
  /\ pc[t] = "prepare"
  /\ \E outcome \in AppendOutcomes : AppendRow(t, "user", outcome)
  /\ Goto(t, "context")
  /\ UNCHANGED <<req, lockVars, context, events, late, crashes>>

AppendUser(t) ==
  /\ pc[t] = "prepare"
  /\ \E outcome \in AppendOutcomes :
       /\ AppendRow(t, "user", outcome)
       /\ IF outcome = "ok"
            THEN Goto(t, "context") /\ UNCHANGED <<lockVars, events>>
            ELSE Finish(t, "error")
  /\ UNCHANGED <<req, context, late, crashes>>

ReadContext(t) ==
  /\ pc[t] = "context"
  /\ context' = [context EXCEPT ![t] = Len(rows[req[t].conv])]
  /\ Goto(t, "model")
  /\ UNCHANGED <<req, lockVars, rows, events, late, crashes>>

\* The history or the prompt cannot be read.  Only a stream records the error.
ContextFails(t) ==
  /\ pc[t] = "context"
  /\ IF req[t].kind = "stream"
       THEN Goto(t, "error") /\ UNCHANGED <<lockVars, events>>
       ELSE Finish(t, "error")
  /\ UNCHANGED <<req, rows, context, late, crashes>>

\* The tool loop forwards a fragment.
Delta(t) ==
  /\ pc[t] \in {"model", "retry"}
  /\ req[t].kind = "stream"
  /\ Len(events[t]) < MaxDeltas
  /\ Emit(t, "delta")
  /\ UNCHANGED <<req, pc, lockVars, rows, context, late, crashes>>

\* The model does not support tools: ask again without them, once.
RetryWithoutTools(t) ==
  /\ pc[t] = "model"
  /\ Goto(t, "retry")
  /\ IF req[t].kind = "stream" THEN Emit(t, "reset") ELSE UNCHANGED events
  /\ UNCHANGED <<req, lockVars, rows, context, late, crashes>>

ModelReturns(t) ==
  /\ pc[t] \in {"model", "retry"}
  /\ Goto(t, "reply") \/ Goto(t, "error")
  /\ UNCHANGED <<req, lockVars, rows, context, events, late, crashes>>

\* Mutant: the reply is stored from a task of its own, as memory notes are.
AppendReplyDetached(t) ==
  /\ pc[t] = "reply"
  /\ late' = [late EXCEPT ![t] = "assistant"]
  /\ Finish(t, "done")
  /\ UNCHANGED <<req, rows, context, crashes>>

\* Mutant: the result of storing the reply is ignored.
AppendReplyUnchecked(t) ==
  /\ pc[t] = "reply"
  /\ \E outcome \in AppendOutcomes : AppendRow(t, "assistant", outcome)
  /\ Finish(t, "done")
  /\ UNCHANGED <<req, context, late, crashes>>

\* The reply is stored before the turn is declared done.  A stream whose reply
\* cannot be stored records an error instead.
AppendReply(t) ==
  /\ pc[t] = "reply"
  /\ \E outcome \in AppendOutcomes :
       /\ AppendRow(t, "assistant", outcome)
       /\ CASE outcome = "ok" -> Finish(t, "done")
            [] outcome # "ok" /\ req[t].kind = "stream" ->
                 Goto(t, "error") /\ UNCHANGED <<lockVars, events>>
            [] OTHER -> Finish(t, "error")
  /\ UNCHANGED <<req, context, late, crashes>>

\* The error row is attempted; the turn reports the error either way.
AppendError(t) ==
  /\ pc[t] = "error"
  /\ \E outcome \in AppendOutcomes : AppendRow(t, "error", outcome)
  /\ Finish(t, "error")
  /\ UNCHANGED <<req, context, late, crashes>>

----------------------------------------------------------------------------
\* The statements a turn may have under way when it is cut short.
UnderWay(t) ==
  CASE pc[t] = "prepare" -> {None, "user"}
    [] pc[t] = "reply"   -> {None, "assistant"}
    [] pc[t] = "error"   -> {None, "error"}
    [] OTHER             -> {None}

\* Turns are dropped at whatever await they are at.
Cut(ts) ==
  /\ pc' = [t \in Turns |-> IF t \in ts THEN "cut" ELSE pc[t]]
  /\ Drop(ts)
  /\ late' \in {f \in [Turns -> RowRoles \cup {None}] :
                  \A t \in Turns : IF t \in ts THEN f[t] \in UnderWay(t) ELSE f[t] = late[t]}

\* The client of a blocking turn goes away and its handler is dropped.
ClientGone(t) ==
  /\ req[t].kind = "blocking"
  /\ pc[t] # "idle" /\ ~Over(t)
  /\ Cut({t})
  /\ UNCHANGED <<req, registered, rows, context, events, crashes>>

Running(p) == {t \in Turns : req[t].proc = p /\ pc[t] # "idle" /\ ~Over(t)}

\* A process dies, and starts again with an empty map.
Crash(p) ==
  /\ crashes < MaxCrashes
  /\ crashes' = crashes + 1
  /\ Cut(Running(p))
  /\ registered' = [registered EXCEPT ![p] = [c \in Convs |-> None]]
  /\ UNCHANGED <<req, rows, context, events>>

\* The database runs a statement whose sender is gone.
LateRow(t) ==
  /\ late[t] # None
  /\ rows' = [rows EXCEPT ![req[t].conv] = Append(@, Row(t, late[t]))]
  /\ late' = [late EXCEPT ![t] = None]
  /\ UNCHANGED <<req, pc, lockVars, context, events, crashes>>

----------------------------------------------------------------------------
\* What the code itself does next for a turn.
Step(t) ==
  \/ Lookup(t) \/ Enqueue(t) \/ Acquire(t)
  \/ FailEarly(t) \/ AppendUser(t) \/ ReadContext(t) \/ ContextFails(t)
  \/ Delta(t) \/ RetryWithoutTools(t) \/ ModelReturns(t)
  \/ AppendReply(t) \/ AppendError(t)

Next ==
  \/ \E t \in Turns : Request(t) \/ Step(t) \/ ClientGone(t) \/ LateRow(t)
  \/ \E p \in Procs : Crash(p)

Spec == Init /\ [][Next]_vars

\* The runtime polls every task that can move, the database answers, and so does
\* the provider: the code sets no timeout on it, so this is an assumption about
\* the environment.  Nothing forces clients to send, to leave or to crash.
FairSpec == Spec /\ \A t \in Turns : WF_vars(Step(t))

----------------------------------------------------------------------------
\* Type invariant; a turn holds an Arc exactly from its lookup to its end.
TypeOK ==
  /\ req \in [Turns -> [proc : Procs, conv : Convs, kind : Kinds]]
  /\ pc \in [Turns -> Places]
  /\ lockOf \in [Turns -> Turns \cup {None}]
  /\ \A t \in Turns : lockOf[t] = None <=> pc[t] \in {"idle", "lookup", "finished", "cut"}
  /\ registered \in [Procs -> [Convs -> Turns \cup {None}]]
  /\ holder \in [Turns -> Turns \cup {None}]
  /\ waiters \in [Turns -> Seq(Turns)]
  /\ rows \in [Convs -> Seq([turn : Turns, role : RowRoles])]
  /\ context \in [Turns -> Nat]
  /\ events \in [Turns -> Seq({"delta", "reset", "done", "error"})]
  /\ late \in [Turns -> RowRoles \cup {None}]
  /\ crashes \in 0..MaxCrashes

Rivals(t, u) == t # u /\ req[t].proc = req[u].proc /\ req[t].conv = req[u].conv

\* Turns of one process on one conversation never hold references to two locks,
\* however the map forgets dead locks and creates new ones in between.
OneLockPerConversation ==
  \A t, u \in Turns :
    Rivals(t, u) /\ lockOf[t] # None /\ lockOf[u] # None => lockOf[t] = lockOf[u]

\* Two turns of a process are never both inside the same conversation
\* (http-api.md: "Chat turns are serialized per conversation by an in-process lock").
MutualExclusion ==
  \A t, u \in Turns : Rivals(t, u) => ~(Critical(t) /\ Critical(u))

\* The rows of a turn are consecutive: nobody else's row stands between its
\* message and its reply or error, strays of turns cut short apart.
TurnsDoNotInterleave ==
  \A c \in Convs : \A i, k \in DOMAIN rows[c] : \A j \in (i + 1)..(k - 1) :
    LET t == rows[c][i].turn
        u == rows[c][j].turn
    IN  rows[c][k].turn = t /\ u # t => pc[t] = "cut" \/ pc[u] = "cut"

Done(t) == events[t] # <<>> /\ events[t][Len(events[t])] = "done"

\* The model is asked about the settled end of the conversation.  Every other turn in it is
\* over.  A turn in it that was declared done is there with its reply, and with its question
\* unless the limit cut it off: then nothing but strays stands before its reply.  The last
\* message is the one to answer; strays behind it may push it out of a full history.
SettledContext ==
  \A t \in Turns : pc[t] \in {"model", "retry", "reply"} =>
    LET log == rows[req[t].conv]
        read == History(t)
        Has(u, role) == \E i \in read : log[i] = Row(u, role)
        Stray(i) == pc[log[i].turn] = "cut"
    IN  /\ Has(t, "user") \/ (Shortened(t) /\ \A i \in read : Stray(i))
        /\ \A i \in read : LET u == log[i].turn IN
             /\ u # t => Over(u)
             /\ Done(u) => Has(u, "assistant")
             /\ Done(u) /\ ~Has(u, "user") => Shortened(t) /\ \A j \in read : j < i => Stray(j)
             /\ (\A j \in read : j <= i) => log[i] = Row(t, "user") \/ Stray(i)

\* "done" is said only of a turn whose message and reply are stored, in this order
\* (http-api.md: "turn complete; the reply and the user message are persisted").
DoneIsPersisted ==
  \A t \in Turns : Done(t) =>
    LET log == rows[req[t].conv] IN
      \E i, k \in DOMAIN log : i < k /\ log[i] = Row(t, "user") /\ log[k] = Row(t, "assistant")

\* A turn that was started ends, also when others fail, leave or die inside the
\* conversation it waits for.
EveryTurnEnds == \A t \in Turns : pc[t] = "lookup" ~> Over(t)

----------------------------------------------------------------------------
\* The turn that has a conversation open.
Current(c) ==
  IF \E t \in Turns : Critical(t) /\ req[t].conv = c
    THEN CHOOSE t \in Turns : Critical(t) /\ req[t].conv = c
    ELSE None

Serial == INSTANCE SerialChat
            WITH NoTurn <- None, log <- rows,
                 current <- [c \in Convs |-> Current(c)],
                 closed <- {t \in Turns : Over(t)},
                 torn <- {t \in Turns : pc[t] = "cut"}

\* Within one process the lock makes the shared log a sequence of whole turns.
ImplementsSerial == Serial!SerialSpec

=============================================================================
