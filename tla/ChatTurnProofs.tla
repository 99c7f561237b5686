--------------------------- MODULE ChatTurnProofs ---------------------------
(***************************************************************************)
(* Proofs about ChatTurn for any number of turns, conversations and        *)
(* processes, and any number of crashes: the type invariant, that turns of *)
(* one process exclude each other inside a conversation, and that "done"   *)
(* is said of stored turns only.  With one process over the database:      *)
(* that the model is asked about a settled history, that turns do not      *)
(* interleave, and that ChatTurn implements SerialChat.                    *)
(*                                                                         *)
(* The locks: a lock that some turn refers to is never forgotten by the    *)
(* map (a weak reference is dropped only when nobody refers to it), so     *)
(* every turn that refers to a lock refers to the registered one; and a    *)
(* turn inside a conversation is the holder of its lock.                   *)
(*                                                                         *)
(* The rows: every step of a turn walks, writes one row or stops, and the  *)
(* roles a turn has written tell where it is.  So a row goes to the end of *)
(* its log and belongs to the turn inside or to one that was cut short.    *)
(***************************************************************************)
EXTENDS ChatTurn, FiniteSetTheorems, TLAPS

Log == [turn : Turns, role : RowRoles]

EventTypes == {"delta", "reset", "done", "error"}

\* A row appended to a well-typed log gives a well-typed log.
LEMMA AppendRowType ==
  ASSUME TypeOK, NEW t \in Turns, NEW role \in RowRoles, NEW outcome,
         AppendRow(t, role, outcome)
  PROVE  rows' \in [Convs -> Seq(Log)]
<1>1. Row(t, role) \in Log
  BY DEF Row, Log
<1>2. rows \in [Convs -> Seq(Log)] /\ req[t].conv \in Convs
  BY DEF TypeOK, Log
<1>3. Append(rows[req[t].conv], Row(t, role)) \in Seq(Log)
  BY <1>1, <1>2
<1>. QED
  BY <1>2, <1>3 DEF AppendRow

\* An emitted event keeps the type of the streams.
LEMMA EmitType ==
  ASSUME TypeOK, NEW t \in Turns, NEW type \in EventTypes, Emit(t, type)
  PROVE  events' \in [Turns -> Seq(EventTypes)]
<1>1. events \in [Turns -> Seq(EventTypes)]
  BY DEF TypeOK, EventTypes
<1>2. Append(events[t], type) \in Seq(EventTypes)
  BY <1>1
<1>. QED
  BY <1>1, <1>2 DEF Emit

\* The parts of TypeOK that the end of a turn touches.
LEMMA FinishType ==
  ASSUME TypeOK, NEW t \in Turns, NEW type \in {"done", "error"}, Finish(t, type)
  PROVE  /\ pc' \in [Turns -> Places]
         /\ lockOf' \in [Turns -> Turns \cup {None}]
         /\ \A u \in Turns : lockOf'[u] = None
              <=> pc'[u] \in {"idle", "lookup", "finished", "cut"}
         /\ registered' = registered
         /\ holder' \in [Turns -> Turns \cup {None}]
         /\ waiters' = waiters
         /\ events' \in [Turns -> Seq(EventTypes)]
<1>1. events' \in [Turns -> Seq(EventTypes)]
  BY EmitType DEF Finish, EventTypes
<1>. QED
  BY <1>1 DEF Finish, Drop, Goto, TypeOK, Places

\* Moving on while holding the Arc.
Inside == {"enqueue", "waiting"} \cup CriticalPlaces

\* A move between places inside the lock keeps the types and the locks.
LEMMA GotoType ==
  ASSUME TypeOK, NEW t \in Turns, pc[t] \in Inside, NEW place \in Inside,
         Goto(t, place), UNCHANGED lockVars
  PROVE  /\ pc' \in [Turns -> Places]
         /\ \A u \in Turns : lockOf'[u] = None
              <=> pc'[u] \in {"idle", "lookup", "finished", "cut"}
BY DEF Goto, TypeOK, Places, Inside, CriticalPlaces, lockVars

\* The parts of TypeOK that cutting turns short touches.
LEMMA CutType ==
  ASSUME TypeOK, NEW ts \in SUBSET Turns, Cut(ts)
  PROVE  /\ pc' \in [Turns -> Places]
         /\ lockOf' \in [Turns -> Turns \cup {None}]
         /\ \A u \in Turns : lockOf'[u] = None
              <=> pc'[u] \in {"idle", "lookup", "finished", "cut"}
         /\ holder' \in [Turns -> Turns \cup {None}]
         /\ waiters' = waiters
         /\ late' \in [Turns -> RowRoles \cup {None}]
BY DEF Cut, Drop, TypeOK, Places

\* Every action keeps the types.
LEMMA TypeStep == TypeOK /\ [Next]_vars => TypeOK'
<1> SUFFICES ASSUME TypeOK, [Next]_vars
             PROVE  TypeOK'
  OBVIOUS
<1> USE ChatTurnAssumption
<1>1. ASSUME NEW t \in Turns, Request(t)
      PROVE  TypeOK'
  BY <1>1 DEF Request, Goto, TypeOK, Places, lockVars
<1>2. ASSUME NEW t \in Turns, Lookup(t)
      PROVE  TypeOK'
  <2>1. /\ Kept(req[t].proc) \in [Convs -> Turns \cup {None}]
        /\ SharedLock(t) \in Turns
    BY DEF Kept, SharedLock, TypeOK
  <2>2. registered' \in [Procs -> [Convs -> Turns \cup {None}]]
    BY <1>2, <2>1 DEF Lookup, TypeOK
  <2>. QED
    BY <1>2, <2>1, <2>2 DEF Lookup, Goto, TypeOK, Places
<1>3. ASSUME NEW t \in Turns, Enqueue(t)
      PROVE  TypeOK'
  <2>1. lockOf[t] \in Turns
    BY <1>3 DEF Enqueue, TypeOK
  <2>2. waiters' \in [Turns -> Seq(Turns)]
    BY <1>3, <2>1 DEF Enqueue, TypeOK
  <2>. QED
    BY <1>3, <2>2 DEF Enqueue, Goto, TypeOK, Places
<1>4. ASSUME NEW t \in Turns, Acquire(t)
      PROVE  TypeOK'
  <2>1. lockOf[t] \in Turns
    BY <1>4 DEF Acquire, TypeOK
  <2>2. waiters' \in [Turns -> Seq(Turns)]
    <3>1. PICK i \in DOMAIN waiters[lockOf[t]] :
            waiters' = [waiters EXCEPT ![lockOf[t]] =
                          SubSeq(waiters[lockOf[t]], i + 1, Len(waiters[lockOf[t]]))]
      BY <1>4 DEF Acquire
    <3>2. waiters[lockOf[t]] \in Seq(Turns)
      BY <2>1 DEF TypeOK
    <3>3. SubSeq(waiters[lockOf[t]], i + 1, Len(waiters[lockOf[t]])) \in Seq(Turns)
      BY <3>2
    <3>. QED
      BY <3>1, <3>3 DEF TypeOK
  <2>. QED
    BY <1>4, <2>1, <2>2 DEF Acquire, Goto, TypeOK, Places
<1>5. ASSUME NEW t \in Turns, FailEarly(t)
      PROVE  TypeOK'
  <2>1. Finish(t, "error") /\ UNCHANGED <<req, rows, context, late, crashes>>
    BY <1>5 DEF FailEarly
  <2>. QED
    BY <2>1, FinishType DEF TypeOK, EventTypes
<1>6. ASSUME NEW t \in Turns, AppendUser(t)
      PROVE  TypeOK'
  <2>1. PICK outcome \in AppendOutcomes :
          /\ AppendRow(t, "user", outcome)
          /\ \/ Goto(t, "context") /\ UNCHANGED <<lockVars, events>>
             \/ Finish(t, "error")
    BY <1>6 DEF AppendUser
  <2>2. rows' \in [Convs -> Seq(Log)]
    BY <2>1, AppendRowType DEF RowRoles
  <2>3. CASE Goto(t, "context") /\ UNCHANGED <<lockVars, events>>
    BY <1>6, <2>2, <2>3, GotoType DEF AppendUser, TypeOK, Log, lockVars, Inside, CriticalPlaces
  <2>4. CASE Finish(t, "error")
    BY <1>6, <2>2, <2>4, FinishType DEF AppendUser, TypeOK, Log, EventTypes
  <2>. QED
    BY <2>1, <2>3, <2>4
<1>7. ASSUME NEW t \in Turns, ReadContext(t)
      PROVE  TypeOK'
  <2>1. Len(rows[req[t].conv]) \in Nat
    BY DEF TypeOK
  <2>2. context' \in [Turns -> Nat]
    BY <1>7, <2>1 DEF ReadContext, TypeOK
  <2>. QED
    BY <1>7, <2>2, GotoType DEF ReadContext, TypeOK, lockVars, Inside, CriticalPlaces
<1>8. ASSUME NEW t \in Turns, ContextFails(t)
      PROVE  TypeOK'
  <2>1. CASE Goto(t, "error") /\ UNCHANGED <<lockVars, events>>
    BY <1>8, <2>1, GotoType DEF ContextFails, TypeOK, lockVars, Inside, CriticalPlaces
  <2>2. CASE Finish(t, "error")
    BY <1>8, <2>2, FinishType DEF ContextFails, TypeOK, EventTypes
  <2>. QED
    BY <1>8, <2>1, <2>2 DEF ContextFails
<1>9. ASSUME NEW t \in Turns, Delta(t)
      PROVE  TypeOK'
  <2>1. events' \in [Turns -> Seq(EventTypes)]
    BY <1>9, EmitType DEF Delta, EventTypes
  <2>. QED
    BY <1>9, <2>1 DEF Delta, TypeOK, lockVars, EventTypes
<1>10. ASSUME NEW t \in Turns, RetryWithoutTools(t)
       PROVE  TypeOK'
  <2>1. events' \in [Turns -> Seq(EventTypes)]
    <3>1. CASE Emit(t, "reset")
      BY <3>1, EmitType DEF EventTypes
    <3>2. CASE UNCHANGED events
      BY <3>2 DEF TypeOK, EventTypes
    <3>. QED
      BY <1>10, <3>1, <3>2 DEF RetryWithoutTools
  <2>. QED
    BY <1>10, <2>1, GotoType DEF RetryWithoutTools, TypeOK, lockVars, Inside, CriticalPlaces,
                                 EventTypes
<1>11. ASSUME NEW t \in Turns, ModelReturns(t)
       PROVE  TypeOK'
  BY <1>11, GotoType DEF ModelReturns, TypeOK, lockVars, Inside, CriticalPlaces
<1>12. ASSUME NEW t \in Turns, AppendReply(t)
       PROVE  TypeOK'
  <2>1. PICK outcome \in AppendOutcomes :
          /\ AppendRow(t, "assistant", outcome)
          /\ \/ Finish(t, "done")
             \/ Goto(t, "error") /\ UNCHANGED <<lockVars, events>>
             \/ Finish(t, "error")
    BY <1>12 DEF AppendReply
  <2>2. rows' \in [Convs -> Seq(Log)]
    BY <2>1, AppendRowType DEF RowRoles
  <2>3. CASE Goto(t, "error") /\ UNCHANGED <<lockVars, events>>
    BY <1>12, <2>2, <2>3, GotoType DEF AppendReply, TypeOK, Log, lockVars, Inside, CriticalPlaces
  <2>4. CASE Finish(t, "error") \/ Finish(t, "done")
    BY <1>12, <2>2, <2>4, FinishType DEF AppendReply, TypeOK, Log, EventTypes
  <2>. QED
    BY <2>1, <2>3, <2>4
<1>13. ASSUME NEW t \in Turns, AppendError(t)
       PROVE  TypeOK'
  <2>1. rows' \in [Convs -> Seq(Log)]
    BY <1>13, AppendRowType DEF AppendError, RowRoles
  <2>. QED
    BY <1>13, <2>1, FinishType DEF AppendError, TypeOK, Log, EventTypes
<1>14. ASSUME NEW t \in Turns, ClientGone(t)
       PROVE  TypeOK'
  BY <1>14, CutType DEF ClientGone, TypeOK
<1>15. ASSUME NEW t \in Turns, LateRow(t)
       PROVE  TypeOK'
  <2>1. late[t] \in RowRoles
    BY <1>15 DEF LateRow, TypeOK
  <2>2. rows' \in [Convs -> Seq(Log)]
    <3>1. AppendRow(t, late[t], "ok")
      BY <1>15 DEF LateRow, AppendRow
    <3>. QED
      BY <2>1, <3>1, AppendRowType
  <2>. QED
    BY <1>15, <2>2 DEF LateRow, TypeOK, Log, lockVars
<1>16. ASSUME NEW p \in Procs, Crash(p)
       PROVE  TypeOK'
  <2>1. Running(p) \in SUBSET Turns
    BY DEF Running
  <2>2. registered' \in [Procs -> [Convs -> Turns \cup {None}]]
    BY <1>16 DEF Crash, TypeOK
  <2>3. crashes' \in 0..MaxCrashes
    BY <1>16 DEF Crash, TypeOK
  <2>. QED
    BY <1>16, <2>1, <2>2, <2>3, CutType DEF Crash, TypeOK
<1>17. CASE UNCHANGED vars
  BY <1>17 DEF vars, TypeOK
<1>. QED
  BY <1>1, <1>2, <1>3, <1>4, <1>5, <1>6, <1>7, <1>8, <1>9, <1>10, <1>11, <1>12, <1>13,
     <1>14, <1>15, <1>16, <1>17 DEF Next, Step

\* The type invariant holds in every reachable state.
THEOREM TypeCorrect == Spec => []TypeOK
<1>1. Init => TypeOK
  BY ChatTurnAssumption DEF Init, TypeOK, Places
<1>. QED
  BY <1>1, TypeStep, PTL DEF Spec

----------------------------------------------------------------------------
\* Every turn that refers to a lock refers to the one the map has for it.
SharesRegistered ==
  \A t \in Turns : lockOf[t] # None => registered[req[t].proc][req[t].conv] = lockOf[t]

\* A turn inside a conversation is the holder of the lock it refers to.
HoldsItsLock == \A t \in Turns : Critical(t) => holder[lockOf[t]] = t

LockInv == SharesRegistered /\ HoldsItsLock

\* Looking a lock up forgets no lock that is in use.
LEMMA LookupKeepsLocks ==
  ASSUME TypeOK, LockInv, NEW t \in Turns, Lookup(t)
  PROVE  LockInv'
<1> DEFINE p == req[t].proc
           c == req[t].conv
<1>1. p \in Procs /\ c \in Convs
  BY DEF TypeOK
<1>2. ASSUME NEW u \in Turns, u # t, lockOf[u] # None
      PROVE  registered'[req[u].proc][req[u].conv] = lockOf[u]
  <2>1. registered[req[u].proc][req[u].conv] = lockOf[u] /\ req[u].conv \in Convs
    BY <1>2 DEF LockInv, SharesRegistered, TypeOK
  <2>2. CASE req[u].proc = p
    <3>1. Kept(p)[req[u].conv] = lockOf[u]
      BY <1>2, <2>1, <2>2 DEF Kept, Alive
    <3>2. req[u].conv = c => SharedLock(t) = lockOf[u]
      BY <1>2, <3>1 DEF SharedLock
    <3>3. registered'[p] = [Kept(p) EXCEPT ![c] = SharedLock(t)]
      BY <1>1 DEF Lookup, TypeOK
    <3>4. Kept(p) \in [Convs -> {Kept(p)[d] : d \in Convs}]
      BY DEF Kept
    <3>. QED
      BY <2>1, <2>2, <3>1, <3>2, <3>3, <3>4
  <2>3. CASE req[u].proc # p
    BY <1>1, <2>1, <2>3 DEF Lookup, TypeOK
  <2>. QED
    BY <2>2, <2>3
<1>3. registered'[p][c] = SharedLock(t)
  BY <1>1 DEF Lookup, TypeOK, Kept
<1>4. SharesRegistered'
  BY <1>2, <1>3 DEF Lookup, SharesRegistered, TypeOK
<1>5. HoldsItsLock'
  BY DEF Lookup, Goto, LockInv, HoldsItsLock, Critical, CriticalPlaces, TypeOK
<1>. QED
  BY <1>4, <1>5 DEF LockInv

\* Moving to another place leaves the locks as they are.
LEMMA MoveKeepsLocks ==
  ASSUME TypeOK, LockInv, NEW t \in Turns, NEW place, Goto(t, place),
         Critical(t) \/ place \notin CriticalPlaces,
         UNCHANGED <<req, lockOf, registered, holder>>
  PROVE  LockInv'
BY DEF Goto, LockInv, SharesRegistered, HoldsItsLock, Critical, TypeOK

\* Ending a turn frees only what that turn held.
LEMMA FinishKeepsLocks ==
  ASSUME TypeOK, LockInv, NEW t \in Turns, NEW type, Finish(t, type), UNCHANGED req
  PROVE  LockInv'
<1>1. \A u \in Turns : Critical(u)' => u # t /\ Critical(u) /\ lockOf[u] \in Turns
  BY DEF Finish, Goto, Critical, CriticalPlaces, TypeOK
<1>2. HoldsItsLock'
  BY <1>1 DEF Finish, Drop, LockInv, HoldsItsLock, TypeOK
<1>3. SharesRegistered'
  BY DEF Finish, Drop, LockInv, SharesRegistered
<1>. QED
  BY <1>2, <1>3 DEF LockInv

\* Cutting turns short frees only what those turns held.
LEMMA CutKeepsHolders ==
  ASSUME TypeOK, LockInv, NEW ts \in SUBSET Turns, Cut(ts), UNCHANGED req
  PROVE  HoldsItsLock'
<1>1. \A u \in Turns : Critical(u)' => u \notin ts /\ Critical(u) /\ lockOf[u] \in Turns
  BY DEF Cut, Critical, CriticalPlaces, TypeOK
<1>. QED
  BY <1>1 DEF Cut, Drop, LockInv, HoldsItsLock, TypeOK

\* A turn enters only when nobody is inside.
LEMMA AcquireKeepsLocks ==
  ASSUME TypeOK, LockInv, NEW t \in Turns, Acquire(t)
  PROVE  LockInv'
<1>1. /\ lockOf[t] \in Turns
      /\ holder[lockOf[t]] = None
      /\ holder' = [holder EXCEPT ![lockOf[t]] = t]
      /\ UNCHANGED <<req, lockOf, registered>>
      /\ pc' = [pc EXCEPT ![t] = "prepare"]
  BY ZenonT(60) DEF Acquire, Goto, TypeOK
<1>2. ASSUME NEW u \in Turns, Critical(u)'
      PROVE  holder'[lockOf'[u]] = u
  <2>1. CASE u = t
    BY <1>1, <2>1 DEF TypeOK
  <2>2. CASE u # t
    <3>1. Critical(u) /\ holder[lockOf[u]] = u
      BY <1>1, <1>2, <2>2 DEF Critical, LockInv, HoldsItsLock, TypeOK
    <3>2. lockOf[u] # lockOf[t]
      BY <1>1, <3>1, ChatTurnAssumption
    <3>. QED
      BY <1>1, <3>1, <3>2 DEF TypeOK
  <2>. QED
    BY <2>1, <2>2
<1>. QED
  BY <1>1, <1>2 DEF LockInv, SharesRegistered, HoldsItsLock

\* No step breaks the lock invariant.
LEMMA LockStep == TypeOK /\ LockInv /\ [Next]_vars => LockInv'
<1> SUFFICES ASSUME TypeOK, LockInv, [Next]_vars
             PROVE  LockInv'
  OBVIOUS
<1>1. ASSUME NEW t \in Turns, Request(t) \/ Enqueue(t)
      PROVE  LockInv'
  BY <1>1, MoveKeepsLocks DEF Request, Enqueue, lockVars, CriticalPlaces
<1>2. ASSUME NEW t \in Turns, Lookup(t)
      PROVE  LockInv'
  BY <1>2, LookupKeepsLocks
<1>3. ASSUME NEW t \in Turns, Acquire(t)
      PROVE  LockInv'
  BY <1>3, AcquireKeepsLocks
<1>4. ASSUME NEW t \in Turns, FailEarly(t) \/ AppendError(t)
      PROVE  LockInv'
  BY <1>4, FinishKeepsLocks DEF FailEarly, AppendError
<1>5. ASSUME NEW t \in Turns, AppendUser(t) \/ ContextFails(t) \/ AppendReply(t)
      PROVE  LockInv'
  <2>1. /\ UNCHANGED req
        /\ Critical(t)
        /\ \/ \E type : Finish(t, type)
           \/ \E place : Goto(t, place) /\ UNCHANGED lockVars
    BY <1>5 DEF AppendUser, ContextFails, AppendReply, Critical, CriticalPlaces
  <2>. QED
    BY <2>1, FinishKeepsLocks, MoveKeepsLocks DEF lockVars
<1>6. ASSUME NEW t \in Turns, ReadContext(t) \/ RetryWithoutTools(t) \/ ModelReturns(t)
      PROVE  LockInv'
  <2>1. /\ UNCHANGED <<req, lockOf, registered, holder>>
        /\ Critical(t)
        /\ \E place : Goto(t, place)
    BY <1>6 DEF ReadContext, RetryWithoutTools, ModelReturns, Critical, CriticalPlaces, lockVars
  <2>. QED
    BY <2>1, MoveKeepsLocks
<1>7. ASSUME NEW t \in Turns, Delta(t) \/ LateRow(t)
      PROVE  LockInv'
  BY <1>7 DEF Delta, LateRow, lockVars, LockInv, SharesRegistered, HoldsItsLock, Critical
<1>8. ASSUME NEW t \in Turns, ClientGone(t)
      PROVE  LockInv'
  <2>1. Cut({t}) /\ UNCHANGED <<req, registered>>
    BY <1>8 DEF ClientGone
  <2>2. HoldsItsLock'
    BY <2>1, CutKeepsHolders
  <2>3. SharesRegistered'
    BY <2>1 DEF Cut, Drop, LockInv, SharesRegistered
  <2>. QED
    BY <2>2, <2>3 DEF LockInv
<1>9. ASSUME NEW p \in Procs, Crash(p)
      PROVE  LockInv'
  <2>1. Running(p) \in SUBSET Turns
    BY DEF Running
  <2>2. HoldsItsLock'
    BY <1>9, <2>1, CutKeepsHolders DEF Crash
  <2>3. ASSUME NEW t \in Turns, lockOf'[t] # None
        PROVE  registered'[req'[t].proc][req'[t].conv] = lockOf'[t]
    <3>1. t \notin Running(p) /\ lockOf'[t] = lockOf[t]
      BY <1>9, <2>3 DEF Crash, Cut, Drop
    <3>2. req[t].proc # p
      BY <2>3, <3>1 DEF Running, Over, TypeOK
    <3>. QED
      BY <1>9, <2>3, <3>1, <3>2 DEF Crash, LockInv, SharesRegistered, TypeOK
  <2>. QED
    BY <2>2, <2>3 DEF LockInv, SharesRegistered
<1>10. CASE UNCHANGED vars
  BY <1>10 DEF vars, LockInv, SharesRegistered, HoldsItsLock, Critical
<1>. QED
  BY <1>1, <1>2, <1>3, <1>4, <1>5, <1>6, <1>7, <1>8, <1>9, <1>10 DEF Next, Step

\* The lock invariant holds in every reachable state.
LEMMA LockCorrect == Spec => []LockInv
<1>1. Init => LockInv
  BY DEF Init, LockInv, SharesRegistered, HoldsItsLock, Critical, CriticalPlaces
<1>. QED
  BY <1>1, LockStep, TypeCorrect, PTL DEF Spec

\* Turns of one process and one conversation never refer to two locks.
THEOREM OneLock == Spec => []OneLockPerConversation
<1>1. LockInv => OneLockPerConversation
  BY DEF LockInv, SharesRegistered, OneLockPerConversation, Rivals
<1>. QED
  BY <1>1, LockCorrect, PTL

\* Two turns of a process are never inside the same conversation.
THEOREM Exclusion == Spec => []MutualExclusion
<1>1. TypeOK /\ LockInv => MutualExclusion
  <2> SUFFICES ASSUME TypeOK, LockInv, NEW t \in Turns, NEW u \in Turns, Rivals(t, u),
                      Critical(t), Critical(u)
               PROVE  FALSE
    BY DEF MutualExclusion
  <2>1. lockOf[t] # None /\ lockOf[u] # None
    BY DEF TypeOK, Critical, CriticalPlaces
  <2>2. lockOf[t] = lockOf[u]
    BY <2>1 DEF LockInv, SharesRegistered, Rivals
  <2>. QED
    BY <2>2 DEF LockInv, HoldsItsLock, Rivals
<1>. QED
  BY <1>1, LockCorrect, TypeCorrect, PTL

----------------------------------------------------------------------------
\* What a turn has said and written tells where it is.
Silent == {"idle", "lookup", "enqueue", "waiting", "prepare"}
Answering == {"model", "retry", "reply"}
Asking == {"context"} \cup Answering

LogOf(t) == rows[req[t].conv]

\* The roles of a turn's rows in a log.
RolesIn(log, t) == {log[i].role : i \in {k \in DOMAIN log : log[k].turn = t}}

Roles(t) == RolesIn(LogOf(t), t)

\* The roles a turn may have when it writes a row of some role.
MayWrite(roles, role) ==
  /\ role = "user" => roles = {}
  /\ role = "assistant" => roles = {"user"}
  /\ role = "error" => roles \in {{"user"}, {"user", "assistant"}}

\* Only turns that are or were inside a conversation have rows in it.
RowsAreOwned ==
  \A c \in Convs : \A i \in DOMAIN rows[c] :
    LET u == rows[c][i].turn IN req[u].conv = c /\ (Critical(u) \/ Over(u))

WritesInOrder ==
  \A t \in Turns :
    /\ pc[t] \in Silent => Roles(t) = {}
    /\ pc[t] \in Asking => Roles(t) = {"user"}
    /\ pc[t] = "error" => Roles(t) \in {{"user"}, {"user", "assistant"}}
    /\ late[t] # None => pc[t] = "cut" /\ MayWrite(Roles(t), late[t])

\* A turn that was declared done is over.
DoneIsOver == \A t \in Turns : Done(t) => pc[t] = "finished"

\* The message of a turn stands in the first n rows of a log, and behind it only strays.
AskedIn(log, places, t, n) ==
  \E i \in 1..n : log[i] = Row(t, "user") /\ \A j \in (i + 1)..n : places[log[j].turn] = "cut"

QuestionIsLast ==
  \A t \in Turns :
    /\ pc[t] = "context" => AskedIn(LogOf(t), pc, t, Len(LogOf(t)))
    /\ pc[t] \in Answering => context[t] \in 0..Len(LogOf(t)) /\ AskedIn(LogOf(t), pc, t, context[t])

\* Of a turn in the history that was declared done, message and reply are there.
HistoryIsWhole ==
  \A t \in Turns : pc[t] \in Answering =>
    \A i \in 1..context[t] : LET u == LogOf(t)[i].turn IN
      Done(u) => \E j, k \in 1..context[t] :
                   LogOf(t)[j] = Row(u, "user") /\ LogOf(t)[k] = Row(u, "assistant")

RowInv == RowsAreOwned /\ WritesInOrder

ContextInv == QuestionIsLast /\ DoneIsOver /\ DoneIsPersisted /\ HistoryIsWhole

OneProcess == \A p, q \in Procs : p = q

----------------------------------------------------------------------------
\* A step of one turn leaves where the others are, what they said and what they know.
OthersRest(t) ==
  \A u \in Turns \ {t} :
    pc'[u] = pc[u] /\ late'[u] = late[u] /\ events'[u] = events[u] /\ context'[u] = context[u]

Acts(t) == Request(t) \/ Step(t) \/ ClientGone(t) \/ LateRow(t)

\* What a turn that steps may have done.
Wrote(t, role) == rows' = [rows EXCEPT ![req[t].conv] = Append(@, Row(t, role))]

\* What Finish, Goto and Emit do to one turn, and that the others stay as they are.
LEMMA FinishMoves ==
  ASSUME TypeOK, NEW t \in Turns, NEW type, Finish(t, type)
  PROVE  /\ pc'[t] = "finished" /\ events'[t] = Append(events[t], type)
         /\ \A u \in Turns \ {t} : pc'[u] = pc[u] /\ events'[u] = events[u]
BY DEF Finish, Goto, Emit, TypeOK

\* Goto moves one turn.
LEMMA GotoMoves ==
  ASSUME TypeOK, NEW t \in Turns, NEW place, Goto(t, place)
  PROVE  pc'[t] = place /\ \A u \in Turns \ {t} : pc'[u] = pc[u]
BY DEF Goto, TypeOK

\* Emit gives one sink one event.
LEMMA EmitMoves ==
  ASSUME TypeOK, NEW t \in Turns, NEW type, Emit(t, type)
  PROVE  events'[t] = Append(events[t], type) /\ \A u \in Turns \ {t} : events'[u] = events[u]
BY DEF Emit, TypeOK

\* The turns that are cut stop where they are, with a statement under way at most.
LEMMA CutMoves ==
  ASSUME TypeOK, NEW ts \in SUBSET Turns, Cut(ts)
  PROVE  \A u \in Turns :
           IF u \in ts THEN pc'[u] = "cut" /\ late'[u] \in UnderWay(u)
                       ELSE pc'[u] = pc[u] /\ late'[u] = late[u]
<1>1. \A u \in Turns : pc'[u] = IF u \in ts THEN "cut" ELSE pc[u]
  BY DEF Cut
<1>2. \A u \in Turns : IF u \in ts THEN late'[u] \in UnderWay(u) ELSE late'[u] = late[u]
  BY DEF Cut
<1>. QED
  BY <1>1, <1>2

\* What a step of one turn does to that turn, a case for each kind of step: it walks without
\* writing a row, it writes one, or it stops.
Walks(t) ==
  /\ rows' = rows /\ late'[t] = late[t] /\ pc[t] # "cut" /\ pc[t] # "finished"
  /\ \/ pc'[t] \in Silent /\ pc[t] \in Silent \ {"prepare"} /\ (pc'[t] = "prepare" => pc[t] = "waiting")
        /\ events'[t] = events[t]
     \/ pc[t] = "context" /\ pc'[t] = "model" /\ context'[t] = Len(LogOf(t)) /\ events'[t] = events[t]
     \/ pc[t] \in Answering /\ pc'[t] \in Answering /\ context'[t] = context[t]
        /\ \/ events'[t] = events[t]
           \/ \E type \in {"delta", "reset"} : events'[t] = Append(events[t], type)
     \/ pc[t] \in Asking /\ pc'[t] = "error" /\ events'[t] = events[t]
     \/ Critical(t) /\ pc'[t] = "finished" /\ events'[t] = Append(events[t], "error")

Puts(t) ==
  \/ /\ pc[t] = "prepare" /\ Wrote(t, "user") /\ late'[t] = late[t]
     /\ \/ pc'[t] = "context" /\ events'[t] = events[t]
        \/ pc'[t] = "finished" /\ events'[t] = Append(events[t], "error")
  \/ /\ pc[t] = "reply" /\ Wrote(t, "assistant") /\ late'[t] = late[t]
     /\ \/ pc'[t] = "error" /\ events'[t] = events[t]
        \/ \E type \in {"done", "error"} : pc'[t] = "finished" /\ events'[t] = Append(events[t], type)
  \/ /\ pc[t] = "error" /\ Wrote(t, "error") /\ late'[t] = late[t]
     /\ pc'[t] = "finished" /\ events'[t] = Append(events[t], "error")
  \/ /\ late[t] # None /\ late[t] \in RowRoles /\ Wrote(t, late[t]) /\ late'[t] = None
     /\ pc'[t] = pc[t] /\ events'[t] = events[t] /\ context'[t] = context[t]

Stops(t) ==
  /\ pc[t] # "idle" /\ ~Over(t) /\ pc'[t] = "cut" /\ late'[t] \in UnderWay(t) /\ events'[t] = events[t]

\* Every step a turn takes has one of these shapes, whatever the handler was doing.
LEMMA TurnActs ==
  ASSUME TypeOK, NEW t \in Turns, Acts(t)
  PROVE  OthersRest(t) /\ req' = req /\ (Walks(t) \/ Puts(t) \/ (Stops(t) /\ rows' = rows))
<1> USE DEF OthersRest
<1>1. CASE Request(t) \/ Lookup(t) \/ Enqueue(t) \/ Acquire(t)
  <2>1. \E place \in {"lookup", "enqueue", "waiting", "prepare"} :
          Goto(t, place) /\ pc[t] \in Silent \ {"prepare"} /\ (place = "prepare" => pc[t] = "waiting")
    BY <1>1 DEF Request, Lookup, Enqueue, Acquire, Silent
  <2>2. UNCHANGED <<req, rows, context, events, late>>
    BY <1>1 DEF Request, Lookup, Enqueue, Acquire
  <2>3. pc[t] # "cut" /\ pc[t] # "finished"
    BY <2>1 DEF Silent
  <2>. QED
    BY <2>1, <2>2, <2>3, GotoMoves DEF Walks, Silent
<1>2. CASE FailEarly(t)
  BY <1>2, FinishMoves DEF FailEarly, Walks, Critical, CriticalPlaces
<1>3. CASE AppendUser(t)
  <2>1. PICK outcome \in AppendOutcomes :
          /\ AppendRow(t, "user", outcome)
          /\ IF outcome = "ok" THEN Goto(t, "context") /\ UNCHANGED <<lockVars, events>>
                               ELSE Finish(t, "error")
    BY <1>3 DEF AppendUser
  <2>2. pc[t] = "prepare" /\ UNCHANGED <<req, context, late>>
    BY <1>3 DEF AppendUser
  <2>3. CASE outcome = "lost"
    BY <2>1, <2>2, <2>3, FinishMoves DEF AppendRow, Walks, Critical, CriticalPlaces
  <2>4. CASE outcome # "lost"
    <3>1. Wrote(t, "user") BY <2>1, <2>4 DEF AppendRow, Wrote
    <3>. QED
      BY <2>1, <2>2, <3>1, FinishMoves, GotoMoves DEF Puts
  <2>. QED
    BY <2>3, <2>4
<1>4. CASE ReadContext(t)
  <2>1. context'[t] = Len(LogOf(t)) /\ \A u \in Turns \ {t} : context'[u] = context[u]
    BY <1>4 DEF ReadContext, LogOf, TypeOK
  <2>2. Goto(t, "model") /\ pc[t] = "context" /\ UNCHANGED <<req, rows, events, late>>
    BY <1>4 DEF ReadContext
  <2>. QED
    BY <2>1, <2>2, GotoMoves DEF Walks
<1>5. CASE ContextFails(t)
  <2>1. pc[t] = "context" /\ UNCHANGED <<req, rows, context, late>>
    BY <1>5 DEF ContextFails
  <2>2. \/ Goto(t, "error") /\ UNCHANGED events
        \/ Finish(t, "error")
    BY <1>5 DEF ContextFails
  <2>3. Critical(t) /\ pc[t] \in Asking
    BY <2>1 DEF Critical, CriticalPlaces, Asking
  <2>. QED
    BY <2>1, <2>2, <2>3, GotoMoves, FinishMoves DEF Walks
<1>6. CASE Delta(t) \/ RetryWithoutTools(t) \/ ModelReturns(t)
  <2>1. UNCHANGED <<req, rows, context, late>>
    BY <1>6 DEF Delta, RetryWithoutTools, ModelReturns
  <2>2. CASE Delta(t)
    BY <2>1, <2>2, EmitMoves DEF Delta, Walks, Answering
  <2>3. CASE RetryWithoutTools(t)
    <3>1. pc[t] = "model" /\ Goto(t, "retry") /\ (Emit(t, "reset") \/ UNCHANGED events)
      BY <2>3 DEF RetryWithoutTools
    <3>. QED
      BY <2>1, <3>1, EmitMoves, GotoMoves DEF Walks, Answering
  <2>4. CASE ModelReturns(t)
    BY <2>1, <2>4, GotoMoves DEF ModelReturns, Walks, Answering, Asking
  <2>. QED
    BY <1>6, <2>2, <2>3, <2>4
<1>7. CASE AppendReply(t)
  <2>1. PICK outcome \in AppendOutcomes :
          /\ AppendRow(t, "assistant", outcome)
          /\ CASE outcome = "ok" -> Finish(t, "done")
               [] outcome # "ok" /\ req[t].kind = "stream" ->
                    Goto(t, "error") /\ UNCHANGED <<lockVars, events>>
               [] OTHER -> Finish(t, "error")
    BY <1>7 DEF AppendReply
  <2>2. pc[t] = "reply" /\ UNCHANGED <<req, context, late>>
    BY <1>7 DEF AppendReply
  <2>3. CASE outcome = "lost"
    <3>1. rows' = rows /\ (Finish(t, "error") \/ (Goto(t, "error") /\ UNCHANGED events))
      BY <2>1, <2>3 DEF AppendRow
    <3>2. Critical(t) /\ pc[t] \in Asking
      BY <2>2 DEF Critical, CriticalPlaces, Asking, Answering
    <3>. QED
      BY <2>2, <3>1, <3>2, FinishMoves, GotoMoves DEF Walks
  <2>4. CASE outcome # "lost"
    <3>1. Wrote(t, "assistant") BY <2>1, <2>4 DEF AppendRow, Wrote
    <3>2. \/ Finish(t, "done") \/ Finish(t, "error")
          \/ Goto(t, "error") /\ UNCHANGED events
      BY <2>1
    <3>. QED
      BY <2>2, <3>1, <3>2, FinishMoves, GotoMoves DEF Puts
  <2>. QED
    BY <2>3, <2>4
<1>8. CASE AppendError(t)
  <2>1. PICK outcome \in AppendOutcomes : AppendRow(t, "error", outcome)
    BY <1>8 DEF AppendError
  <2>2. pc[t] = "error" /\ Finish(t, "error") /\ UNCHANGED <<req, context, late>>
    BY <1>8 DEF AppendError
  <2>3. rows' = rows \/ Wrote(t, "error")
    BY <2>1 DEF AppendRow, Wrote
  <2>4. Critical(t)
    BY <2>2 DEF Critical, CriticalPlaces
  <2>. QED
    BY <2>2, <2>3, <2>4, FinishMoves DEF Walks, Puts
<1>9. CASE ClientGone(t)
  <2>1. Cut({t}) /\ pc[t] # "idle" /\ ~Over(t) /\ UNCHANGED <<req, rows, context, events>>
    BY <1>9 DEF ClientGone
  <2>. QED
    BY <2>1, CutMoves DEF Stops
<1>10. CASE LateRow(t)
  <2>1. late[t] # None /\ Wrote(t, late[t]) /\ UNCHANGED <<req, pc, context, events>>
    BY <1>10 DEF LateRow, Wrote
  <2>2. late'[t] = None /\ \A u \in Turns \ {t} : late'[u] = late[u]
    BY <1>10 DEF LateRow, TypeOK
  <2>3. late[t] \in RowRoles
    BY <2>1 DEF TypeOK
  <2>. QED
    BY <2>1, <2>2, <2>3 DEF Puts
<1>. QED
  BY <1>1, <1>2, <1>3, <1>4, <1>5, <1>6, <1>7, <1>8, <1>9, <1>10 DEF Acts, Step

\* A crash stops the turns that run in the process and writes nothing.
LEMMA CrashStops ==
  ASSUME TypeOK, NEW p \in Procs, Crash(p)
  PROVE  /\ rows' = rows /\ req' = req /\ context' = context /\ events' = events
         /\ \A t \in Turns : \/ Stops(t)
                             \/ pc'[t] = pc[t] /\ late'[t] = late[t]
<1>1. Cut(Running(p)) /\ UNCHANGED <<req, rows, context, events>> /\ Running(p) \in SUBSET Turns
  BY DEF Crash, Running
<1>. QED
  BY <1>1, CutMoves DEF Stops, Running

\* One of the three shapes.
LEMMA StepShape ==
  ASSUME TypeOK, [Next]_vars
  PROVE  /\ req' = req
         /\ \/ rows' = rows /\ events' = events /\ context' = context
               /\ \A t \in Turns : \/ Stops(t)
                                   \/ pc'[t] = pc[t] /\ late'[t] = late[t]
            \/ \E t \in Turns : OthersRest(t) /\ (Walks(t) \/ Puts(t) \/ (Stops(t) /\ rows' = rows))
<1>1. CASE UNCHANGED vars
  BY <1>1 DEF vars
<1>2. ASSUME NEW t \in Turns, Acts(t)
      PROVE  req' = req /\ OthersRest(t) /\ (Walks(t) \/ Puts(t) \/ (Stops(t) /\ rows' = rows))
  BY <1>2, TurnActs
<1>3. ASSUME NEW p \in Procs, Crash(p)
      PROVE  /\ rows' = rows /\ req' = req /\ context' = context /\ events' = events
             /\ \A t \in Turns : Stops(t) \/ (pc'[t] = pc[t] /\ late'[t] = late[t])
  BY <1>3, CrashStops
<1>4. (\E t \in Turns : Acts(t)) \/ (\E p \in Procs : Crash(p)) \/ UNCHANGED vars
  BY DEF Next, Acts
<1>5. CASE \E t \in Turns : Acts(t)
  BY <1>2, <1>5
<1>6. CASE \E p \in Procs : Crash(p)
  BY <1>3, <1>6
<1>. QED
  BY <1>1, <1>4, <1>5, <1>6

\* A row that is written is the last of its log, and the others stay.
LEMMA RowsGrow ==
  ASSUME TypeOK, NEW t \in Turns, NEW role \in RowRoles, Wrote(t, role)
  PROVE  LET c == req[t].conv IN
         /\ c \in Convs /\ rows[c] \in Seq(Log) /\ rows'[c] = Append(rows[c], Row(t, role))
         /\ Len(rows'[c]) = Len(rows[c]) + 1 /\ rows'[c][Len(rows[c]) + 1] = Row(t, role)
         /\ \A i \in 1..Len(rows[c]) : rows'[c][i] = rows[c][i]
         /\ \A d \in Convs : d # c => rows'[d] = rows[d]
<1> DEFINE c == req[t].conv
<1>1. c \in Convs /\ rows[c] \in Seq(Log) /\ DOMAIN rows = Convs
  BY DEF TypeOK, Log
<1>2. rows'[c] = Append(rows[c], Row(t, role)) /\ \A d \in Convs : d # c => rows'[d] = rows[d]
  BY <1>1 DEF Wrote
<1>3. Row(t, role) \in Log
  BY DEF Row, Log
<1>4. /\ Len(rows'[c]) = Len(rows[c]) + 1 /\ rows'[c][Len(rows[c]) + 1] = Row(t, role)
      /\ \A i \in 1..Len(rows[c]) : rows'[c][i] = rows[c][i]
  BY <1>1, <1>2, <1>3
<1>. QED
  BY <1>1, <1>2, <1>4

\* It adds its role to those of its turn, and to nobody else's.
LEMMA RolesGrow ==
  ASSUME NEW log \in Seq(Log), NEW t \in Turns, NEW role \in RowRoles, NEW u \in Turns
  PROVE  /\ u = t => RolesIn(Append(log, Row(t, role)), u) = RolesIn(log, u) \cup {role}
         /\ u # t => RolesIn(Append(log, Row(t, role)), u) = RolesIn(log, u)
<1> DEFINE longer == Append(log, Row(t, role))
<1>1. Row(t, role) \in Log /\ Row(t, role).turn = t /\ Row(t, role).role = role
  BY DEF Row, Log
<1>2. /\ DOMAIN log = 1..Len(log) /\ DOMAIN longer = 1..(Len(log) + 1) /\ Len(log) \in Nat
      /\ longer[Len(log) + 1] = Row(t, role) /\ \A i \in 1..Len(log) : longer[i] = log[i]
  BY <1>1
<1> HIDE DEF longer
<1>3. ASSUME NEW r \in RolesIn(longer, u) PROVE r \in RolesIn(log, u) \cup (IF u = t THEN {role} ELSE {})
  <2>1. PICK i \in DOMAIN longer : longer[i].turn = u /\ r = longer[i].role
    BY <1>3 DEF RolesIn
  <2>2. CASE i \in DOMAIN log
    BY <1>2, <2>1, <2>2 DEF RolesIn
  <2>3. CASE i \notin DOMAIN log
    <3>1. i = Len(log) + 1 BY <1>2, <2>3
    <3>. QED BY <1>1, <1>2, <2>1, <3>1
  <2>. QED
    BY <2>2, <2>3
<1>4. ASSUME NEW r \in RolesIn(log, u) PROVE r \in RolesIn(longer, u)
  <2>1. PICK i \in DOMAIN log : log[i].turn = u /\ r = log[i].role
    BY <1>4 DEF RolesIn
  <2>. QED
    BY <1>2, <2>1 DEF RolesIn
<1>5. u = t => role \in RolesIn(longer, u)
  <2>1. Len(log) + 1 \in DOMAIN longer BY <1>2
  <2>. QED
    BY <1>1, <1>2, <2>1 DEF RolesIn
<1>6. /\ u = t => RolesIn(longer, u) = RolesIn(log, u) \cup {role}
      /\ u # t => RolesIn(longer, u) = RolesIn(log, u)
  BY <1>3, <1>4, <1>5
<1>. QED
  BY <1>6 DEF longer

\* A written row adds its role to the turn that wrote it and to no other turn.
LEMMA RolesOfAll ==
  ASSUME TypeOK, NEW t \in Turns, NEW role \in RowRoles, Wrote(t, role), req' = req
  PROVE  /\ Roles(t)' = Roles(t) \cup {role}
         /\ \A u \in Turns \ {t} : RolesIn(rows'[req[u].conv], u) = RolesIn(rows[req[u].conv], u)
<1>1. rows'[req[t].conv] = Append(rows[req[t].conv], Row(t, role)) /\ rows[req[t].conv] \in Seq(Log)
  BY RowsGrow
<1>2. Roles(t)' = Roles(t) \cup {role}
  <2>1. RolesIn(rows'[req[t].conv], t) = RolesIn(rows[req[t].conv], t) \cup {role}
    BY <1>1, RolesGrow
  <2>. QED
    BY <2>1 DEF Roles, LogOf
<1>3. ASSUME NEW u \in Turns \ {t} PROVE RolesIn(rows'[req[u].conv], u) = RolesIn(rows[req[u].conv], u)
  <2>1. CASE req[u].conv = req[t].conv
    <3>1. RolesIn(rows'[req[t].conv], u) = RolesIn(rows[req[t].conv], u)
      BY <1>1, RolesGrow
    <3>. QED
      BY <2>1, <3>1
  <2>2. CASE req[u].conv # req[t].conv
    <3>1. req[u].conv \in Convs BY DEF TypeOK
    <3>. QED
      BY <2>2, <3>1, RowsGrow
  <2>. QED
    BY <2>1, <2>2
<1>. QED
  BY <1>2, <1>3

\* Who is or was inside stays so, and who is over stays as it ended.
LEMMA InsideStays ==
  ASSUME TypeOK, [Next]_vars, NEW u \in Turns
  PROVE  /\ Critical(u) => Critical(u)' \/ Over(u)'
         /\ Over(u) => pc'[u] = pc[u] /\ events'[u] = events[u]
<1> USE DEF Critical, CriticalPlaces, Over
<1>1. CASE pc'[u] = pc[u] /\ events'[u] = events[u]
  BY <1>1
<1>2. CASE Stops(u)
  BY <1>2 DEF Stops
<1>3. CASE Walks(u)
  BY <1>3 DEF Walks, Silent, Answering, Asking
<1>4. CASE Puts(u)
  BY <1>4 DEF Puts
<1>5. \/ pc'[u] = pc[u] /\ events'[u] = events[u]
      \/ Stops(u) \/ Walks(u) \/ Puts(u)
  BY StepShape DEF OthersRest, Stops
<1>. QED
  BY <1>1, <1>2, <1>3, <1>4, <1>5

\* No step writes a row for a turn that has not been inside the conversation.
LEMMA OwnedStep ==
  ASSUME TypeOK, RowInv, [Next]_vars
  PROVE  RowsAreOwned'
<1>1. ASSUME NEW u \in Turns, Critical(u) \/ Over(u) PROVE Critical(u)' \/ Over(u)'
  BY <1>1, InsideStays DEF Over
<1>2. req' = req
  BY StepShape
<1>3. ASSUME NEW t \in Turns, NEW role \in RowRoles, Wrote(t, role), Critical(t) \/ Over(t)
      PROVE  RowsAreOwned'
  <2> DEFINE c == req[t].conv
  <2>1. /\ c \in Convs /\ Len(rows'[c]) = Len(rows[c]) + 1 /\ rows'[c][Len(rows[c]) + 1] = Row(t, role)
        /\ \A i \in 1..Len(rows[c]) : rows'[c][i] = rows[c][i]
        /\ \A d \in Convs : d # c => rows'[d] = rows[d]
        /\ rows[c] \in Seq(Log) /\ rows'[c] = Append(rows[c], Row(t, role)) /\ Row(t, role) \in Log
    BY <1>3, RowsGrow DEF Row, Log
  <2> SUFFICES ASSUME NEW d \in Convs, NEW i \in DOMAIN rows'[d], NEW u, u = rows'[d][i].turn
               PROVE  req[u].conv = d /\ (Critical(u)' \/ Over(u)')
    BY <1>2 DEF RowsAreOwned, Critical, Over
  <2>2. CASE i \in DOMAIN rows[d] /\ rows'[d][i] = rows[d][i]
    <3>1. u \in Turns
      <4>1. rows[d] \in Seq(Log) BY DEF TypeOK, Log
      <4>2. rows[d][i] \in Log BY <2>2, <4>1
      <4>. QED BY <2>2, <4>2 DEF Log
    <3>. QED
      BY <1>1, <2>2, <3>1 DEF RowInv, RowsAreOwned
  <2>3. CASE d = c /\ i = Len(rows[c]) + 1
    <3>1. u = t BY <2>1, <2>3 DEF Row
    <3>. QED
      BY <1>1, <1>3, <2>3, <3>1
  <2>4. CASE d # c
    BY <2>1, <2>2, <2>4
  <2>5. CASE d = c
    <3>1. DOMAIN rows[c] = 1..Len(rows[c]) /\ DOMAIN rows'[c] = 1..(Len(rows[c]) + 1) /\ Len(rows[c]) \in Nat
      BY <2>1
    <3>2. i \in DOMAIN rows[c] \/ i = Len(rows[c]) + 1
      BY <2>5, <3>1
    <3>. QED
      BY <2>1, <2>2, <2>3, <2>5, <3>1, <3>2
  <2>. QED
    BY <2>4, <2>5
<1>4. ASSUME rows' = rows PROVE RowsAreOwned'
  <2> SUFFICES ASSUME NEW d \in Convs, NEW i \in DOMAIN rows[d], NEW u, u = rows[d][i].turn
               PROVE  req[u].conv = d /\ (Critical(u)' \/ Over(u)')
    BY <1>2, <1>4 DEF RowsAreOwned, Critical, Over
  <2>1. u \in Turns
    <3>1. rows[d] \in Seq(Log) BY DEF TypeOK, Log
    <3>2. rows[d][i] \in Log BY <3>1
    <3>. QED BY <3>2 DEF Log
  <2>. QED
    BY <1>1, <2>1 DEF RowInv, RowsAreOwned
<1>5. ASSUME NEW t \in Turns, Puts(t)
      PROVE  \E role \in RowRoles : Wrote(t, role) /\ (Critical(t) \/ Over(t))
  <2>1. late[t] # None => Over(t)
    BY DEF RowInv, WritesInOrder, Over
  <2>. QED
    BY <1>5, <2>1 DEF Puts, Critical, CriticalPlaces, RowRoles
<1>. QED
  BY <1>3, <1>4, <1>5, StepShape DEF Walks

\* No step writes a row out of order, strays included.
LEMMA OrderStep ==
  ASSUME TypeOK, RowInv, [Next]_vars
  PROVE  WritesInOrder'
<1> SUFFICES ASSUME NEW u \in Turns
             PROVE  /\ pc'[u] \in Silent => Roles(u)' = {}
                    /\ pc'[u] \in Asking => Roles(u)' = {"user"}
                    /\ pc'[u] = "error" => Roles(u)' \in {{"user"}, {"user", "assistant"}}
                    /\ late'[u] # None => pc'[u] = "cut" /\ MayWrite(Roles(u)', late'[u])
  BY DEF WritesInOrder, MayWrite
<1>1. /\ pc[u] \in Silent => Roles(u) = {}
      /\ pc[u] \in Asking => Roles(u) = {"user"}
      /\ pc[u] = "error" => Roles(u) \in {{"user"}, {"user", "assistant"}}
      /\ late[u] # None => pc[u] = "cut" /\ MayWrite(Roles(u), late[u])
  BY DEF RowInv, WritesInOrder
<1>2. req' = req
  BY StepShape
<1>3. rows' = rows => Roles(u)' = Roles(u)
  BY <1>2 DEF Roles, LogOf
<1>4. ASSUME NEW role \in RowRoles, Wrote(u, role) PROVE Roles(u)' = Roles(u) \cup {role}
  BY <1>2, <1>4, RolesOfAll
<1>5. ASSUME NEW t \in Turns \ {u}, NEW role \in RowRoles, Wrote(t, role) PROVE Roles(u)' = Roles(u)
  BY <1>2, <1>5, RolesOfAll DEF Roles, LogOf
<1>6. CASE Walks(u)
  <2>1. Roles(u)' = Roles(u) /\ late'[u] = late[u] /\ late[u] = None
    BY <1>1, <1>3, <1>6 DEF Walks
  <2>. QED
    BY <1>1, <1>6, <2>1 DEF Walks, Silent, Answering, Asking, Critical, CriticalPlaces
<1>7. CASE Puts(u)
  <2>1. CASE pc[u] = "prepare" /\ Wrote(u, "user") /\ late'[u] = late[u] /\ pc'[u] \in {"context", "finished"}
    <3>1. Roles(u)' = {"user"} /\ late[u] = None
      BY <1>1, <1>4, <2>1 DEF Silent, RowRoles
    <3>. QED
      BY <2>1, <3>1 DEF Silent, Asking
  <2>2. CASE pc[u] = "reply" /\ Wrote(u, "assistant") /\ late'[u] = late[u] /\ pc'[u] \in {"error", "finished"}
    <3>1. Roles(u)' = {"user", "assistant"} /\ late[u] = None
      BY <1>1, <1>4, <2>2 DEF Asking, Answering, RowRoles
    <3>. QED
      BY <2>2, <3>1 DEF Silent, Asking, Answering
  <2>3. CASE pc[u] = "error" /\ late'[u] = late[u] /\ pc'[u] = "finished"
    BY <1>1, <2>3 DEF Silent, Asking, Answering
  <2>4. CASE late[u] # None /\ late'[u] = None /\ pc'[u] = pc[u]
    BY <1>1, <2>4 DEF Silent, Asking, Answering
  <2>. QED
    BY <1>7, <2>1, <2>2, <2>3, <2>4 DEF Puts
<1>8. CASE Stops(u) /\ rows' = rows
  <2>1. Roles(u)' = Roles(u) /\ pc'[u] = "cut" /\ late'[u] \in UnderWay(u)
    BY <1>3, <1>8 DEF Stops
  <2>2. late'[u] # None => MayWrite(Roles(u), late'[u])
    <3>1. CASE pc[u] = "prepare"
      BY <1>1, <2>1, <3>1 DEF UnderWay, MayWrite, Silent
    <3>2. CASE pc[u] = "reply"
      BY <1>1, <2>1, <3>2 DEF UnderWay, MayWrite, Asking, Answering
    <3>3. CASE pc[u] = "error"
      BY <1>1, <2>1, <3>3 DEF UnderWay, MayWrite
    <3>. QED
      BY <2>1, <3>1, <3>2, <3>3 DEF UnderWay
  <2>. QED
    BY <2>1, <2>2 DEF Silent, Asking, Answering
<1>9. CASE pc'[u] = pc[u] /\ late'[u] = late[u] /\ Roles(u)' = Roles(u)
  BY <1>1, <1>9
<1>10. \/ Walks(u) \/ Puts(u) \/ (Stops(u) /\ rows' = rows)
       \/ pc'[u] = pc[u] /\ late'[u] = late[u] /\ Roles(u)' = Roles(u)
  <2>1. ASSUME NEW t \in Turns \ {u}, OthersRest(t), Walks(t) \/ Puts(t) \/ rows' = rows
        PROVE  pc'[u] = pc[u] /\ late'[u] = late[u] /\ Roles(u)' = Roles(u)
    <3>1. rows' = rows \/ \E role \in RowRoles : Wrote(t, role)
      BY <2>1 DEF Walks, Puts, RowRoles
    <3>. QED
      BY <1>3, <1>5, <2>1, <3>1 DEF OthersRest
  <2>. QED
    BY <1>3, <2>1, StepShape
<1>. QED
  BY <1>6, <1>7, <1>8, <1>9, <1>10

\* Rows are only appended.
LEMMA LogGrows ==
  ASSUME TypeOK, [Next]_vars, NEW c \in Convs
  PROVE  /\ Len(rows[c]) \in Nat /\ Len(rows'[c]) \in Nat /\ Len(rows[c]) <= Len(rows'[c])
         /\ DOMAIN rows[c] = 1..Len(rows[c]) /\ DOMAIN rows'[c] = 1..Len(rows'[c])
         /\ \A i \in 1..Len(rows[c]) : rows'[c][i] = rows[c][i] /\ rows[c][i] \in Log
<1>1. rows[c] \in Seq(Log)
  BY DEF TypeOK, Log
<1>2. /\ Len(rows[c]) \in Nat /\ DOMAIN rows[c] = 1..Len(rows[c])
      /\ \A i \in 1..Len(rows[c]) : rows[c][i] \in Log
  BY <1>1
<1>3. rows'[c] \in Seq(Log)
  BY TypeStep DEF TypeOK, Log
<1>4. Len(rows'[c]) \in Nat /\ DOMAIN rows'[c] = 1..Len(rows'[c])
  BY <1>3
<1>5. rows'[c] = rows[c] \/ \E t \in Turns, role \in RowRoles : Wrote(t, role)
  BY StepShape DEF Walks, Puts, RowRoles
<1>6. ASSUME NEW t \in Turns, NEW role \in RowRoles, Wrote(t, role)
      PROVE  Len(rows[c]) <= Len(rows'[c]) /\ \A i \in 1..Len(rows[c]) : rows'[c][i] = rows[c][i]
  <2>1. CASE c = req[t].conv
    BY <1>2, <1>6, <2>1, RowsGrow
  <2>2. CASE c # req[t].conv
    BY <1>2, <1>6, <2>2, RowsGrow
  <2>. QED
    BY <2>1, <2>2
<1>. QED
  BY <1>2, <1>4, <1>5, <1>6

\* Who is newly declared done has just written its reply.
LEMMA DoneMoves ==
  ASSUME TypeOK, DoneIsOver, [Next]_vars, NEW u \in Turns, Done(u)'
  PROVE  \/ Done(u) /\ pc[u] = "finished" /\ pc'[u] = "finished"
         \/ pc[u] = "reply" /\ pc'[u] = "finished" /\ Wrote(u, "assistant")
<1>1. events'[u] # <<>> /\ events'[u][Len(events'[u])] = "done"
  BY DEF Done
<1>2. CASE events'[u] = events[u]
  <2>1. Done(u)
    BY <1>1, <1>2 DEF Done
  <2>2. pc[u] = "finished"
    BY <2>1 DEF DoneIsOver
  <2>. QED
    BY <2>1, <2>2, InsideStays DEF Over
<1>3. ASSUME NEW type \in {"delta", "reset", "error"}, events'[u] = Append(events[u], type) PROVE FALSE
  <2>1. events[u] \in Seq({"delta", "reset", "done", "error"})
    BY DEF TypeOK
  <2>2. events'[u][Len(events'[u])] = type
    BY <1>3, <2>1
  <2>. QED
    BY <1>1, <2>2
<1>4. \/ events'[u] = events[u]
      \/ \E type \in {"delta", "reset", "error"} : events'[u] = Append(events[u], type)
      \/ pc[u] = "reply" /\ pc'[u] = "finished" /\ Wrote(u, "assistant")
  <2>1. CASE Walks(u)
    BY <2>1 DEF Walks
  <2>2. CASE Puts(u)
    BY <2>2 DEF Puts
  <2>3. CASE Stops(u)
    BY <2>3 DEF Stops
  <2>4. Walks(u) \/ Puts(u) \/ Stops(u) \/ events'[u] = events[u]
    BY StepShape DEF OthersRest
  <2>. QED
    BY <2>1, <2>2, <2>3, <2>4
<1>. QED
  BY <1>2, <1>3, <1>4

\* No step declares a turn done that goes on.
LEMMA DoneIsOverStep ==
  ASSUME TypeOK, DoneIsOver, [Next]_vars
  PROVE  DoneIsOver'
<1> SUFFICES ASSUME NEW u \in Turns, Done(u)' PROVE pc'[u] = "finished"
  BY DEF DoneIsOver
<1>. QED
  BY DoneMoves

\* A role among those of a turn is a row of it.
LEMMA RowOfRole ==
  ASSUME TypeOK, NEW t \in Turns, NEW role \in Roles(t)
  PROVE  \E i \in DOMAIN LogOf(t) : LogOf(t)[i] = Row(t, role)
<1>1. PICK log \in Seq(Log) : log = LogOf(t)
  BY DEF LogOf, TypeOK, Log
<1>2. PICK i \in DOMAIN log : log[i].turn = t /\ log[i].role = role
  BY <1>1 DEF Roles, RolesIn
<1>3. log[i] \in Log
  BY <1>2
<1>4. log[i] = Row(t, role)
  BY <1>2, <1>3 DEF Log, Row
<1>. QED
  BY <1>1, <1>2, <1>4

\* No step declares a turn done whose message and reply are not stored in order.
LEMMA PersistedStep ==
  ASSUME TypeOK, RowInv, DoneIsOver, DoneIsPersisted, [Next]_vars
  PROVE  DoneIsPersisted'
<1> SUFFICES ASSUME NEW u \in Turns, Done(u)', NEW c, c = req[u].conv
             PROVE  \E i, k \in DOMAIN rows'[c] :
                      i < k /\ rows'[c][i] = Row(u, "user") /\ rows'[c][k] = Row(u, "assistant")
  BY StepShape DEF DoneIsPersisted
<1>1. c \in Convs
  BY DEF TypeOK
<1>2. CASE Done(u)
  <2>1. PICK i \in DOMAIN rows[c], k \in DOMAIN rows[c] :
          i < k /\ rows[c][i] = Row(u, "user") /\ rows[c][k] = Row(u, "assistant")
    BY <1>2 DEF DoneIsPersisted
  <2>. QED
    BY <1>1, <2>1, LogGrows
<1>3. CASE pc[u] = "reply" /\ Wrote(u, "assistant")
  <2>1. "user" \in Roles(u)
    BY <1>3 DEF RowInv, WritesInOrder, Asking, Answering
  <2>2. PICK i \in DOMAIN rows[c] : rows[c][i] = Row(u, "user")
    BY <2>1, RowOfRole DEF LogOf
  <2>3. Len(rows'[c]) = Len(rows[c]) + 1 /\ rows'[c][Len(rows[c]) + 1] = Row(u, "assistant")
    BY <1>3, RowsGrow DEF RowRoles
  <2>4. /\ DOMAIN rows[c] = 1..Len(rows[c]) /\ DOMAIN rows'[c] = 1..Len(rows'[c]) /\ Len(rows[c]) \in Nat
        /\ \A j \in 1..Len(rows[c]) : rows'[c][j] = rows[c][j]
    BY <1>1, LogGrows
  <2>5. i \in DOMAIN rows'[c] /\ i < Len(rows[c]) + 1 /\ Len(rows[c]) + 1 \in DOMAIN rows'[c]
    BY <2>3, <2>4
  <2>6. rows'[c][i] = Row(u, "user")
    BY <2>2, <2>4
  <2>. QED
    BY <2>3, <2>5, <2>6
<1>. QED
  BY <1>2, <1>3, DoneMoves

\* A question that is the last but for strays stays so as far as it was read.
LEMMA AskedStays ==
  ASSUME TypeOK, [Next]_vars, NEW u \in Turns, NEW n \in 0..Len(LogOf(u)), AskedIn(LogOf(u), pc, u, n)
  PROVE  AskedIn(rows'[req[u].conv], pc', u, n)
<1> DEFINE c == req[u].conv
<1>1. c \in Convs
  BY DEF TypeOK
<1>2. PICK i \in 1..n : rows[c][i] = Row(u, "user") /\ \A j \in (i + 1)..n : pc[rows[c][j].turn] = "cut"
  BY DEF AskedIn, LogOf
<1>3. /\ Len(rows[c]) \in Nat /\ n \in 0..Len(rows[c])
      /\ \A j \in 1..Len(rows[c]) : rows'[c][j] = rows[c][j] /\ rows[c][j] \in Log
  BY <1>1, LogGrows DEF LogOf
<1>4. rows'[c][i] = Row(u, "user")
  BY <1>2, <1>3
<1>5. ASSUME NEW j \in (i + 1)..n PROVE pc'[rows'[c][j].turn] = "cut"
  <2>1. j \in 1..Len(rows[c])
    BY <1>3
  <2>2. rows[c][j].turn \in Turns /\ rows'[c][j] = rows[c][j]
    BY <1>3, <2>1 DEF Log
  <2>3. pc[rows[c][j].turn] = "cut"
    BY <1>2
  <2>4. pc'[rows[c][j].turn] = pc[rows[c][j].turn]
    BY <2>2, <2>3, InsideStays DEF Over
  <2>. QED
    BY <2>2, <2>3, <2>4
<1>. QED
  BY <1>4, <1>5 DEF AskedIn

\* With one process, two turns are never inside the same conversation.
LEMMA AloneInside ==
  ASSUME TypeOK, OneProcess, MutualExclusion, NEW t \in Turns, NEW u \in Turns,
         req[t].conv = req[u].conv, Critical(t), Critical(u)
  PROVE  t = u
<1>1. req[t].proc \in Procs /\ req[u].proc \in Procs
  BY DEF TypeOK
<1>. QED
  BY <1>1 DEF OneProcess, MutualExclusion, Rivals

\* No step puts a row that is not a stray behind the message that is being answered.
LEMMA QuestionStep ==
  ASSUME TypeOK, OneProcess, MutualExclusion, RowInv, QuestionIsLast, [Next]_vars
  PROVE  QuestionIsLast'
<1> SUFFICES ASSUME NEW u \in Turns, NEW c, c = req[u].conv
             PROVE  /\ pc'[u] = "context" => AskedIn(rows'[c], pc', u, Len(rows'[c]))
                    /\ pc'[u] \in Answering => /\ context'[u] \in 0..Len(rows'[c])
                                              /\ AskedIn(rows'[c], pc', u, context'[u])
  BY StepShape DEF QuestionIsLast, LogOf
<1>1. c \in Convs /\ LogOf(u) = rows[c]
  BY DEF TypeOK, LogOf
<1>2. /\ Len(rows[c]) \in Nat /\ Len(rows'[c]) \in Nat /\ Len(rows[c]) <= Len(rows'[c])
      /\ \A i \in 1..Len(rows[c]) : rows'[c][i] = rows[c][i] /\ rows[c][i] \in Log
  BY <1>1, LogGrows
<1>3. late[u] # None => pc[u] = "cut"
  BY DEF RowInv, WritesInOrder
<1>4. CASE pc'[u] = "context" /\ pc[u] = "context"
  <2>1. AskedIn(rows[c], pc, u, Len(rows[c]))
    BY <1>1, <1>4 DEF QuestionIsLast
  <2>2. AskedIn(rows'[c], pc', u, Len(rows[c]))
    BY <1>1, <1>2, <2>1, AskedStays
  <2>3. CASE rows'[c] = rows[c]
    BY <1>4, <2>2, <2>3 DEF Answering
  <2>4. ASSUME NEW t \in Turns, NEW role \in RowRoles, Wrote(t, role), Puts(t), OthersRest(t), req[t].conv = c
        PROVE  AskedIn(rows'[c], pc', u, Len(rows'[c]))
    <3>1. t # u
      BY <1>3, <1>4, <2>4 DEF Puts
    <3>2. ~Critical(t)
      BY <1>4, <2>4, <3>1, AloneInside DEF Critical, CriticalPlaces
    <3>3. late[t] # None /\ pc'[t] = pc[t]
      BY <2>4, <3>2 DEF Puts, Critical, CriticalPlaces
    <3>4. pc'[t] = "cut"
      BY <3>3 DEF RowInv, WritesInOrder
    <3>5. Len(rows'[c]) = Len(rows[c]) + 1 /\ rows'[c][Len(rows[c]) + 1] = Row(t, role)
      BY <2>4, RowsGrow
    <3>6. PICK i \in 1..Len(rows[c]) : /\ rows'[c][i] = Row(u, "user")
                                       /\ \A j \in (i + 1)..Len(rows[c]) : pc'[rows'[c][j].turn] = "cut"
      BY <2>2 DEF AskedIn
    <3>7. ASSUME NEW j \in (i + 1)..Len(rows'[c]) PROVE pc'[rows'[c][j].turn] = "cut"
      <4>1. CASE j = Len(rows[c]) + 1
        BY <3>4, <3>5, <4>1 DEF Row
      <4>2. CASE j # Len(rows[c]) + 1
        <5>1. j \in (i + 1)..Len(rows[c])
          BY <1>2, <3>5, <4>2
        <5>. QED
          BY <3>6, <5>1
      <4>. QED
        BY <4>1, <4>2
    <3>8. i \in 1..Len(rows'[c])
      BY <1>2, <3>5
    <3>. QED
      BY <3>6, <3>7, <3>8 DEF AskedIn
  <2>5. \/ rows'[c] = rows[c]
        \/ \E t \in Turns, role \in RowRoles : Wrote(t, role) /\ Puts(t) /\ OthersRest(t) /\ req[t].conv = c
    <3>1. \/ rows' = rows
          \/ \E t \in Turns, role \in RowRoles : Wrote(t, role) /\ Puts(t) /\ OthersRest(t)
      BY StepShape DEF Walks, Puts, RowRoles
    <3>. QED
      BY <1>1, <3>1, RowsGrow
  <2>. QED
    BY <1>4, <2>3, <2>4, <2>5 DEF Answering
<1>5. CASE pc'[u] = "context" /\ pc[u] # "context"
  <2>1. Wrote(u, "user")
    BY <1>5, StepShape DEF OthersRest, Walks, Puts, Stops, Silent, Answering
  <2>2. Len(rows'[c]) = Len(rows[c]) + 1 /\ rows'[c][Len(rows[c]) + 1] = Row(u, "user")
    BY <2>1, RowsGrow DEF RowRoles
  <2>3. AskedIn(rows'[c], pc', u, Len(rows'[c]))
    BY <1>2, <2>2 DEF AskedIn
  <2>. QED
    BY <1>5, <2>3 DEF Answering
<1>6. CASE pc'[u] \in Answering
  <2>1. \/ pc[u] \in Answering /\ context'[u] = context[u]
        \/ pc[u] = "context" /\ context'[u] = Len(rows[c])
    BY <1>1, <1>3, <1>6, StepShape DEF OthersRest, Walks, Puts, Stops, Silent, Answering, Asking
  <2>2. context'[u] \in 0..Len(rows[c]) /\ AskedIn(rows[c], pc, u, context'[u])
    BY <1>1, <1>2, <2>1 DEF QuestionIsLast
  <2>3. AskedIn(rows'[c], pc', u, context'[u])
    BY <1>1, <2>2, AskedStays
  <2>. QED
    BY <1>2, <1>6, <2>2, <2>3 DEF Answering
<1>. QED
  BY <1>4, <1>5, <1>6

\* No step lets a turn read a history with half a turn that was declared done.
LEMMA WholeStep ==
  ASSUME TypeOK, OneProcess, MutualExclusion, RowInv, ContextInv, [Next]_vars
  PROVE  HistoryIsWhole'
<1> USE DEF ContextInv
<1> SUFFICES ASSUME NEW t \in Turns, NEW c, c = req[t].conv, pc'[t] \in Answering,
                    NEW i \in 1..context'[t], NEW u, u = rows'[c][i].turn, Done(u)'
             PROVE  \E j, k \in 1..context'[t] : rows'[c][j] = Row(u, "user") /\ rows'[c][k] = Row(u, "assistant")
  BY StepShape DEF HistoryIsWhole, LogOf
<1>1. c \in Convs /\ LogOf(t) = rows[c]
  BY DEF TypeOK, LogOf
<1>2. /\ Len(rows[c]) \in Nat /\ DOMAIN rows[c] = 1..Len(rows[c])
      /\ \A j \in 1..Len(rows[c]) : rows'[c][j] = rows[c][j] /\ rows[c][j] \in Log
  BY <1>1, LogGrows
<1>3. late[t] # None => pc[t] = "cut"
  BY DEF RowInv, WritesInOrder
<1>4. \/ pc[t] \in Answering /\ context'[t] = context[t]
      \/ pc[t] = "context" /\ context'[t] = Len(rows[c])
  BY <1>1, <1>3, StepShape DEF OthersRest, Walks, Puts, Stops, Silent, Answering, Asking
<1>5. context'[t] \in 0..Len(rows[c]) /\ Critical(t)
  BY <1>1, <1>2, <1>4 DEF QuestionIsLast, Critical, CriticalPlaces, Answering
<1>6. i \in 1..Len(rows[c])
  BY <1>2, <1>5
<1>7. u = rows[c][i].turn /\ u \in Turns
  BY <1>2, <1>6 DEF Log
<1>8. req[u].conv = c
  BY <1>1, <1>2, <1>6, <1>7 DEF RowInv, RowsAreOwned
<1>9. Done(u)
  <2>1. CASE pc[u] = "reply" /\ pc'[u] = "finished"
    <3>1. u = t
      BY <1>5, <1>7, <1>8, <2>1, AloneInside DEF Critical, CriticalPlaces
    <3>. QED
      BY <2>1, <3>1 DEF Answering
  <2>. QED
    BY <1>7, <2>1, DoneMoves
<1>10. CASE pc[t] \in Answering /\ context'[t] = context[t]
  <2>1. PICK j \in 1..context[t], k \in 1..context[t] : rows[c][j] = Row(u, "user") /\ rows[c][k] = Row(u, "assistant")
    BY <1>1, <1>7, <1>9, <1>10 DEF HistoryIsWhole
  <2>2. j \in 1..Len(rows[c]) /\ k \in 1..Len(rows[c])
    BY <1>2, <1>5, <1>10
  <2>. QED
    BY <1>2, <1>10, <2>1, <2>2
<1>11. CASE pc[t] = "context" /\ context'[t] = Len(rows[c])
  <2>0. \E j, k \in DOMAIN LogOf(u) :
          j < k /\ LogOf(u)[j] = Row(u, "user") /\ LogOf(u)[k] = Row(u, "assistant")
    BY <1>7, <1>9 DEF DoneIsPersisted, LogOf
  <2>1. PICK j \in DOMAIN rows[c], k \in DOMAIN rows[c] : rows[c][j] = Row(u, "user") /\ rows[c][k] = Row(u, "assistant")
    BY <1>8, <2>0 DEF LogOf
  <2>. QED
    BY <1>2, <1>11, <2>1
<1>. QED
  BY <1>4, <1>10, <1>11

\* Rows and what was declared done, for any number of processes.
LEMMA RowsCorrect == Spec => [](RowInv /\ DoneIsOver /\ DoneIsPersisted)
<1>1. Init => TypeOK
  BY ChatTurnAssumption DEF Init, TypeOK, Places
<1>2. Init => RowInv /\ DoneIsOver /\ DoneIsPersisted
  <2> SUFFICES ASSUME Init PROVE RowInv /\ DoneIsOver /\ DoneIsPersisted
    OBVIOUS
  <2>1. /\ \A t \in Turns : pc[t] = "idle" /\ late[t] = None /\ events[t] = <<>> /\ LogOf(t) = <<>>
        /\ \A c \in Convs : rows[c] = <<>>
    BY DEF Init, LogOf
  <2>2. RowsAreOwned
    BY <2>1 DEF RowsAreOwned
  <2>3. \A t \in Turns : RolesIn(<<>>, t) = {}
    BY DEF RolesIn
  <2>4. WritesInOrder
    BY <2>1, <2>3 DEF WritesInOrder, Roles, Silent, Asking, Answering
  <2>5. DoneIsOver /\ DoneIsPersisted
    BY <2>1 DEF DoneIsOver, DoneIsPersisted, Done
  <2>. QED
    BY <2>2, <2>4, <2>5 DEF RowInv
<1>3. TypeOK /\ RowInv /\ DoneIsOver /\ DoneIsPersisted /\ [Next]_vars => RowInv' /\ DoneIsOver' /\ DoneIsPersisted'
  BY OwnedStep, OrderStep, DoneIsOverStep, PersistedStep DEF RowInv
<1>. QED
  BY <1>2, <1>3, TypeCorrect, PTL DEF Spec

\* "done" is said only of a turn whose message and reply are rows of the conversation, in
\* this order: for any number of processes, of turns that fail, leave or die, and of strays
\* (App::chat, App::chat_stream, conversations::append_message).
THEOREM Persisted == Spec => []DoneIsPersisted
<1>. QED
  BY RowsCorrect, PTL

\* What the turns that ask the model have read, with one process.
LEMMA ContextCorrect == OneProcess /\ Spec => []ContextInv
<1> SUFFICES ASSUME OneProcess PROVE Spec => []ContextInv
  OBVIOUS
<1>1. Init => ContextInv \/ ~(RowInv /\ DoneIsOver /\ DoneIsPersisted)
  BY DEF Init, ContextInv, QuestionIsLast, HistoryIsWhole, Answering
<1>2. /\ TypeOK /\ MutualExclusion /\ RowInv /\ DoneIsOver /\ DoneIsPersisted /\ ContextInv /\ [Next]_vars
      /\ DoneIsOver' /\ DoneIsPersisted'
      => ContextInv'
  BY QuestionStep, WholeStep DEF ContextInv
<1>. QED
  BY <1>1, <1>2, RowsCorrect, TypeCorrect, Exclusion, PTL DEF Spec

\* Who is inside a conversation, as a function of where the turns are.
Within(places, c) == {t \in Turns : places[t] \in CriticalPlaces /\ req[t].conv = c}

\* Nobody shares a conversation.
LEMMA WithinAlone ==
  ASSUME TypeOK, OneProcess, [Next]_vars, MutualExclusion, MutualExclusion', NEW c \in Convs
  PROVE  /\ \A t, u \in Within(pc, c) : t = u
         /\ \A t, u \in Within(pc', c) : t = u
<1>1. \A t \in Turns : req[t].proc \in Procs /\ req'[t] = req[t]
  BY StepShape DEF TypeOK
<1>2. ASSUME NEW t \in Within(pc, c), NEW u \in Within(pc, c) PROVE t = u
  BY <1>1, <1>2 DEF Within, OneProcess, MutualExclusion, Rivals, Critical
<1>3. ASSUME NEW t \in Within(pc', c), NEW u \in Within(pc', c) PROVE t = u
  BY <1>1, <1>3 DEF Within, OneProcess, MutualExclusion, Rivals, Critical
<1>. QED
  BY <1>2, <1>3

\* The turn that has a conversation open is the one inside it.
LEMMA CurrentIs ==
  ASSUME TypeOK, OneProcess, [Next]_vars, MutualExclusion, MutualExclusion', NEW c \in Convs
  PROVE  /\ \A t \in Within(pc, c) : Current(c) = t
         /\ Within(pc, c) = {} => Current(c) = None
         /\ \A t \in Within(pc', c) : Current(c)' = t
         /\ Within(pc', c) = {} => Current(c)' = None
<1>1. \A t \in Turns : /\ t \in Within(pc, c) <=> Critical(t) /\ req[t].conv = c
                       /\ t \in Within(pc', c) <=> Critical(t)' /\ req'[t].conv = c
  BY StepShape DEF Within, Critical
<1>2. ASSUME NEW t \in Within(pc, c) PROVE Current(c) = t
  <2>1. t \in Turns
    BY DEF Within
  <2>2. \E u \in Turns : Critical(u) /\ req[u].conv = c
    BY <1>1, <2>1
  <2>3. Current(c) \in Turns /\ Critical(Current(c)) /\ req[Current(c)].conv = c
    BY <2>2 DEF Current
  <2>. QED
    BY <1>1, <2>3, WithinAlone
<1>3. Within(pc, c) = {} => Current(c) = None
  BY <1>1 DEF Current
<1>4. ASSUME NEW t \in Within(pc', c) PROVE Current(c)' = t
  <2>1. t \in Turns
    BY DEF Within
  <2>2. \E u \in Turns : Critical(u)' /\ req'[u].conv = c
    BY <1>1, <2>1
  <2>3. PICK u \in Turns : u = Current(c)' /\ Critical(u)' /\ req'[u].conv = c
    BY <2>2 DEF Current
  <2>. QED
    BY <1>1, <2>3, WithinAlone
<1>5. Within(pc', c) = {} => Current(c)' = None
  BY <1>1 DEF Current
<1>. QED
  BY <1>2, <1>3, <1>4, <1>5

\* Where nobody comes or goes, the conversation stays with whom it was.
LEMMA CurrentKept ==
  ASSUME TypeOK, OneProcess, [Next]_vars, MutualExclusion, MutualExclusion', NEW c \in Convs,
         Within(pc', c) = Within(pc, c)
  PROVE  Current(c)' = Current(c)
<1>1. CASE Within(pc, c) = {}
  BY <1>1, CurrentIs
<1>2. CASE Within(pc, c) # {}
  BY <1>2, CurrentIs
<1>. QED
  BY <1>1, <1>2

Opens == [c \in Convs |-> Current(c)]
Closes == {t \in Turns : Over(t)}
Tears == {t \in Turns : pc[t] = "cut"}

\* Outside the conversation of the turn that moves nothing changes hands.
LEMMA OpensMove ==
  ASSUME TypeOK, OneProcess, [Next]_vars, MutualExclusion, MutualExclusion', NEW t \in Turns, OthersRest(t),
         NEW c, c = req[t].conv
  PROVE  /\ c \in Convs
         /\ \A d \in Convs \ {c} : Current(d)' = Current(d)
         /\ Critical(t) => Current(c) = t
         /\ Critical(t)' => Current(c)' = t
         /\ Critical(t) /\ ~Critical(t)' => Current(c)' = None
         /\ ~Critical(t) /\ Critical(t)' => Current(c) = None
         /\ ~Critical(t) /\ ~Critical(t)' => Current(c)' = Current(c)
<1>1. c \in Convs
  BY DEF TypeOK
<1>2. /\ Critical(t) <=> t \in Within(pc, c)
      /\ Critical(t)' <=> t \in Within(pc', c)
      /\ \A d \in Convs : Within(pc, d) \ {t} = Within(pc', d) \ {t}
      /\ \A d \in Convs \ {c} : Within(pc', d) = Within(pc, d)
  BY DEF Within, OthersRest, Critical
<1>3. \A d \in Convs \ {c} : Current(d)' = Current(d)
  BY <1>2, CurrentKept
<1>4. Critical(t) /\ ~Critical(t)' => Within(pc', c) = {}
  BY <1>1, <1>2, WithinAlone
<1>5. ~Critical(t) /\ Critical(t)' => Within(pc, c) = {}
  BY <1>1, <1>2, WithinAlone
<1>6. ~Critical(t) /\ ~Critical(t)' => Within(pc, c) = Within(pc', c)
  BY <1>1, <1>2
<1>7. /\ Critical(t) => Current(c) = t
      /\ Critical(t)' => Current(c)' = t
  BY <1>1, <1>2, CurrentIs
<1>8. /\ Critical(t) /\ ~Critical(t)' => Current(c)' = None
      /\ ~Critical(t) /\ Critical(t)' => Current(c) = None
  BY <1>1, <1>4, <1>5, CurrentIs
<1>9. ~Critical(t) /\ ~Critical(t)' => Current(c)' = Current(c)
  BY <1>1, <1>6, CurrentKept
<1>. QED
  BY <1>1, <1>3, <1>7, <1>8, <1>9

\* The same, of the functions the abstract log is made of.
LEMMA SerialMoves ==
  ASSUME TypeOK, OneProcess, [Next]_vars, MutualExclusion, MutualExclusion', NEW t \in Turns, OthersRest(t),
         NEW c, c = req[t].conv
  PROVE  /\ (Critical(t) <=> Critical(t)') => Opens' = Opens
         /\ ~Critical(t) /\ Critical(t)' => Opens[c] = None /\ Opens' = [Opens EXCEPT ![c] = t]
         /\ Critical(t) => Opens[c] = t
         /\ Critical(t) /\ ~Critical(t)' => Opens' = [Opens EXCEPT ![c] = None]
         /\ (Over(t)' <=> Over(t)) => Closes' = Closes
         /\ Over(t)' => Closes' = Closes \cup {t}
         /\ (pc'[t] = "cut" <=> pc[t] = "cut") => Tears' = Tears
         /\ pc'[t] = "cut" => Tears' = Tears \cup {t}
<1>1. c \in Convs /\ \A d \in Convs \ {c} : Current(d)' = Current(d)
  BY OpensMove
<1>2. ASSUME NEW new, Current(c)' = new PROVE Opens' = [Opens EXCEPT ![c] = new]
  <2>1. Opens' = [d \in Convs |-> IF d = c THEN new ELSE Current(d)]
    BY <1>1, <1>2 DEF Opens
  <2>. QED
    BY <1>1, <2>1 DEF Opens
<1>3. Opens[c] = Current(c) /\ Opens = [Opens EXCEPT ![c] = Current(c)]
  BY <1>1 DEF Opens
<1>4. /\ (Critical(t) <=> Critical(t)') => Current(c)' = Current(c)
      /\ ~Critical(t) /\ Critical(t)' => Current(c) = None /\ Current(c)' = t
      /\ Critical(t) => Current(c) = t
      /\ Critical(t) /\ ~Critical(t)' => Current(c)' = None
  BY OpensMove
<1>5. \A u \in Turns \ {t} : Over(u)' = Over(u) /\ pc'[u] = pc[u]
  BY DEF OthersRest, Over
<1>6. /\ (Over(t)' <=> Over(t)) => Closes' = Closes
      /\ Over(t)' => Closes' = Closes \cup {t}
  BY <1>5 DEF Closes
<1>7. /\ (pc'[t] = "cut" <=> pc[t] = "cut") => Tears' = Tears
      /\ pc'[t] = "cut" => Tears' = Tears \cup {t}
  BY <1>5 DEF Tears
<1>. QED
  BY <1>2, <1>3, <1>4, <1>6, <1>7

\* The actions of the abstract log, told in these functions.
LEMMA SerialRests ==
  ASSUME Opens' = Opens, Closes' = Closes, Tears' = Tears, rows' = rows
  PROVE  UNCHANGED Serial!serialVars
BY DEF Serial!serialVars, Opens, Closes, Tears

\* A turn that gets the lock of a free conversation opens it.
LEMMA SerialOpens ==
  ASSUME NEW t \in Turns, NEW c \in Convs, Opens[c] = None, ~Over(t),
         Opens' = [Opens EXCEPT ![c] = t], Closes' = Closes, Tears' = Tears, rows' = rows
  PROVE  Serial!SerialNext
<1>1. Serial!Open(c, t)
  BY DEF Serial!Open, Opens, Closes, Tears
<1>. QED
  BY <1>1 DEF Serial!SerialNext

\* A turn that returns without writing closes its conversation.
LEMMA SerialCloses ==
  ASSUME NEW t \in Turns, NEW c \in Convs, Opens[c] = t,
         Opens' = [Opens EXCEPT ![c] = None], Closes' = Closes \cup {t}, Tears' = Tears, rows' = rows
  PROVE  Serial!SerialNext
<1>1. Serial!Close(c, t)
  BY DEF Serial!Close, Opens, Closes, Tears
<1>. QED
  BY <1>1 DEF Serial!SerialNext

\* What may be written here is what may follow there.
LEMMA SerialFollows ==
  ASSUME NEW t \in Turns, NEW c, c = req[t].conv, NEW role \in RowRoles, MayWrite(Roles(t), role)
  PROVE  /\ role \in {"user", "assistant", "error"}
         /\ Serial!MayFollow(Serial!Written(c, t), role)
<1>1. Serial!Written(c, t) = Roles(t)
  BY DEF Serial!Written, Roles, RolesIn, LogOf
<1>2. Serial!MayFollow(Roles(t), role)
  BY DEF Serial!MayFollow, MayWrite, RowRoles
<1>. QED
  BY <1>1, <1>2 DEF RowRoles

\* A row of the turn inside is a write, with or without its end.
LEMMA SerialWrites ==
  ASSUME NEW t \in Turns, NEW c \in Convs, c = req[t].conv, NEW role \in RowRoles, MayWrite(Roles(t), role),
         Wrote(t, role), Opens[c] = t, Tears' = Tears,
         \/ Opens' = Opens /\ Closes' = Closes
         \/ Opens' = [Opens EXCEPT ![c] = None] /\ Closes' = Closes \cup {t}
  PROVE  Serial!SerialNext
<1>1. \E r \in {"user", "assistant", "error"} :
        /\ Serial!MayFollow(Serial!Written(c, t), r)
        /\ rows' = [rows EXCEPT ![c] = Append(@, [turn |-> t, role |-> r])]
  BY SerialFollows DEF Wrote, Row
<1>2. Serial!Write(c, t)
  BY <1>1 DEF Serial!Write, Opens, Closes, Tears
<1>. QED
  BY <1>2 DEF Serial!SerialNext

\* A row of a turn that was cut short is a stray.
LEMMA SerialStrays ==
  ASSUME NEW t \in Turns, NEW c \in Convs, c = req[t].conv, NEW role \in RowRoles, MayWrite(Roles(t), role),
         Wrote(t, role), pc[t] = "cut", Opens' = Opens, Closes' = Closes, Tears' = Tears
  PROVE  Serial!SerialNext
<1>1. \E r \in {"user", "assistant", "error"} :
        /\ Serial!MayFollow(Serial!Written(c, t), r)
        /\ rows' = [rows EXCEPT ![c] = Append(@, [turn |-> t, role |-> r])]
  BY SerialFollows DEF Wrote, Row
<1>2. Serial!Stray(c, t)
  BY <1>1 DEF Serial!Stray, Opens, Closes, Tears
<1>. QED
  BY <1>2 DEF Serial!SerialNext

\* Turns that are cut at once leave the conversations they were inside.
LEMMA SerialTears ==
  ASSUME TypeOK, OneProcess, [Next]_vars, MutualExclusion, MutualExclusion', rows' = rows,
         NEW ts \in SUBSET Turns, \A t \in Turns : IF t \in ts THEN Stops(t) ELSE pc'[t] = pc[t]
  PROVE  Serial!SerialNext
<1>1. /\ Closes' = Closes \cup ts
      /\ Tears' = Tears \cup ts
  BY DEF Closes, Tears, Over, Stops
<1>2. ASSUME NEW c \in Convs PROVE Current(c)' = IF Current(c) \in ts THEN None ELSE Current(c)
  <2>1. Within(pc', c) = Within(pc, c) \ ts
    BY DEF Within, Stops, CriticalPlaces
  <2>2. CASE Within(pc, c) = {}
    <3>1. Current(c) = None /\ Current(c)' = None
      BY <2>1, <2>2, CurrentIs
    <3>. QED
      BY <3>1
  <2>3. ASSUME NEW t \in Within(pc, c), t \in ts PROVE Current(c) = t /\ Current(c)' = None
    <3>1. Within(pc', c) = {}
      BY <2>1, <2>3, WithinAlone
    <3>. QED
      BY <3>1, CurrentIs
  <2>4. ASSUME NEW t \in Within(pc, c), t \notin ts PROVE Current(c) = t /\ Current(c)' = t
    <3>1. t \in Within(pc', c)
      BY <2>1, <2>4
    <3>. QED
      BY <3>1, CurrentIs
  <2>. QED
    BY <2>2, <2>3, <2>4
<1>3. Serial!Tear(ts)
  BY <1>1, <1>2 DEF Serial!Tear, Closes, Tears
<1>. QED
  BY <1>3 DEF Serial!SerialNext

\* Every step is one of the abstract log, or none of its business.
LEMMA SerialStep ==
  ASSUME TypeOK, OneProcess, [Next]_vars, MutualExclusion, MutualExclusion', WritesInOrder
  PROVE  Serial!SerialNext \/ UNCHANGED Serial!serialVars
<1>1. CASE rows' = rows /\ \A t \in Turns : Stops(t) \/ (pc'[t] = pc[t] /\ late'[t] = late[t])
  <2> DEFINE ts == {t \in Turns : pc'[t] # pc[t]}
  <2>1. \A t \in Turns : IF t \in ts THEN Stops(t) ELSE pc'[t] = pc[t]
    BY <1>1
  <2>. QED
    BY <1>1, <2>1, SerialTears
<1>2. ASSUME NEW t \in Turns, OthersRest(t), Stops(t), rows' = rows PROVE Serial!SerialNext
  <2>1. \A u \in Turns : IF u \in {t} THEN Stops(u) ELSE pc'[u] = pc[u]
    BY <1>2 DEF OthersRest
  <2>. QED
    BY <1>2, <2>1, SerialTears
<1>3. ASSUME NEW t \in Turns, OthersRest(t), Walks(t) PROVE Serial!SerialNext \/ UNCHANGED Serial!serialVars
  <2>1. PICK c \in Convs : c = req[t].conv
    BY DEF TypeOK
  <2>2. rows' = rows /\ ~Over(t) /\ pc'[t] # "cut" /\ Tears' = Tears
    <3>1. pc[t] # "cut" /\ pc'[t] # "cut" /\ ~Over(t) /\ rows' = rows
      BY <1>3 DEF Walks, Silent, Answering, Over
    <3>. QED
      BY <1>3, <2>1, <3>1, SerialMoves
  <2>3. CASE pc[t] = "waiting" /\ pc'[t] = "prepare"
    <3>1. ~Critical(t) /\ Critical(t)' /\ ~Over(t)'
      BY <2>3 DEF Critical, CriticalPlaces, Over
    <3>2. Opens[c] = None /\ Opens' = [Opens EXCEPT ![c] = t] /\ Closes' = Closes
      BY <1>3, <2>1, <2>2, <3>1, SerialMoves
    <3>. QED
      BY <2>2, <3>2, SerialOpens
  <2>4. CASE Critical(t) /\ pc'[t] = "finished"
    <3>1. ~Critical(t)' /\ Over(t)'
      BY <2>4 DEF Critical, CriticalPlaces, Over
    <3>2. Opens[c] = t /\ Opens' = [Opens EXCEPT ![c] = None] /\ Closes' = Closes \cup {t}
      BY <1>3, <2>1, <2>4, <3>1, SerialMoves
    <3>. QED
      BY <2>2, <3>2, SerialCloses
  <2>5. CASE (Critical(t) <=> Critical(t)') /\ ~Over(t)'
    <3>1. Opens' = Opens /\ Closes' = Closes
      BY <1>3, <2>1, <2>2, <2>5, SerialMoves
    <3>. QED
      BY <2>2, <3>1, SerialRests
  <2>. QED
    BY <1>3, <2>3, <2>4, <2>5 DEF Walks, Silent, Answering, Asking, Critical, CriticalPlaces, Over
<1>4. ASSUME NEW t \in Turns, OthersRest(t), Puts(t) PROVE Serial!SerialNext
  <2>1. PICK c \in Convs : c = req[t].conv
    BY DEF TypeOK
  <2>2. ASSUME Critical(t), pc'[t] # "cut", NEW role \in RowRoles, Wrote(t, role), MayWrite(Roles(t), role),
               Critical(t)' \/ pc'[t] = "finished"
        PROVE  Serial!SerialNext
    <3>1. ~Over(t) /\ pc[t] # "cut"
      BY <2>2 DEF Over, Critical, CriticalPlaces
    <3>2. Opens[c] = t /\ Tears' = Tears
      BY <1>4, <2>1, <2>2, <3>1, SerialMoves
    <3>3. CASE Critical(t)'
      <4>1. ~Over(t)'
        BY <3>3 DEF Over, Critical, CriticalPlaces
      <4>2. Opens' = Opens /\ Closes' = Closes
        BY <1>4, <2>1, <2>2, <3>1, <3>3, <4>1, SerialMoves
      <4>. QED
        BY <2>1, <2>2, <3>2, <4>2, SerialWrites
    <3>4. CASE pc'[t] = "finished"
      <4>1. ~Critical(t)' /\ Over(t)'
        BY <3>4 DEF Over, Critical, CriticalPlaces
      <4>2. Opens' = [Opens EXCEPT ![c] = None] /\ Closes' = Closes \cup {t}
        BY <1>4, <2>1, <2>2, <4>1, SerialMoves
      <4>. QED
        BY <2>1, <2>2, <3>2, <4>2, SerialWrites
    <3>. QED
      BY <2>2, <3>3, <3>4
  <2>3. CASE pc[t] = "prepare" /\ Wrote(t, "user") /\ pc'[t] \in {"context", "finished"}
    <3>1. MayWrite(Roles(t), "user")
      BY <2>3 DEF WritesInOrder, Silent, MayWrite
    <3>. QED
      BY <2>2, <2>3, <3>1 DEF Critical, CriticalPlaces, RowRoles
  <2>4. CASE pc[t] = "reply" /\ Wrote(t, "assistant") /\ pc'[t] \in {"error", "finished"}
    <3>1. MayWrite(Roles(t), "assistant")
      BY <2>4 DEF WritesInOrder, Asking, Answering, MayWrite
    <3>. QED
      BY <2>2, <2>4, <3>1 DEF Critical, CriticalPlaces, RowRoles
  <2>5. CASE pc[t] = "error" /\ Wrote(t, "error") /\ pc'[t] = "finished"
    <3>1. MayWrite(Roles(t), "error")
      BY <2>5 DEF WritesInOrder, MayWrite
    <3>. QED
      BY <2>2, <2>5, <3>1 DEF Critical, CriticalPlaces, RowRoles
  <2>6. CASE late[t] # None /\ late[t] \in RowRoles /\ Wrote(t, late[t]) /\ pc'[t] = pc[t]
    <3>1. pc[t] = "cut" /\ MayWrite(Roles(t), late[t])
      BY <2>6 DEF WritesInOrder
    <3>2. (Critical(t) <=> Critical(t)') /\ (Over(t)' <=> Over(t)) /\ pc'[t] = "cut"
      BY <2>6, <3>1 DEF Critical, Over
    <3>3. Opens' = Opens /\ Closes' = Closes /\ Tears' = Tears
      BY <1>4, <2>1, <3>1, <3>2, SerialMoves
    <3>. QED
      BY <2>1, <2>6, <3>1, <3>3, SerialStrays
  <2>. QED
    BY <1>4, <2>3, <2>4, <2>5, <2>6 DEF Puts
<1>. QED
  BY <1>1, <1>2, <1>3, <1>4, StepShape

\* With one process over the database, the conversation log is that of SerialChat: turns open
\* and close a conversation one at a time, and only turns that were cut short leave strays.
THEOREM Serializes == OneProcess /\ Spec => ImplementsSerial
<1> SUFFICES ASSUME OneProcess PROVE Spec => ImplementsSerial
  OBVIOUS
<1>1. Init => Serial!SerialInit
  <2> SUFFICES ASSUME Init PROVE Serial!SerialInit
    OBVIOUS
  <2>1. \A t \in Turns : ~Critical(t) /\ ~Over(t) /\ pc[t] # "cut"
    BY DEF Init, Critical, CriticalPlaces, Over
  <2>2. \A c \in Convs : Current(c) = None
    BY <2>1 DEF Current
  <2>3. rows = [c \in Convs |-> <<>>]
    BY DEF Init
  <2>. QED
    BY <2>1, <2>2, <2>3 DEF Serial!SerialInit
<1>2. /\ TypeOK /\ MutualExclusion /\ MutualExclusion' /\ RowInv /\ [Next]_vars
      => [Serial!SerialNext]_(Serial!serialVars)
  BY SerialStep DEF RowInv
<1>. QED
  BY <1>1, <1>2, TypeCorrect, Exclusion, RowsCorrect, PTL DEF Spec, ImplementsSerial, Serial!SerialSpec

\* Of two turns with rows in a conversation, the one that has an earlier row is finished.
EarlierIsFinished ==
  \A c \in Convs : \A i, j \in DOMAIN rows[c] :
    LET t == rows[c][i].turn
        u == rows[c][j].turn
    IN  i < j /\ t # u /\ pc[t] # "cut" /\ pc[u] # "cut" => pc[t] = "finished"

\* A new row is the last, of a turn that is inside or was cut short.
LEMMA NewRow ==
  ASSUME TypeOK, RowInv, [Next]_vars, NEW c \in Convs, NEW j \in DOMAIN rows'[c], j \notin DOMAIN rows[c],
         NEW u, u = rows'[c][j].turn
  PROVE  /\ j = Len(rows[c]) + 1 /\ u \in Turns /\ req[u].conv = c
         /\ Critical(u) \/ (pc[u] = "cut" /\ pc'[u] = "cut")
<1>1. Len(rows[c]) \in Nat /\ DOMAIN rows[c] = 1..Len(rows[c]) /\ DOMAIN rows'[c] = 1..Len(rows'[c])
  BY LogGrows
<1>2. PICK t \in Turns, role \in RowRoles : Wrote(t, role) /\ Puts(t)
  BY StepShape DEF Walks, Puts, RowRoles
<1>3. c = req[t].conv
  BY <1>2, RowsGrow
<1>4. Len(rows'[c]) = Len(rows[c]) + 1 /\ rows'[c][Len(rows[c]) + 1] = Row(t, role)
  BY <1>2, <1>3, RowsGrow
<1>5. j = Len(rows[c]) + 1
  BY <1>1, <1>4
<1>6. u = t
  BY <1>4, <1>5 DEF Row
<1>7. late[t] # None => pc[t] = "cut"
  BY DEF RowInv, WritesInOrder
<1>8. Critical(t) \/ (pc[t] = "cut" /\ pc'[t] = "cut")
  BY <1>2, <1>7 DEF Puts, Critical, CriticalPlaces
<1>. QED
  BY <1>3, <1>5, <1>6, <1>8

\* The rows there were are of the turns they were of; who was cut stays cut.
LEMMA OldRow ==
  ASSUME TypeOK, [Next]_vars, NEW c \in Convs, NEW i \in DOMAIN rows[c], NEW t, t = rows'[c][i].turn
  PROVE  /\ t = rows[c][i].turn /\ t \in Turns /\ i \in 1..Len(rows[c]) /\ Len(rows[c]) \in Nat
         /\ pc'[t] # "cut" => pc[t] # "cut"
         /\ pc[t] = "finished" => pc'[t] = "finished"
<1>1. Len(rows[c]) \in Nat /\ i \in 1..Len(rows[c]) /\ rows'[c][i] = rows[c][i] /\ rows[c][i] \in Log
  BY LogGrows
<1>2. t \in Turns /\ t = rows[c][i].turn
  BY <1>1 DEF Log
<1>. QED
  BY <1>1, <1>2, InsideStays DEF Over

\* No step lets a turn write behind one that is still to write.
LEMMA EarlierStep ==
  ASSUME TypeOK, RowInv, OneProcess, MutualExclusion, EarlierIsFinished, [Next]_vars
  PROVE  EarlierIsFinished'
<1> SUFFICES ASSUME NEW c \in Convs, NEW i \in DOMAIN rows'[c], NEW j \in DOMAIN rows'[c],
                    NEW t, t = rows'[c][i].turn, NEW u, u = rows'[c][j].turn,
                    i < j, t # u, pc'[t] # "cut", pc'[u] # "cut"
             PROVE  pc'[t] = "finished"
  BY DEF EarlierIsFinished
<1>1. i \in DOMAIN rows[c]
  <2>1. DOMAIN rows[c] = 1..Len(rows[c]) /\ DOMAIN rows'[c] = 1..Len(rows'[c]) /\ Len(rows[c]) \in Nat /\ Len(rows'[c]) \in Nat
    BY LogGrows
  <2>2. j \in DOMAIN rows[c] \/ j = Len(rows[c]) + 1
    BY NewRow
  <2>. QED
    BY <2>1, <2>2
<1>2. t = rows[c][i].turn /\ t \in Turns /\ pc[t] # "cut"
  BY <1>1, OldRow
<1>3. CASE j \in DOMAIN rows[c]
  <2>1. u = rows[c][j].turn /\ u \in Turns /\ pc[u] # "cut"
    BY <1>3, OldRow
  <2>2. pc[t] = "finished"
    BY <1>1, <1>2, <1>3, <2>1 DEF EarlierIsFinished
  <2>. QED
    BY <1>1, <2>2, OldRow
<1>4. CASE j \notin DOMAIN rows[c]
  <2>1. u \in Turns /\ req[u].conv = c /\ Critical(u)
    BY <1>4, NewRow
  <2>2. req[t].conv = c /\ (Critical(t) \/ Over(t))
    BY <1>1, <1>2 DEF RowInv, RowsAreOwned
  <2>3. pc[t] = "finished"
    BY <1>2, <2>1, <2>2, AloneInside DEF Over
  <2>. QED
    BY <1>1, <2>3, OldRow
<1>. QED
  BY <1>3, <1>4

\* No step puts a row of another turn between two of one turn.
LEMMA InterleaveStep ==
  ASSUME TypeOK, RowInv, EarlierIsFinished, TurnsDoNotInterleave, [Next]_vars
  PROVE  TurnsDoNotInterleave'
<1> SUFFICES ASSUME NEW c \in Convs, NEW i \in DOMAIN rows'[c], NEW k \in DOMAIN rows'[c],
                    NEW j \in (i + 1)..(k - 1),
                    NEW t, t = rows'[c][i].turn, NEW u, u = rows'[c][j].turn,
                    rows'[c][k].turn = t, u # t, pc'[t] # "cut", pc'[u] # "cut"
             PROVE  FALSE
  BY DEF TurnsDoNotInterleave
<1>1. /\ DOMAIN rows[c] = 1..Len(rows[c]) /\ DOMAIN rows'[c] = 1..Len(rows'[c])
      /\ Len(rows[c]) \in Nat /\ Len(rows'[c]) \in Nat
  BY LogGrows
<1>2. k \in DOMAIN rows[c] \/ k = Len(rows[c]) + 1
  BY NewRow
<1>3. i \in DOMAIN rows[c] /\ j \in DOMAIN rows[c] /\ i < j
  BY <1>1, <1>2
<1>4. t = rows[c][i].turn /\ u = rows[c][j].turn /\ pc[t] # "cut" /\ pc[u] # "cut"
  BY <1>3, OldRow
<1>5. CASE k \in DOMAIN rows[c]
  <2>1. rows[c][k].turn = t
    BY <1>5, OldRow
  <2>. QED
    BY <1>3, <1>4, <1>5, <2>1 DEF TurnsDoNotInterleave
<1>6. CASE k \notin DOMAIN rows[c]
  <2>1. Critical(t)
    BY <1>4, <1>6, NewRow
  <2>2. pc[t] = "finished"
    BY <1>3, <1>4 DEF EarlierIsFinished
  <2>. QED
    BY <2>1, <2>2 DEF Critical, CriticalPlaces
<1>. QED
  BY <1>5, <1>6

\* With one process over the database, nobody's row stands between two rows of a turn that
\* was not cut short; with two processes the lock does not reach that far, and the run
\* chat_two_processes shows rows that do.
THEOREM WholeTurns == OneProcess /\ Spec => []TurnsDoNotInterleave
<1> SUFFICES ASSUME OneProcess PROVE Spec => []TurnsDoNotInterleave
  OBVIOUS
<1>1. Init => EarlierIsFinished /\ TurnsDoNotInterleave
  BY DEF Init, EarlierIsFinished, TurnsDoNotInterleave
<1>2. /\ TypeOK /\ MutualExclusion /\ RowInv /\ EarlierIsFinished /\ TurnsDoNotInterleave /\ [Next]_vars
      => EarlierIsFinished' /\ TurnsDoNotInterleave'
  BY EarlierStep, InterleaveStep
<1>. QED
  BY <1>1, <1>2, TypeCorrect, Exclusion, RowsCorrect, PTL DEF Spec

----------------------------------------------------------------------------
\* No turn writes a row of one role twice.
OnceEach ==
  \A c \in Convs : \A i, j \in DOMAIN rows[c] : i < j => rows[c][i] # rows[c][j]

\* A turn that writes a row has none of its role.
LEMMA PutsOnce ==
  ASSUME RowInv, NEW t \in Turns, Puts(t)
  PROVE  \E role \in RowRoles : Wrote(t, role) /\ role \notin Roles(t)
<1>1. \E role \in RowRoles : Wrote(t, role) /\ MayWrite(Roles(t), role)
  BY DEF Puts, RowInv, WritesInOrder, MayWrite, RowRoles, Silent, Asking, Answering
<1>. QED
  BY <1>1 DEF MayWrite, RowRoles

\* No step writes a row there is.
LEMMA OnceStep ==
  ASSUME TypeOK, RowInv, OnceEach, [Next]_vars
  PROVE  OnceEach'
<1> SUFFICES ASSUME NEW c \in Convs, NEW i \in DOMAIN rows'[c], NEW j \in DOMAIN rows'[c],
                    i < j, rows'[c][i] = rows'[c][j]
             PROVE  FALSE
  BY DEF OnceEach
<1>1. /\ DOMAIN rows[c] = 1..Len(rows[c]) /\ DOMAIN rows'[c] = 1..Len(rows'[c])
      /\ Len(rows[c]) \in Nat /\ Len(rows'[c]) \in Nat
      /\ \A k \in 1..Len(rows[c]) : rows'[c][k] = rows[c][k]
  BY LogGrows
<1>2. CASE j \in DOMAIN rows[c]
  <2>1. i \in DOMAIN rows[c]
    BY <1>1, <1>2
  <2>. QED
    BY <1>1, <1>2, <2>1 DEF OnceEach
<1>3. CASE j \notin DOMAIN rows[c]
  <2>1. PICK t \in Turns, role \in RowRoles : Wrote(t, role) /\ role \notin Roles(t)
    <3>1. rows' # rows
      BY <1>3
    <3>2. PICK t \in Turns : Puts(t)
      BY <3>1, StepShape DEF Walks
    <3>. QED
      BY <3>2, PutsOnce
  <2>2. c = req[t].conv
    BY <1>3, <2>1, RowsGrow
  <2>3. Len(rows'[c]) = Len(rows[c]) + 1 /\ rows'[c][Len(rows[c]) + 1] = Row(t, role)
    BY <2>1, <2>2, RowsGrow
  <2>4. i \in DOMAIN rows[c] /\ j = Len(rows[c]) + 1
    BY <1>1, <1>3, <2>3
  <2>5. rows[c][i] = Row(t, role)
    BY <1>1, <2>3, <2>4
  <2>6. role \in Roles(t)
    BY <2>2, <2>4, <2>5 DEF Roles, RolesIn, LogOf, Row
  <2>. QED
    BY <2>1, <2>6
<1>. QED
  BY <1>2, <1>3

\* A history is the end of the messages: it holds what stands behind a message it holds, and
\* leaves none out that the limit does not cut off.
LEMMA HistoryIsTheEnd ==
  ASSUME NEW t \in Turns, context[t] \in Nat
  PROVE  /\ History(t) \in SUBSET Messages(t) /\ Messages(t) \in SUBSET (1..context[t])
         /\ \A i \in History(t) : \A j \in Messages(t) : i <= j => j \in History(t)
         /\ \A i \in Messages(t) : i \in History(t) \/ Shortened(t)
<1> DEFINE M == Messages(t)
           From(i) == {j \in M : j >= i}
<1> USE ChatTurnAssumption
<1>1. M \in SUBSET (1..context[t]) /\ History(t) = {i \in M : Cardinality(From(i)) <= ContextLimit}
  BY DEF Messages, History
<1>2. IsFiniteSet(M)
  <2>1. IsFiniteSet(1..context[t])
    BY FS_Interval
  <2>. QED
    BY <1>1, <2>1, FS_Subset
<1>3. \A i \in M : From(i) \in SUBSET M
  OBVIOUS
<1>4. \A i \in M : IsFiniteSet(From(i)) /\ Cardinality(From(i)) <= Cardinality(M)
  BY <1>2, <1>3, FS_Subset
<1>5. Cardinality(M) \in Nat /\ \A i \in M : Cardinality(From(i)) \in Nat
  BY <1>2, <1>4, FS_CardinalityType
<1>6. ASSUME NEW i \in M, NEW j \in M, i <= j PROVE Cardinality(From(j)) <= Cardinality(From(i))
  <2>1. From(j) \in SUBSET From(i)
    BY <1>1, <1>6
  <2>. QED
    BY <1>4, <2>1, FS_Subset
<1>7. ASSUME NEW i \in History(t), NEW j \in M, i <= j PROVE j \in History(t)
  <2>1. i \in M /\ Cardinality(From(i)) <= ContextLimit
    BY <1>1
  <2>2. Cardinality(From(j)) <= Cardinality(From(i))
    BY <1>6, <1>7, <2>1
  <2>3. Cardinality(From(j)) <= ContextLimit
    <3> HIDE DEF From
    <3>. QED
      BY <1>5, <2>1, <2>2
  <2>. QED
    BY <1>1, <2>3
<1>8. ASSUME NEW i \in M, i \notin History(t) PROVE Shortened(t)
  <2>1. ~(Cardinality(From(i)) <= ContextLimit)
    BY <1>1, <1>8
  <2>2. Cardinality(M) > ContextLimit
    <3> HIDE DEF From, M
    <3>. QED
      BY SMTT(40), <1>4, <1>5, <1>8, <2>1
  <2>. QED
    BY <2>2 DEF Shortened
<1>. QED
  BY <1>1, <1>7, <1>8

\* The invariants say what SettledContext asks for.
LEMMA ContextIsSettled ==
  ASSUME TypeOK, OneProcess, MutualExclusion, RowInv, ContextInv, OnceEach, TurnsDoNotInterleave
  PROVE  SettledContext
<1> USE DEF ContextInv
<1> SUFFICES ASSUME NEW t \in Turns, pc[t] \in Answering, NEW log, log = rows[req[t].conv],
                    NEW H, H = History(t)
             PROVE  /\ \/ \E i \in H : log[i] = Row(t, "user")
                       \/ Shortened(t) /\ \A i \in H : pc[log[i].turn] = "cut"
                    /\ \A i \in H : LET u == log[i].turn IN
                         /\ u # t => Over(u)
                         /\ Done(u) => \E j \in H : log[j] = Row(u, "assistant")
                         /\ Done(u) /\ ~(\E j \in H : log[j] = Row(u, "user"))
                              => Shortened(t) /\ \A j \in H : j < i => pc[log[j].turn] = "cut"
                         /\ (\A j \in H : j <= i) => log[i] = Row(t, "user") \/ pc[log[i].turn] = "cut"
  BY DEF SettledContext, Answering
<1>1. context[t] \in 0..Len(log) /\ AskedIn(log, pc, t, context[t]) /\ Critical(t)
  BY DEF QuestionIsLast, LogOf, Critical, CriticalPlaces, Answering
<1>2. log \in Seq(Log) /\ req[t].conv \in Convs
  BY DEF TypeOK, Log
<1>3. Len(log) \in Nat /\ DOMAIN log = 1..Len(log) /\ \A i \in 1..Len(log) : log[i] \in Log
  BY <1>2
<1>4. Messages(t) = {i \in 1..context[t] : log[i].role # "error"}
  BY DEF Messages
<1>5. context[t] \in Nat
  BY <1>1, <1>3
<1>6. /\ \A i \in H : i \in Messages(t) /\ i \in 1..context[t] /\ i \in DOMAIN log
      /\ \A i \in H : \A j \in Messages(t) : i <= j => j \in H
      /\ \A i \in Messages(t) : i \in H \/ Shortened(t)
  <2>1. \A i \in 1..context[t] : i \in DOMAIN log
    BY <1>1, <1>3
  <2>. QED
    BY <1>5, <2>1, HistoryIsTheEnd
<1>7. PICK q \in 1..context[t] : log[q] = Row(t, "user") /\ \A j \in (q + 1)..context[t] : pc[log[j].turn] = "cut"
  BY <1>1 DEF AskedIn
<1>8. q \in Messages(t)
  BY <1>4, <1>7 DEF Row
<1>9. ASSUME NEW k \in H, q \in H => q <= k PROVE k = q \/ pc[log[k].turn] = "cut"
  <2>1. k \in 1..context[t] /\ (k <= q => q \in H)
    BY <1>6, <1>8
  <2>2. k = q \/ k \in (q + 1)..context[t]
    BY <1>5, <1>9, <2>1
  <2>. QED
    BY <1>7, <2>2
<1>10. \/ \E k \in H : log[k] = Row(t, "user")
       \/ Shortened(t) /\ \A k \in H : pc[log[k].turn] = "cut"
  <2>1. CASE q \in H
    BY <1>7, <2>1
  <2>2. CASE q \notin H
    BY <1>6, <1>8, <1>9, <2>2
  <2>. QED
    BY <2>1, <2>2
<1>11. ASSUME NEW k \in H, NEW u, u = log[k].turn
       PROVE  /\ u # t => Over(u)
              /\ Done(u) => \E j \in H : log[j] = Row(u, "assistant")
              /\ Done(u) /\ ~(\E j \in H : log[j] = Row(u, "user"))
                   => Shortened(t) /\ \A j \in H : j < k => pc[log[j].turn] = "cut"
              /\ (\A j \in H : j <= k) => log[k] = Row(t, "user") \/ pc[log[k].turn] = "cut"
  <2>1. k \in 1..context[t] /\ k \in DOMAIN log /\ k \in Messages(t)
    BY <1>6
  <2>2. u \in Turns /\ req[u].conv = req[t].conv /\ (Critical(u) \/ Over(u))
    BY <1>2, <1>3, <1>11, <2>1 DEF RowInv, RowsAreOwned, Log
  <2>3. u # t => Over(u)
    BY <1>1, <2>2, AloneInside
  <2>4. ASSUME Done(u)
        PROVE  /\ \E j \in H : log[j] = Row(u, "assistant")
               /\ ~(\E j \in H : log[j] = Row(u, "user"))
                    => Shortened(t) /\ \A j \in H : j < k => pc[log[j].turn] = "cut"
    <3>1. PICK j \in 1..context[t], l \in 1..context[t] : log[j] = Row(u, "user") /\ log[l] = Row(u, "assistant")
      BY <1>11, <2>1, <2>4 DEF HistoryIsWhole, LogOf
    <3>2. j \in DOMAIN log /\ l \in DOMAIN log /\ j \in Messages(t) /\ l \in Messages(t)
      BY <1>1, <1>3, <1>4, <3>1 DEF Row
    <3>3. \A x, y \in DOMAIN log : log[x] = log[y] => x = y
      <4>1. \A x, y \in DOMAIN log : x < y => log[x] # log[y]
        BY <1>2 DEF OnceEach
      <4>. QED
        BY SMTT(40), <1>3, <4>1
    <3>4. j < l
      <4>1. PICK x \in DOMAIN log, y \in DOMAIN log : x < y /\ log[x] = Row(u, "user") /\ log[y] = Row(u, "assistant")
        BY <2>2, <2>4 DEF DoneIsPersisted
      <4>2. x = j /\ y = l
        BY <3>1, <3>2, <3>3, <4>1
      <4>. QED
        BY <4>1, <4>2
    <3>5. ASSUME NEW m \in H, log[m].turn = u PROVE m = j \/ m = l
      <4>1. m \in DOMAIN log /\ log[m].role \in {"user", "assistant"} /\ log[m] \in Log
        BY <1>3, <1>4, <1>6 DEF Log, RowRoles
      <4>2. log[m] = Row(u, "user") \/ log[m] = Row(u, "assistant")
        BY <3>5, <4>1 DEF Log, Row
      <4>. QED
        BY <3>1, <3>2, <3>3, <4>1, <4>2
    <3>6. k = j \/ k = l
      BY <1>11, <3>5
    <3>7. l \in H
      BY <1>3, <1>6, <3>2, <3>4, <3>6
    <3>8. ASSUME ~(\E m \in H : log[m] = Row(u, "user"))
          PROVE  Shortened(t) /\ \A m \in H : m < k => pc[log[m].turn] = "cut"
      <4>1. j \notin H /\ k = l
        BY <3>1, <3>6, <3>8
      <4>2. Shortened(t)
        BY <1>6, <3>2, <4>1
      <4>3. ASSUME NEW m \in H, m < k PROVE pc[log[m].turn] = "cut"
        <5>1. m \in DOMAIN log /\ ~(m <= j)
          BY <1>6, <3>2, <4>1
        <5>2. m \in (j + 1)..(l - 1) /\ m # l /\ m # j
          BY <1>3, <3>2, <4>1, <4>3, <5>1
        <5>3. log[m].turn # u
          BY <3>5, <5>2
        <5>4. pc[u] = "cut" \/ pc[log[m].turn] = "cut"
          <6>1. \A c \in Convs : \A x, z \in DOMAIN rows[c] : \A y \in (x + 1)..(z - 1) :
                  rows[c][z].turn = rows[c][x].turn /\ rows[c][y].turn # rows[c][x].turn
                    => pc[rows[c][x].turn] = "cut" \/ pc[rows[c][y].turn] = "cut"
            BY DEF TurnsDoNotInterleave
          <6>2. log[j].turn = u /\ log[l].turn = u
            BY <3>1 DEF Row
          <6>. QED
            BY <1>2, <3>2, <5>2, <5>3, <6>1, <6>2
        <5>5. pc[u] = "finished"
          BY <2>2, <2>4 DEF DoneIsOver
        <5>. QED
          BY <5>4, <5>5
      <4>. QED
        BY <4>2, <4>3
    <3>. QED
      BY <3>1, <3>7, <3>8
  <2>5. ASSUME \A j \in H : j <= k PROVE log[k] = Row(t, "user") \/ pc[log[k].turn] = "cut"
    BY <1>7, <1>9, <2>5
  <2>. QED
    BY <2>3, <2>4, <2>5
<1>. QED
  BY ZenonT(60), <1>10, <1>11

\* With one process over the database, the model is asked about a settled history: its last
\* message is the one to answer, the other turns in it are over, and of those declared done
\* the reply is there, with the question unless CONTEXT_LIMIT cut the history between the two
\* (App::chat_stream holds the lock from append_message to the last row).
THEOREM Settled == OneProcess /\ Spec => []SettledContext
<1> SUFFICES ASSUME OneProcess PROVE Spec => []SettledContext
  OBVIOUS
<1>1. OneProcess /\ Spec => []ContextInv /\ []TurnsDoNotInterleave
  BY ContextCorrect, WholeTurns, PTL
<1>2. Init => OnceEach
  BY DEF Init, OnceEach
<1>3. TypeOK /\ RowInv /\ OnceEach /\ [Next]_vars => OnceEach'
  BY OnceStep
<1>4. TypeOK /\ MutualExclusion /\ RowInv /\ ContextInv /\ OnceEach /\ TurnsDoNotInterleave => SettledContext
  BY ContextIsSettled
<1>. QED
  BY <1>1, <1>2, <1>3, <1>4, RowsCorrect, TypeCorrect, Exclusion, PTL DEF Spec

=============================================================================
