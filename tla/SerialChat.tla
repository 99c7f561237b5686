----------------------------- MODULE SerialChat -----------------------------
(***************************************************************************)
(* What the conversation log promises: turns are serialized.  A turn opens *)
(* a conversation nobody else has open, writes its message and then its    *)
(* outcome, and closes it.  The only rows that do not follow this order    *)
(* are strays: a turn that is cut short (its task is dropped, its process  *)
(* dies) may have one statement under way that the database still runs.    *)
(*                                                                         *)
(* ChatTurn implements this specification: see Serial in that module.      *)
(***************************************************************************)
EXTENDS Sequences

CONSTANTS Turns, Convs, NoTurn

VARIABLES
  log,      \* the rows of each conversation, oldest first
  current,  \* the turn that has the conversation open
  closed,   \* the turns that are over
  torn      \* those of them that were cut short

serialVars == <<log, current, closed, torn>>

\* The roles of the rows t has written so far to c.
Written(c, t) == {log[c][i].role : i \in {k \in DOMAIN log[c] : log[c][k].turn = t}}

\* What a turn may write next: its message first, then a reply, an error, or a
\* reply whose bookkeeping failed and then an error.
MayFollow(roles, role) ==
  \/ role = "user" /\ roles = {}
  \/ role = "assistant" /\ roles = {"user"}
  \/ role = "error" /\ roles \in {{"user"}, {"user", "assistant"}}

SerialInit ==
  /\ log = [c \in Convs |-> <<>>]
  /\ current = [c \in Convs |-> NoTurn]
  /\ closed = {}
  /\ torn = {}

Open(c, t) ==
  /\ current[c] = NoTurn
  /\ t \notin closed
  /\ current' = [current EXCEPT ![c] = t]
  /\ UNCHANGED <<log, closed, torn>>

\* The open turn writes a row; writing the last one may close the turn.
Write(c, t) ==
  /\ current[c] = t
  /\ \E role \in {"user", "assistant", "error"} :
       /\ MayFollow(Written(c, t), role)
       /\ log' = [log EXCEPT ![c] = Append(@, [turn |-> t, role |-> role])]
  /\ \/ UNCHANGED <<current, closed>>
     \/ /\ current' = [current EXCEPT ![c] = NoTurn]
        /\ closed' = closed \cup {t}
  /\ UNCHANGED torn

\* The open turn ends without writing.
Close(c, t) ==
  /\ current[c] = t
  /\ current' = [current EXCEPT ![c] = NoTurn]
  /\ closed' = closed \cup {t}
  /\ UNCHANGED <<log, torn>>

\* Turns are cut short: a process takes several with it.
Tear(ts) ==
  /\ current' = [c \in Convs |-> IF current[c] \in ts THEN NoTurn ELSE current[c]]
  /\ closed' = closed \cup ts
  /\ torn' = torn \cup ts
  /\ UNCHANGED log

Stray(c, t) ==
  /\ t \in torn
  /\ \E role \in {"user", "assistant", "error"} :
       /\ MayFollow(Written(c, t), role)
       /\ log' = [log EXCEPT ![c] = Append(@, [turn |-> t, role |-> role])]
  /\ UNCHANGED <<current, closed, torn>>

SerialNext ==
  \/ \E c \in Convs, t \in Turns :
       Open(c, t) \/ Write(c, t) \/ Close(c, t) \/ Stray(c, t)
  \/ \E ts \in SUBSET Turns : Tear(ts)

SerialSpec == SerialInit /\ [][SerialNext]_serialVars

=============================================================================
