----------------------------- MODULE McpStdio -----------------------------
(***************************************************************************)
(* One MCP session over the pipes of a child process: StdioSession of      *)
(* ira-mcp/src/stdio.rs.                                                   *)
(*                                                                         *)
(* A request takes a number, registers a one-shot sender under it, writes  *)
(* its line under the stdin lock and waits for the reader task or for its  *)
(* timeout. The reader task owns stdout: it gives replies to the senders,  *)
(* refuses what the child asks of Ira, and fails every sender when stdout  *)
(* ends or holds something unreadable. A call may be dropped at any await. *)
(*                                                                         *)
(* Abstracted: methods and values, the two framings of a message, and time *)
(* (a timeout may fire whenever a call waits). A line is written in two    *)
(* halves, the second with the newline; the pipes are bounded. The child   *)
(* answers in any order and is not restarted.                              *)
(***************************************************************************)
EXTENDS Naturals, Sequences, Functions

CONSTANTS
  Calls,      \* the requests of the session
  Opener,     \* the one that spawn sends: initialize
  PipeSize,   \* bound: halves of lines that fit in stdin
  OutSize,    \* bound: messages that fit in stdout
  MaxUnasked  \* bound: messages of the child that answer nothing

\* Authors of lines beside the requests.
Reader == "reader"
Notification == "notification"

ASSUME McpStdioAssumption ==
  /\ Opener \in Calls
  /\ {Reader, Notification} \intersect Calls = {}
  /\ PipeSize \in Nat \ {0} /\ OutSize \in Nat \ {0} /\ MaxUnasked \in Nat

VARIABLES
  phase,    \* of the session: "opening", "open" or "closed"
  call,     \* what each request is doing
  id,       \* its number, 0 before it has one
  nextId,   \* the counter
  pending,  \* number -> request whose sender is registered under it
  inbox,    \* what was sent to each one-shot: a sequence of at most one
  writer,   \* who holds the stdin lock: a sequence of at most one
  halfway,  \* the holder has written the first half of its line
  stdin,    \* halves of lines the child has not read
  line,     \* halves of the line the child is reading
  owed,     \* requests the child has read and not answered
  stdout,   \* messages the reader has not read
  unasked,  \* messages of the child that answered nothing
  child,    \* "running" or "exited"
  reader    \* the reader task

callVars == <<phase, call, id, nextId>>
lockVars == <<writer, halfway>>
childVars == <<line, owed, unasked, child>>
vars == <<callVars, lockVars, childVars, pending, inbox, stdin, stdout, reader>>

InFlight == {"registered", "writing", "waiting", "notify", "notifying", "write failed", "timed out"}
Failures == {"failed", "timeout", "dropped"}
Ended == {"ok"} \union Failures

Message == [type : {"reply", "ask", "note", "noise", "closed"}, result : {"value", "error", "none"},
            id : Nat, of : Calls \union {Reader}]

HalfLine == [of : Calls \union {Reader, Notification}, part : {"head", "tail"}]

\* A reply is about the request whose number it bears when the child read it.
Reply(c, result) == [type |-> "reply", result |-> result, id |-> id[c], of |-> c]
Closed(c) == [type |-> "closed", result |-> "error", id |-> id[c], of |-> c]
Unasked(type) == [type |-> type, result |-> "none", id |-> 0, of |-> Reader]

Half(of, part) == [of |-> of, part |-> part]

\* What the holder of the lock writes.
LineOf(w) ==
  IF w # Reader /\ call[w] = "notifying" THEN Notification ELSE w

Init ==
  /\ phase = "opening"
  /\ call = [c \in Calls |-> "idle"]
  /\ id = [c \in Calls |-> 0]
  /\ nextId = 1
  /\ pending = [i \in {} |-> Opener]
  /\ inbox = [c \in Calls |-> <<>>]
  /\ writer = <<>> /\ halfway = FALSE
  /\ stdin = <<>> /\ line = <<>> /\ owed = {} /\ stdout = <<>>
  /\ unasked = 0
  /\ child = "running"
  /\ reader = "reading"

----------------------------------------------------------------------------
\* The requests.

\* Mutant: the number is not counted up.
SameId(i) == i

AfterId(i) == i + 1

\* The number and the sender, before anything is written.
Register(c) ==
  /\ call[c] = "idle"
  /\ phase = IF c = Opener THEN "opening" ELSE "open"
  /\ call' = [call EXCEPT ![c] = "registered"]
  /\ id' = [id EXCEPT ![c] = nextId]
  /\ nextId' = AfterId(nextId)
  /\ pending' = [i \in DOMAIN pending \union {nextId} |-> IF i = nextId THEN c ELSE pending[i]]
  /\ UNCHANGED <<phase, inbox, lockVars, stdin, stdout, childVars, reader>>

\* Mutant: the lock is not waited for.
StdinTaken == writer = writer

StdinFree == writer = <<>>

Lock(c) ==
  /\ call[c] \in {"registered", "notify"}
  /\ StdinFree
  /\ writer' = <<c>> /\ halfway' = FALSE
  /\ call' = [call EXCEPT ![c] = IF @ = "notify" THEN "notifying" ELSE "writing"]
  /\ UNCHANGED <<phase, id, nextId, pending, inbox, stdin, stdout, childVars, reader>>

Unlock == writer' = <<>> /\ halfway' = FALSE

\* The first half of the holder's line.
WriteHead(w) ==
  /\ writer = <<w>> /\ ~halfway
  /\ child = "running" /\ Len(stdin) < PipeSize
  /\ stdin' = Append(stdin, Half(LineOf(w), "head"))
  /\ halfway' = TRUE
  /\ UNCHANGED <<callVars, pending, inbox, writer, stdout, childVars, reader>>

\* The rest of a request: it waits for its reply from here. The reader's answer and
\* the notification that follows initialize expect none; with the latter the session
\* is open.
WriteTail(w) ==
  /\ writer = <<w>> /\ halfway
  /\ child = "running" /\ Len(stdin) < PipeSize
  /\ stdin' = Append(stdin, Half(LineOf(w), "tail"))
  /\ Unlock
  /\ \/ /\ w = Reader
        /\ reader' = "reading"
        /\ UNCHANGED <<phase, call>>
     \/ /\ w # Reader /\ call[w] = "writing"
        /\ call' = [call EXCEPT ![w] = "waiting"]
        /\ UNCHANGED <<phase, reader>>
     \/ /\ w # Reader /\ call[w] = "notifying"
        /\ call' = [call EXCEPT ![w] = "ok"]
        /\ phase' = "open"
        /\ UNCHANGED reader
  /\ UNCHANGED <<id, nextId, pending, inbox, stdout, childVars>>

\* The child closed the pipe. The reader ignores the error.
WriteFails(w) ==
  /\ writer = <<w>> /\ child = "exited"
  /\ Unlock
  /\ \/ /\ w = Reader
        /\ reader' = "reading"
        /\ UNCHANGED call
     \/ /\ w # Reader
        /\ call' = [call EXCEPT ![w] = IF @ = "notifying" THEN "failed" ELSE "write failed"]
        /\ UNCHANGED reader
  /\ UNCHANGED <<phase, id, nextId, pending, inbox, stdin, stdout, childVars>>

\* The one-shot has a value; the answer to initialize is followed by a notification.
\* (A sender is never dropped unused: numbers are not reused and a request keeps its
\* session alive.)
Resume(c) ==
  /\ call[c] = "waiting" /\ inbox[c] # <<>>
  /\ call' = [call EXCEPT ![c] = IF Head(inbox[c]).result = "error" THEN "failed"
                                  ELSE IF c = Opener THEN "notify" ELSE "ok"]
  /\ UNCHANGED <<phase, id, nextId, pending, inbox, lockVars, stdin, stdout, childVars, reader>>

\* Mutant: a call counts on the reader to fail it.
TimeoutIfUnread(c) ==
  /\ call[c] = "waiting" /\ inbox[c] = <<>> /\ reader = "reading"
  /\ call' = [call EXCEPT ![c] = "timed out"]
  /\ UNCHANGED <<phase, id, nextId, pending, inbox, lockVars, stdin, stdout, childVars, reader>>

Timeout(c) ==
  /\ call[c] = "waiting" /\ inbox[c] = <<>>
  /\ call' = [call EXCEPT ![c] = "timed out"]
  /\ UNCHANGED <<phase, id, nextId, pending, inbox, lockVars, stdin, stdout, childVars, reader>>

Without(i) == Restrict(pending, DOMAIN pending \ {i})

\* After a failed write or a timeout, once the map's lock is free.
Unregister(c) ==
  /\ call[c] \in {"write failed", "timed out"}
  /\ pending' = Without(id[c])
  /\ call' = [call EXCEPT ![c] = IF @ = "timed out" THEN "timeout" ELSE "failed"]
  /\ UNCHANGED <<phase, id, nextId, inbox, lockVars, stdin, stdout, childVars, reader>>

\* The caller goes away at an await (the client of a blocking chat that disconnects, the
\* outer timeout of attach_configured): the guard is released, the sender stays.
Drop(c) ==
  /\ call[c] \in {"registered", "writing", "waiting", "notify", "notifying"}
  /\ call' = [call EXCEPT ![c] = "dropped"]
  /\ IF writer = <<c>> THEN Unlock ELSE UNCHANGED lockVars
  /\ UNCHANGED <<phase, id, nextId, pending, inbox, stdin, stdout, childVars, reader>>

\* What it did not read is lost.
ChildGone == child' = "exited" /\ stdin' = <<>> /\ line' = <<>> /\ owed' = {}

\* The last handle of the session goes: spawn failed, or the manager forgot the session
\* and no request is left. The reader is aborted and the child killed.
CloseSession ==
  /\ \/ phase = "opening" /\ call[Opener] \in Failures
     \/ phase = "open" /\ \A c \in Calls : call[c] \notin InFlight
  /\ phase' = "closed"
  /\ ChildGone
  /\ reader' = "aborted"
  /\ Unlock
  /\ UNCHANGED <<call, id, nextId, pending, inbox, stdout, unasked>>

----------------------------------------------------------------------------
\* The child: it reads its input, answers what it has read, and may say more.

\* A line that is not the two halves of one request is ignored.
ChildReads ==
  /\ child = "running" /\ stdin # <<>>
  /\ stdin' = Tail(stdin)
  /\ LET half == Head(stdin)
         asked == line = <<Half(half.of, "head")>> /\ half.part = "tail" /\ half.of \in Calls
     IN  /\ line' = IF half.part = "tail" THEN <<>> ELSE Append(line, half)
         /\ owed' = IF asked THEN owed \union {half.of} ELSE owed
  /\ UNCHANGED <<callVars, lockVars, pending, inbox, stdout, unasked, child, reader>>

ChildReplies ==
  /\ child = "running" /\ Len(stdout) < OutSize
  /\ \E c \in owed, result \in {"value", "error"} :
       /\ stdout' = Append(stdout, Reply(c, result))
       /\ owed' = owed \ {c}
  /\ UNCHANGED <<callVars, lockVars, pending, inbox, stdin, line, unasked, child, reader>>

\* A request to Ira, a notification, or something that is not a message.
ChildSpeaks ==
  /\ child = "running" /\ Len(stdout) < OutSize /\ unasked < MaxUnasked
  /\ \E type \in {"ask", "note", "noise"} : stdout' = Append(stdout, Unasked(type))
  /\ unasked' = unasked + 1
  /\ UNCHANGED <<callVars, lockVars, pending, inbox, stdin, line, owed, child, reader>>

\* What it wrote can still be read.
ChildExits ==
  /\ child = "running"
  /\ ChildGone
  /\ UNCHANGED <<callVars, lockVars, pending, inbox, stdout, unasked, reader>>

----------------------------------------------------------------------------
\* The reader task.

Waiters == {c \in Calls : \E i \in DOMAIN pending : pending[i] = c}

\* fail_all: every registered sender gets an error.
FailAll ==
  /\ inbox' = [c \in Calls |-> IF c \in Waiters THEN <<Closed(c)>> ELSE inbox[c]]
  /\ pending' = [i \in {} |-> Opener]

\* The next message of stdout, when it is of this type.
Reads(type) ==
  /\ reader = "reading" /\ stdout # <<>> /\ Head(stdout).type = type
  /\ stdout' = Tail(stdout)

\* A reply whose number nobody is registered under is ignored.
Dispatch ==
  /\ Reads("reply")
  /\ LET reply == Head(stdout) IN
       /\ pending' = Without(reply.id)
       /\ inbox' = IF reply.id \in DOMAIN pending
                     THEN [inbox EXCEPT ![pending[reply.id]] = <<reply>>] ELSE inbox
  /\ UNCHANGED <<callVars, lockVars, stdin, childVars, reader>>

\* The reader itself writes that the method is not supported.
Refuse ==
  /\ Reads("ask")
  /\ reader' = "refusing"
  /\ UNCHANGED <<callVars, lockVars, pending, inbox, stdin, childVars>>

LockToRefuse ==
  /\ reader = "refusing" /\ StdinFree
  /\ writer' = <<Reader>> /\ halfway' = FALSE
  /\ reader' = "answering"
  /\ UNCHANGED <<callVars, pending, inbox, stdin, stdout, childVars>>

IgnoreNote ==
  /\ Reads("note")
  /\ UNCHANGED <<callVars, lockVars, pending, inbox, stdin, childVars, reader>>

\* fail_all with the error, and once more on the way out.
Unreadable ==
  /\ Reads("noise")
  /\ FailAll
  /\ reader' = "failing"
  /\ UNCHANGED <<callVars, lockVars, stdin, childVars>>

FailAgain ==
  /\ reader = "failing"
  /\ FailAll
  /\ reader' = "unreadable"
  /\ UNCHANGED <<callVars, lockVars, stdin, stdout, childVars>>

EndOfOutput ==
  /\ reader = "reading" /\ stdout = <<>> /\ child = "exited"
  /\ FailAll
  /\ reader' = "eof"
  /\ UNCHANGED <<callVars, lockVars, stdin, stdout, childVars>>

----------------------------------------------------------------------------
Request(c) ==
  \/ Register(c) \/ Lock(c) \/ WriteHead(c) \/ WriteTail(c) \/ WriteFails(c)
  \/ Resume(c) \/ Timeout(c) \/ Unregister(c)

Read ==
  \/ Dispatch \/ Refuse \/ LockToRefuse \/ IgnoreNote \/ Unreadable \/ FailAgain \/ EndOfOutput
  \/ WriteHead(Reader) \/ WriteTail(Reader) \/ WriteFails(Reader)

Child == ChildReads \/ ChildReplies \/ ChildSpeaks \/ ChildExits

Next == Read \/ Child \/ CloseSession \/ \E c \in Calls : Request(c) \/ Drop(c)

Spec == Init /\ [][Next]_vars

\* The runtime runs the tasks and its timers fire. The child keeps reading its input: a
\* write has no timeout of its own.
Fairness ==
  /\ \A c \in Calls :
       WF_vars(Lock(c) \/ WriteHead(c) \/ WriteTail(c) \/ WriteFails(c) \/ Resume(c)
                 \/ Timeout(c) \/ Unregister(c))
  /\ WF_vars(Read)
  /\ WF_vars(ChildReads)

FairSpec == Spec /\ Fairness

----------------------------------------------------------------------------
\* Type invariant.
TypeOK ==
  /\ phase \in {"opening", "open", "closed"}
  /\ call \in [Calls -> {"idle"} \union InFlight \union Ended]
  /\ id \in [Calls -> Nat]
  /\ nextId \in Nat \ {0}
  /\ DOMAIN pending \subseteq 1..(nextId - 1)
  /\ pending \in [DOMAIN pending -> Calls]
  /\ inbox \in [Calls -> Seq(Message)]
  /\ \A c \in Calls : Len(inbox[c]) <= 1
  /\ writer \in Seq(Calls \union {Reader}) /\ Len(writer) <= 1
  /\ halfway \in BOOLEAN
  /\ stdin \in Seq(HalfLine) /\ Len(stdin) <= PipeSize
  /\ line \in Seq(HalfLine)
  /\ owed \subseteq Calls
  /\ stdout \in Seq(Message) /\ Len(stdout) <= OutSize
  /\ unasked \in 0..MaxUnasked
  /\ child \in {"running", "exited"}
  /\ reader \in {"reading", "refusing", "answering", "failing", "unreadable", "eof", "aborted"}

\* Whatever the order of replies, timeouts and failures, a request is only ever given
\* the answer to itself.
OwnAnswer == \A c \in Calls : inbox[c] # <<>> => Head(inbox[c]).of = c

\* A request that waits and has not been answered is registered: from before its first
\* byte is written there is no moment at which its reply, or the failure of the
\* session, would find nobody.
AnswerFindsItsCall ==
  \A c \in Calls :
    call[c] \in {"registered", "writing", "waiting"} /\ inbox[c] = <<>> =>
      id[c] \in DOMAIN pending /\ pending[id[c]] = c

\* A request that returned has left no sender behind.
NothingLeftBehind ==
  \A c \in Calls : call[c] \in {"ok", "failed", "timeout"} => id[c] \notin DOMAIN pending

\* The lines the child is given: each is written whole before another begins, unless its
\* writer was dropped in the middle of it.
WholeLines ==
  LET halves == line \o stdin
      author(i) == IF halves[i].of = Notification THEN Opener ELSE halves[i].of
  IN  \A i \in DOMAIN halves :
        halves[i].part = "head" =>
          \/ i < Len(halves) /\ halves[i + 1] = Half(halves[i].of, "tail")
          \/ i = Len(halves) /\ writer = <<author(i)>> /\ halfway
          \/ author(i) \in Calls /\ call[author(i)] = "dropped"

\* A request ends, one way or another, while the child keeps reading.
EveryCallEnds == \A c \in Calls : call[c] # "idle" ~> call[c] \in Ended

=============================================================================
