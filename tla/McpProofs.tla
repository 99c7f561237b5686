----------------------------- MODULE McpProofs ------------------------------
(***************************************************************************)
(* The sessions with MCP servers, for any bounds: over pipes, over HTTP,   *)
(* and the table that keeps them.                                          *)
(***************************************************************************)
EXTENDS McpStdio, McpHttp, McpManager, TLAPS

(***************************************************************************)
(* Over pipes: the type invariant, that a request is given its own answer, *)
(* is registered as long as its answer is to come and leaves nothing       *)
(* registered, and that the lines the child reads are whole.               *)
(*                                                                         *)
(* The argument: a number belongs to one request and is registered for it  *)
(* alone, and every reply on its way bears the number of the request it    *)
(* answers. So what is found under the number of a reply is the request it *)
(* answers, and finding it takes it out of the map. The lines are whole    *)
(* because the lock of stdin is held across the two halves of a line: a    *)
(* first half is followed by its second, is the last thing the child was   *)
(* given and its writer holds the lock, or was cut off by a drop.          *)
(***************************************************************************)

States == {"idle"} \union InFlight \union Ended

\* Taking the first element and adding one at the end keep the type of a sequence.
LEMMA HeadTail ==
  ASSUME NEW S, NEW s \in Seq(S), s # <<>>
  PROVE  /\ Head(s) \in S /\ Tail(s) \in Seq(S)
         /\ Len(Tail(s)) = Len(s) - 1
         /\ \A i \in 1..Len(Tail(s)) : Tail(s)[i] = s[i + 1]
         /\ Head(s) = s[1] /\ Len(s) \in Nat \ {0}
OBVIOUS

\* Adding one at the end.
LEMMA Appended ==
  ASSUME NEW S, NEW s \in Seq(S), NEW e \in S
  PROVE  /\ Append(s, e) \in Seq(S)
         /\ Len(Append(s, e)) = Len(s) + 1
         /\ \A i \in 1..Len(s) : Append(s, e)[i] = s[i]
         /\ Append(s, e)[Len(s) + 1] = e
OBVIOUS

\* A sequence of one element.
LEMMA One ==
  ASSUME NEW S, NEW e \in S
  PROVE  <<e>> \in Seq(S) /\ Len(<<e>>) = 1 /\ <<e>> # <<>> /\ Head(<<e>>) = e
OBVIOUS

\* The empty sequence, of any type.
LEMMA EmptyIs ==
  ASSUME NEW S
  PROVE  <<>> \in Seq(S) /\ Len(<<>>) = 0
OBVIOUS

\* What a sender is given is a message.
LEMMA AnswerTypes ==
  ASSUME TypeOK, NEW c \in Calls
  PROVE  /\ Closed(c) \in Message
         /\ \A result \in {"value", "error"} : Reply(c, result) \in Message
BY DEF TypeOK, Closed, Reply, Message

\* What a holder writes is a half of a line.
LEMMA HalfTypes ==
  ASSUME TypeOK, NEW w \in Calls \union {Reader}, NEW part \in {"head", "tail"}
  PROVE  Half(LineOf(w), part) \in HalfLine
BY DEF TypeOK, Half, LineOf, HalfLine

\* Taking a number out of the map.
LEMMA WithoutIs ==
  ASSUME TypeOK, NEW i
  PROVE  /\ DOMAIN Without(i) = DOMAIN pending \ {i}
         /\ \A j \in DOMAIN pending \ {i} : Without(i)[j] = pending[j]
         /\ DOMAIN Without(i) \subseteq 1..(nextId - 1)
         /\ Without(i) \in [DOMAIN Without(i) -> Calls]
BY DEF TypeOK, Without, Restrict

\* Failing every registered request keeps the types of the inboxes and leaves no request registered.
LEMMA FailAllTypes ==
  ASSUME TypeOK, FailAll
  PROVE  /\ inbox' \in [Calls -> Seq(Message)]
         /\ \A c \in Calls : Len(inbox'[c]) <= 1
         /\ DOMAIN pending' = {}
         /\ pending' \in [DOMAIN pending' -> Calls]
<1>1. ASSUME NEW c \in Calls
      PROVE  <<Closed(c)>> \in Seq(Message) /\ Len(<<Closed(c)>>) = 1
  BY AnswerTypes, One
<1>. QED
  BY <1>1 DEF FailAll, TypeOK

\* A released lock has no holder.
LEMMA UnlockTypes ==
  ASSUME Unlock
  PROVE  writer' \in Seq(Calls \union {Reader}) /\ Len(writer') <= 1 /\ halfway' \in BOOLEAN
<1>1. writer' = <<>>
  BY DEF Unlock
<1>2. writer' \in Seq(Calls \union {Reader}) /\ Len(writer') <= 1
  BY <1>1
<1>3. halfway' \in BOOLEAN
  BY DEF Unlock
<1>. QED
  BY <1>2, <1>3

\* The initial states have their types.
LEMMA TypeInit == Init => TypeOK
<1> SUFFICES ASSUME Init
             PROVE  TypeOK
  OBVIOUS
<1>1. /\ inbox \in [Calls -> Seq(Message)]
      /\ \A c \in Calls : Len(inbox[c]) <= 1
  BY EmptyIs DEF Init
<1>2. /\ writer \in Seq(Calls \union {Reader}) /\ Len(writer) <= 1
      /\ stdin \in Seq(HalfLine) /\ Len(stdin) <= PipeSize
      /\ line \in Seq(HalfLine)
      /\ stdout \in Seq(Message) /\ Len(stdout) <= OutSize
  BY EmptyIs, McpStdioAssumption DEF Init
<1>3. DOMAIN pending \subseteq 1..(nextId - 1) /\ pending \in [DOMAIN pending -> Calls]
  BY DEF Init
<1>4. /\ call \in [Calls -> {"idle"} \union InFlight \union Ended]
      /\ id \in [Calls -> Nat]
      /\ nextId \in Nat \ {0} /\ unasked \in 0..MaxUnasked
      /\ owed \subseteq Calls
  BY McpStdioAssumption DEF Init
<1>5. /\ phase = "opening" /\ child = "running" /\ reader = "reading" /\ halfway = FALSE
  BY DEF Init
<1>. QED
  BY <1>1, <1>2, <1>3, <1>4, <1>5 DEF TypeOK

\* A request moves on.
LEMMA CallType ==
  ASSUME TypeOK, NEW c \in Calls, NEW state \in States
  PROVE  [call EXCEPT ![c] = state] \in [Calls -> States]
BY DEF TypeOK, States

\* Every action keeps the types.
LEMMA TypeStep == TypeOK /\ [Next]_vars => TypeOK'
<1> SUFFICES ASSUME TypeOK, [Next]_vars
             PROVE  TypeOK'
  OBVIOUS
<1> USE McpStdioAssumption DEF callVars, lockVars, childVars
<1>1. ASSUME NEW c \in Calls, Register(c)
      PROVE  TypeOK'
  <2>1. call' \in [Calls -> States]
    BY <1>1, CallType DEF Register, States, InFlight
  <2>2. DOMAIN pending' = DOMAIN pending \union {nextId} /\ nextId' = nextId + 1
    BY <1>1 DEF Register, AfterId
  <2>3. DOMAIN pending' \subseteq 1..(nextId' - 1)
    BY SMTT(40), <2>2 DEF TypeOK
  <2>4. pending' \in [DOMAIN pending' -> Calls]
    BY <1>1, <2>2 DEF Register, TypeOK
  <2>5. id' \in [Calls -> Nat] /\ nextId' \in Nat \ {0}
    BY SMTT(40), <1>1, <2>2 DEF Register, TypeOK
  <2>6. UNCHANGED <<phase, inbox, lockVars, stdin, stdout, childVars, reader>>
    BY <1>1 DEF Register
  <2>. QED
    BY <2>1, <2>3, <2>4, <2>5, <2>6 DEF TypeOK, States
<1>2. ASSUME NEW c \in Calls, Lock(c)
      PROVE  TypeOK'
  <2>1. writer' \in Seq(Calls \union {Reader}) /\ Len(writer') <= 1
    BY <1>2 DEF Lock
  <2>2. call' \in [Calls -> States]
    BY <1>2, CallType DEF Lock, States, InFlight
  <2>. QED
    BY <1>2, <2>1, <2>2 DEF Lock, TypeOK, States
<1>3. ASSUME NEW w \in Calls \union {Reader}, WriteHead(w)
      PROVE  TypeOK'
  <2>1. Append(stdin, Half(LineOf(w), "head")) \in Seq(HalfLine)
        /\ Len(Append(stdin, Half(LineOf(w), "head"))) = Len(stdin) + 1
    BY HalfTypes, Appended DEF TypeOK
  <2>. QED
    BY SMTT(40), <1>3, <2>1 DEF WriteHead, TypeOK
<1>4. ASSUME NEW w \in Calls \union {Reader}, WriteTail(w)
      PROVE  TypeOK'
  <2>1. Append(stdin, Half(LineOf(w), "tail")) \in Seq(HalfLine)
        /\ Len(Append(stdin, Half(LineOf(w), "tail"))) = Len(stdin) + 1
    BY HalfTypes, Appended DEF TypeOK
  <2>2. writer' \in Seq(Calls \union {Reader}) /\ Len(writer') <= 1
    BY <1>4, UnlockTypes DEF WriteTail
  <2>3. call' \in [Calls -> States]
    BY <1>4, CallType DEF WriteTail, TypeOK, States, InFlight, Ended
  <2>4. /\ phase' \in {"opening", "open", "closed"}
        /\ reader' \in {"reading", "refusing", "answering", "failing", "unreadable", "eof", "aborted"}
        /\ halfway' \in BOOLEAN /\ stdin' \in Seq(HalfLine) /\ Len(stdin') <= PipeSize
    BY <1>4, <2>1, UnlockTypes DEF WriteTail, TypeOK
  <2>. QED
    BY <1>4, <2>2, <2>3, <2>4 DEF WriteTail, TypeOK, States
<1>5. ASSUME NEW w \in Calls \union {Reader}, WriteFails(w)
      PROVE  TypeOK'
  <2>1. writer' \in Seq(Calls \union {Reader}) /\ Len(writer') <= 1
    BY <1>5, UnlockTypes DEF WriteFails
  <2>2. call' \in [Calls -> States]
    BY <1>5, CallType DEF WriteFails, TypeOK, States, InFlight, Ended, Failures
  <2>. QED
    BY <1>5, <2>1, <2>2 DEF WriteFails, Unlock, TypeOK, States
<1>6. ASSUME NEW c \in Calls, Resume(c) \/ Timeout(c)
      PROVE  TypeOK'
  <2>1. call' \in [Calls -> States]
    <3>1. PICK state \in {"failed", "notify", "ok", "timed out"} :
            call' = [call EXCEPT ![c] = state]
      BY <1>6 DEF Resume, Timeout
    <3>. QED
      BY <3>1, CallType DEF States, InFlight, Ended, Failures
  <2>. QED
    BY ZenonT(60), <1>6, <2>1 DEF Resume, Timeout, TypeOK, States
<1>7. ASSUME NEW c \in Calls, Unregister(c)
      PROVE  TypeOK'
  <2>1. /\ DOMAIN pending' \subseteq 1..(nextId' - 1)
        /\ pending' \in [DOMAIN pending' -> Calls]
    BY <1>7, WithoutIs DEF Unregister
  <2>2. call' \in [Calls -> States]
    BY <1>7, CallType DEF Unregister, States, Ended, Failures
  <2>. QED
    BY <1>7, <2>1, <2>2 DEF Unregister, TypeOK, States
<1>8. ASSUME NEW c \in Calls, Drop(c)
      PROVE  TypeOK'
  <2>1. writer' \in Seq(Calls \union {Reader}) /\ Len(writer') <= 1 /\ halfway' \in BOOLEAN
    <3>1. CASE Unlock
      BY <3>1, UnlockTypes
    <3>2. CASE UNCHANGED lockVars
      BY <3>2 DEF TypeOK
    <3>. QED
      BY <1>8, <3>1, <3>2 DEF Drop
  <2>2. call' \in [Calls -> States]
    BY <1>8, CallType DEF Drop, States, Ended, Failures
  <2>. QED
    BY <1>8, <2>1, <2>2 DEF Drop, TypeOK, States
<1>9. CASE CloseSession
  <2>1. /\ writer' \in Seq(Calls \union {Reader}) /\ Len(writer') <= 1
        /\ stdin' \in Seq(HalfLine) /\ Len(stdin') = 0
        /\ line' \in Seq(HalfLine) /\ owed' \subseteq Calls
        /\ child' = "exited" /\ halfway' \in BOOLEAN
    BY <1>9, EmptyIs, UnlockTypes DEF CloseSession, ChildGone
  <2>2. Len(stdin') <= PipeSize
    BY <2>1
  <2>. QED
    BY <1>9, <2>1, <2>2 DEF CloseSession, TypeOK
<1>10. CASE ChildReads
  <2>1. Head(stdin) \in HalfLine /\ Tail(stdin) \in Seq(HalfLine) /\ Len(Tail(stdin)) = Len(stdin) - 1
    BY <1>10, HeadTail DEF ChildReads, TypeOK
  <2>2. line' \in Seq(HalfLine)
    BY <1>10, <2>1, EmptyIs, Appended DEF ChildReads, TypeOK
  <2>3. owed' \subseteq Calls
    BY <1>10 DEF ChildReads, TypeOK
  <2>. QED
    BY SMTT(40), <1>10, <2>1, <2>2, <2>3 DEF ChildReads, TypeOK
<1>11. CASE ChildReplies
  <2>1. PICK c \in owed, result \in {"value", "error"} :
          stdout' = Append(stdout, Reply(c, result)) /\ owed' = owed \ {c}
    BY <1>11 DEF ChildReplies
  <2>2. stdout' \in Seq(Message) /\ Len(stdout') = Len(stdout) + 1
    BY <2>1, AnswerTypes, Appended DEF TypeOK
  <2>. QED
    BY SMTT(40), <1>11, <2>1, <2>2 DEF ChildReplies, TypeOK
<1>12. CASE ChildSpeaks
  <2>1. PICK type \in {"ask", "note", "noise"} : stdout' = Append(stdout, Unasked(type))
    BY <1>12 DEF ChildSpeaks
  <2>2. Unasked(type) \in Message
    BY DEF Unasked, Message
  <2>3. stdout' \in Seq(Message) /\ Len(stdout') = Len(stdout) + 1
    BY <2>1, <2>2, Appended DEF TypeOK
  <2>4. unasked' \in 0..MaxUnasked
    BY <1>12 DEF ChildSpeaks, TypeOK
  <2>5. Len(stdout') <= OutSize
    BY <1>12, <2>3, McpStdioAssumption DEF ChildSpeaks, TypeOK
  <2>6. stdout' \in Seq(Message)
    BY <2>3
  <2>7. UNCHANGED <<callVars, lockVars, pending, inbox, stdin, line, owed, child, reader>>
    BY <1>12 DEF ChildSpeaks
  <2>. QED
    BY <2>4, <2>5, <2>6, <2>7 DEF TypeOK, callVars, lockVars
<1>13. CASE ChildExits
  <2>1. stdin' \in Seq(HalfLine) /\ Len(stdin') = 0 /\ line' \in Seq(HalfLine)
    BY <1>13, EmptyIs DEF ChildExits, ChildGone
  <2>. QED
    BY <1>13, <2>1 DEF ChildExits, ChildGone, TypeOK
<1>14. ASSUME NEW type, Reads(type)
       PROVE  /\ Head(stdout) \in Message
              /\ stdout' \in Seq(Message) /\ Len(stdout') <= OutSize
  BY <1>14, HeadTail DEF Reads, TypeOK
<1>15. CASE Dispatch
  <2>1. Head(stdout) \in Message /\ stdout' \in Seq(Message) /\ Len(stdout') <= OutSize
    BY <1>14, <1>15 DEF Dispatch
  <2>2. /\ DOMAIN pending' \subseteq 1..(nextId - 1)
        /\ pending' \in [DOMAIN pending' -> Calls]
    BY <1>15, WithoutIs DEF Dispatch
  <2>3. inbox' \in [Calls -> Seq(Message)] /\ \A c \in Calls : Len(inbox'[c]) <= 1
    <3>1. <<Head(stdout)>> \in Seq(Message) /\ Len(<<Head(stdout)>>) = 1
      BY <2>1, One
    <3>2. CASE Head(stdout).id \in DOMAIN pending
      <4>1. inbox' = [inbox EXCEPT ![pending[Head(stdout).id]] = <<Head(stdout)>>]
        BY <1>15, <3>2 DEF Dispatch
      <4>2. inbox' \in [Calls -> Seq(Message)]
        BY <3>1, <4>1 DEF TypeOK
      <4>3. ASSUME NEW c \in Calls
            PROVE  inbox'[c] = <<Head(stdout)>> \/ inbox'[c] = inbox[c]
        BY <4>1 DEF TypeOK
      <4>4. ASSUME NEW c \in Calls
            PROVE  Len(inbox'[c]) <= 1
        <5>1. Len(inbox[c]) <= 1 /\ Len(<<Head(stdout)>>) = 1
          BY <3>1 DEF TypeOK
        <5>2. CASE inbox'[c] = <<Head(stdout)>>
          BY <5>1, <5>2
        <5>3. CASE inbox'[c] = inbox[c]
          BY <5>1, <5>3
        <5>. QED
          BY <4>3, <5>2, <5>3
      <4>. QED
        BY <4>2, <4>4
    <3>3. CASE Head(stdout).id \notin DOMAIN pending
      BY <1>15, <3>3 DEF Dispatch, TypeOK
    <3>. QED
      BY <3>2, <3>3
  <2>. QED
    BY <1>15, <2>1, <2>2, <2>3 DEF Dispatch, Reads, TypeOK
<1>16. CASE Refuse \/ IgnoreNote
  BY <1>14, <1>16 DEF Refuse, IgnoreNote, TypeOK
<1>17. CASE LockToRefuse
  <2>1. writer' \in Seq(Calls \union {Reader}) /\ Len(writer') <= 1
    BY <1>17 DEF LockToRefuse
  <2>. QED
    BY <1>17, <2>1 DEF LockToRefuse, TypeOK
<1>18. CASE Unreadable
  <2>1. stdout' \in Seq(Message) /\ Len(stdout') <= OutSize
    BY <1>14, <1>18 DEF Unreadable
  <2>. QED
    BY <1>18, <2>1, FailAllTypes DEF Unreadable, TypeOK
<1>19. CASE FailAgain
  BY <1>19, FailAllTypes DEF FailAgain, TypeOK
<1>20. CASE EndOfOutput
  BY <1>20, FailAllTypes DEF EndOfOutput, TypeOK
<1>21. CASE UNCHANGED vars
  BY <1>21 DEF vars, TypeOK
<1>. QED
  BY <1>1, <1>2, <1>3, <1>4, <1>5, <1>6, <1>7, <1>8, <1>9, <1>10, <1>11, <1>12, <1>13, <1>15,
     <1>16, <1>17, <1>18, <1>19, <1>20, <1>21 DEF Next, Read, Child, Request

\* The type invariant.
THEOREM TypeCorrect == Spec => []TypeOK
BY TypeInit, TypeStep, PTL DEF Spec

----------------------------------------------------------------------------
\* The inductive invariant.

\* A request takes its number when it starts, before it can hold the lock of stdin, and
\* nobody else has it.
Numbered ==
  /\ \A c \in Calls : call[c] = "idle" <=> id[c] = 0
  /\ \A c \in Calls : id[c] < nextId
  /\ \A c, d \in Calls : id[c] = id[d] /\ id[c] # 0 => c = d
  /\ \A c \in Calls : writer = <<c>> => id[c] # 0

\* A number is registered for the request that took it.
PendingIsOwn == \A i \in DOMAIN pending : id[pending[i]] = i

Started(half) == half.of \in Calls => id[half.of] # 0

IsOwnReply(m) == m.type = "reply" => m.of \in Calls /\ m.id = id[m.of] /\ m.id # 0

\* What is on its way between the session and the child is about requests that have
\* started, and a reply bears the number of the request it answers.
Traceable ==
  /\ \A i \in 1..Len(stdin) : Started(stdin[i])
  /\ \A i \in 1..Len(line) : Started(line[i])
  /\ \A c \in owed : id[c] # 0
  /\ \A i \in 1..Len(stdout) : IsOwnReply(stdout[i])

\* An answered request is no longer registered; a session that announces that it is
\* initialized was answered.
Answered ==
  /\ \A c \in Calls : inbox[c] # <<>> => id[c] # 0 /\ id[c] \notin DOMAIN pending
  /\ \A c \in Calls : call[c] \in {"notify", "notifying"} => inbox[c] # <<>>

Origins == Numbered /\ PendingIsOwn /\ Traceable

IInv == TypeOK /\ Origins /\ OwnAnswer /\ Answered /\ AnswerFindsItsCall /\ NothingLeftBehind

\* The inductive invariant holds initially.
LEMMA IInit == Init => IInv
<1> SUFFICES ASSUME Init
             PROVE  IInv
  OBVIOUS
<1>1. TypeOK
  BY TypeInit
<1>2. Numbered /\ PendingIsOwn
  BY DEF Init, Numbered, PendingIsOwn
<1>3. Traceable
  BY DEF Init, Traceable
<1>4. OwnAnswer /\ Answered /\ AnswerFindsItsCall /\ NothingLeftBehind
  BY DEF Init, OwnAnswer, Answered, AnswerFindsItsCall, NothingLeftBehind
<1>. QED
  BY <1>1, <1>2, <1>3, <1>4 DEF IInv, Origins

\* Only Register gives numbers, and no request returns to its beginning.
LEMMA NumbersStay ==
  ASSUME TypeOK, Numbered, [Next]_vars, \A c \in Calls : ~Register(c)
  PROVE  /\ id' = id /\ nextId' = nextId
         /\ \A c \in Calls : call'[c] = "idle" <=> call[c] = "idle"
<1> USE McpStdioAssumption DEF callVars, lockVars, childVars, TypeOK
<1>1. ASSUME NEW c \in Calls, Request(c) \/ Drop(c)
      PROVE  /\ id' = id /\ nextId' = nextId
             /\ \A d \in Calls : call'[d] = "idle" <=> call[d] = "idle"
  <2>1. CASE Lock(c)
    BY <2>1 DEF Lock
  <2>2. CASE WriteHead(c)
    BY <2>2 DEF WriteHead
  <2>3. CASE WriteTail(c)
    BY <2>3 DEF WriteTail
  <2>4. CASE WriteFails(c)
    BY <2>4 DEF WriteFails, Numbered
  <2>5. CASE Resume(c)
    BY <2>5 DEF Resume
  <2>6. CASE Timeout(c)
    BY <2>6 DEF Timeout
  <2>7. CASE Unregister(c)
    BY <2>7 DEF Unregister
  <2>8. CASE Drop(c)
    BY <2>8 DEF Drop
  <2>. QED
    BY <1>1, <2>1, <2>2, <2>3, <2>4, <2>5, <2>6, <2>7, <2>8 DEF Request
<1>2. CASE Read
  BY <1>2 DEF Read, Dispatch, Refuse, LockToRefuse, IgnoreNote, Unreadable, FailAgain, EndOfOutput,
              WriteHead, WriteTail, WriteFails
<1>3. CASE Child
  BY <1>3 DEF Child, ChildReads, ChildReplies, ChildSpeaks, ChildExits
<1>4. CASE CloseSession
  BY <1>4 DEF CloseSession
<1>5. CASE UNCHANGED vars
  BY <1>5 DEF vars
<1>. QED
  BY <1>1, <1>2, <1>3, <1>4, <1>5 DEF Next

\* Only Register adds to the map.
LEMMA PendingShrinks ==
  ASSUME TypeOK, [Next]_vars, \A c \in Calls : ~Register(c)
  PROVE  /\ DOMAIN pending' \subseteq DOMAIN pending
         /\ \A i \in DOMAIN pending' : pending'[i] = pending[i]
<1> USE DEF callVars, lockVars, childVars
<1>1. ASSUME NEW c \in Calls, Unregister(c)
      PROVE  /\ DOMAIN pending' \subseteq DOMAIN pending
             /\ \A i \in DOMAIN pending' : pending'[i] = pending[i]
  BY <1>1, WithoutIs DEF Unregister
<1>2. ASSUME NEW w \in Calls \union {Reader}, WriteHead(w) \/ WriteTail(w) \/ WriteFails(w)
      PROVE  pending' = pending
  BY <1>2 DEF WriteHead, WriteTail, WriteFails
<1>3. ASSUME NEW c \in Calls, Lock(c) \/ Resume(c) \/ Timeout(c) \/ Drop(c)
      PROVE  pending' = pending
  BY <1>3 DEF Lock, Resume, Timeout, Drop
<1>4. CASE Dispatch
  BY <1>4, WithoutIs DEF Dispatch
<1>5. CASE Unreadable \/ FailAgain \/ EndOfOutput
  BY <1>5 DEF Unreadable, FailAgain, EndOfOutput, FailAll
<1>6. CASE Refuse \/ LockToRefuse \/ IgnoreNote \/ Child \/ CloseSession \/ UNCHANGED vars
  BY <1>6 DEF Refuse, LockToRefuse, IgnoreNote, Child, ChildReads, ChildReplies, ChildSpeaks,
              ChildExits, CloseSession, vars
<1>. QED
  BY <1>1, <1>2, <1>3, <1>4, <1>5, <1>6 DEF Next, Read, Request

\* The lock is taken by requests that have a number.
LEMMA WriterStep ==
  ASSUME TypeOK, Numbered, [Next]_vars, \A c \in Calls : ~Register(c), NEW c \in Calls,
         writer' = <<c>>
  PROVE  id[c] # 0
<1> USE McpStdioAssumption DEF callVars, lockVars, childVars
<1>1. CASE writer' = writer
  BY <1>1 DEF Numbered
<1>2. CASE writer' = <<>>
  BY <1>2
<1>3. ASSUME NEW d \in Calls, Lock(d)
      PROVE  id[c] # 0
  BY <1>3 DEF Lock, Numbered
<1>4. CASE LockToRefuse
  BY <1>4 DEF LockToRefuse
<1>5. ASSUME NEW w \in Calls \union {Reader}, WriteHead(w) \/ WriteTail(w) \/ WriteFails(w)
      PROVE  writer' = writer \/ writer' = <<>>
  BY <1>5 DEF WriteHead, WriteTail, WriteFails, Unlock
<1>6. ASSUME NEW d \in Calls, Resume(d) \/ Timeout(d) \/ Unregister(d) \/ Drop(d)
      PROVE  writer' = writer \/ writer' = <<>>
  BY <1>6 DEF Resume, Timeout, Unregister, Drop, Unlock
<1>7. CASE Dispatch \/ Refuse \/ IgnoreNote \/ Unreadable \/ FailAgain \/ EndOfOutput
  BY <1>1, <1>7 DEF Dispatch, Refuse, IgnoreNote, Unreadable, FailAgain, EndOfOutput
<1>8. CASE Child \/ CloseSession \/ UNCHANGED vars
  BY <1>1, <1>2, <1>8 DEF Child, ChildReads, ChildReplies, ChildSpeaks, ChildExits, CloseSession,
                          Unlock, vars
<1>. QED
  BY <1>1, <1>2, <1>3, <1>4, <1>5, <1>6, <1>7, <1>8 DEF Next, Read, Request

\* No step gives a number twice.
LEMMA NumberedStep == TypeOK /\ Numbered /\ [Next]_vars => Numbered'
<1> SUFFICES ASSUME TypeOK, Numbered, [Next]_vars
             PROVE  Numbered'
  OBVIOUS
<1>1. ASSUME NEW c \in Calls, Register(c)
      PROVE  Numbered'
  <2>1. /\ call' = [call EXCEPT ![c] = "registered"]
        /\ id' = [id EXCEPT ![c] = nextId] /\ nextId' = nextId + 1
    BY <1>1 DEF Register, AfterId
  <2>2. writer' = writer
    BY <1>1 DEF Register, lockVars
  <2>. QED
    BY <2>1, <2>2 DEF Numbered, TypeOK
<1>2. CASE \A c \in Calls : ~Register(c)
  <2>1. \A c \in Calls : writer' = <<c>> => id[c] # 0
    BY <1>2, WriterStep
  <2>. QED
    BY <1>2, <2>1, NumbersStay DEF Numbered
<1>. QED
  BY <1>1, <1>2

\* No step registers a number for a request it is not of.
LEMMA PendingIsOwnStep == TypeOK /\ Numbered /\ PendingIsOwn /\ [Next]_vars => PendingIsOwn'
<1> SUFFICES ASSUME TypeOK, Numbered, PendingIsOwn, [Next]_vars
             PROVE  PendingIsOwn'
  OBVIOUS
<1>1. ASSUME NEW c \in Calls, Register(c)
      PROVE  PendingIsOwn'
  <2>1. /\ call[c] = "idle" /\ id' = [id EXCEPT ![c] = nextId]
        /\ DOMAIN pending' = DOMAIN pending \union {nextId}
        /\ \A i \in DOMAIN pending' : pending'[i] = IF i = nextId THEN c ELSE pending[i]
    BY <1>1 DEF Register
  <2>2. ASSUME NEW i \in DOMAIN pending
        PROVE  pending[i] \in Calls /\ i # 0 /\ id[pending[i]] = i /\ i # nextId
    BY DEF PendingIsOwn, TypeOK
  <2>3. id[c] = 0
    BY <2>1 DEF Numbered
  <2>. QED
    BY <2>1, <2>2, <2>3 DEF PendingIsOwn, TypeOK
<1>2. CASE \A c \in Calls : ~Register(c)
  BY <1>2, NumbersStay, PendingShrinks DEF PendingIsOwn
<1>. QED
  BY <1>1, <1>2

\* A number, once taken, stays.
LEMMA NumberKept ==
  ASSUME TypeOK, Numbered, [Next]_vars, NEW c \in Calls, id[c] # 0
  PROVE  id'[c] = id[c]
<1>1. ASSUME NEW d \in Calls, Register(d)
      PROVE  id'[c] = id[c]
  BY <1>1 DEF Register, Numbered, TypeOK
<1>2. CASE \A d \in Calls : ~Register(d)
  BY <1>2, NumbersStay
<1>. QED
  BY <1>1, <1>2

\* No step sends a reply whose number is of another request.
LEMMA TraceableStep == TypeOK /\ Numbered /\ Traceable /\ [Next]_vars => Traceable'
<1> SUFFICES ASSUME TypeOK, Numbered, Traceable, [Next]_vars
             PROVE  Traceable'
  OBVIOUS
<1> USE McpStdioAssumption DEF callVars, lockVars, childVars
<1>1. ASSUME NEW h \in HalfLine, Started(h)
      PROVE  h.of \in Calls => id'[h.of] # 0
  BY <1>1, NumberKept DEF Started
<1>2. ASSUME NEW m \in Message, IsOwnReply(m)
      PROVE  m.type = "reply" => m.of \in Calls /\ m.id = id'[m.of] /\ m.id # 0
  BY <1>2, NumberKept DEF IsOwnReply
\* The halves of lines.
<1>3. ASSUME NEW w \in Calls \union {Reader}, NEW part \in {"head", "tail"}, writer = <<w>>
      PROVE  Half(LineOf(w), part) \in HalfLine /\ Started(Half(LineOf(w), part))
  BY <1>3, HalfTypes DEF Half, LineOf, Started, Numbered
<1>4. /\ \A i \in 1..Len(stdin') : stdin'[i] \in HalfLine /\ Started(stdin'[i])
      /\ \A i \in 1..Len(line') : line'[i] \in HalfLine /\ Started(line'[i])
  <2>1. /\ \A i \in 1..Len(stdin) : stdin[i] \in HalfLine /\ Started(stdin[i])
        /\ \A i \in 1..Len(line) : line[i] \in HalfLine /\ Started(line[i])
    BY DEF Traceable, TypeOK
  <2>2. ASSUME NEW w \in Calls \union {Reader}, WriteHead(w) \/ WriteTail(w)
        PROVE  \A i \in 1..Len(stdin') : stdin'[i] \in HalfLine /\ Started(stdin'[i])
    <3>1. PICK part \in {"head", "tail"} :
            writer = <<w>> /\ stdin' = Append(stdin, Half(LineOf(w), part))
      BY <2>2 DEF WriteHead, WriteTail
    <3>2. Half(LineOf(w), part) \in HalfLine /\ Started(Half(LineOf(w), part))
      BY <1>3, <3>1
    <3>. QED
      BY <2>1, <3>1, <3>2, Appended DEF TypeOK
  <2>3. ASSUME NEW w \in Calls \union {Reader}, WriteHead(w) \/ WriteTail(w)
        PROVE  line' = line
    BY <2>3 DEF WriteHead, WriteTail
  <2>4. CASE ChildReads
    <3>1. /\ stdin # <<>> /\ stdin' = Tail(stdin)
          /\ line' = <<>> \/ line' = Append(line, Head(stdin))
      BY <2>4 DEF ChildReads
    <3>2. Head(stdin) \in HalfLine /\ Started(Head(stdin))
      BY <2>1, <3>1, HeadTail DEF TypeOK
    <3>3. \A i \in 1..Len(stdin') : stdin'[i] \in HalfLine /\ Started(stdin'[i])
      <4>1. ASSUME NEW i \in 1..Len(stdin')
            PROVE  stdin'[i] = stdin[i + 1] /\ i + 1 \in 1..Len(stdin)
        BY SMTT(40), <3>1, HeadTail DEF TypeOK
      <4>. QED
        BY <2>1, <4>1
    <3>4. CASE line' = <<>>
      BY <3>3, <3>4
    <3>5. CASE line' = Append(line, Head(stdin))
      BY <2>1, <3>2, <3>3, <3>5, Appended DEF TypeOK
    <3>. QED
      BY <3>1, <3>4, <3>5
  <2>5. CASE ChildExits \/ CloseSession
    BY <2>5 DEF ChildExits, CloseSession, ChildGone
  <2>6. CASE stdin' = stdin /\ line' = line
    BY <2>1, <2>6
  <2>7. ASSUME NEW c \in Calls, Register(c) \/ Lock(c) \/ WriteFails(c) \/ Resume(c) \/ Timeout(c)
                                \/ Unregister(c) \/ Drop(c)
        PROVE  stdin' = stdin /\ line' = line
    BY <2>7 DEF Register, Lock, WriteFails, Resume, Timeout, Unregister, Drop
  <2>8. ASSUME \/ Dispatch \/ Refuse \/ LockToRefuse \/ IgnoreNote \/ Unreadable \/ FailAgain
               \/ EndOfOutput \/ WriteFails(Reader) \/ ChildReplies \/ ChildSpeaks
               \/ UNCHANGED vars
        PROVE  stdin' = stdin /\ line' = line
    BY <2>8 DEF Dispatch, Refuse, LockToRefuse, IgnoreNote, Unreadable, FailAgain, EndOfOutput,
                WriteFails, ChildReplies, ChildSpeaks, vars
  <2>. QED
    BY <2>1, <2>2, <2>3, <2>4, <2>5, <2>6, <2>7, <2>8 DEF Next, Read, Child, Request
\* What the child has read.
<1>5. \A c \in owed' : id[c] # 0
  <2>1. CASE ChildReads
    <3>1. stdin # <<>> /\ (owed' = owed \/ (Head(stdin).of \in Calls /\ owed' = owed \union {Head(stdin).of}))
      BY <2>1 DEF ChildReads
    <3>2. Started(Head(stdin))
      BY <3>1, HeadTail DEF TypeOK, Traceable
    <3>. QED
      BY <3>1, <3>2 DEF Started, Traceable
  <2>2. CASE owed' \subseteq owed
    BY <2>2 DEF Traceable
  <2>3. ASSUME NEW c \in Calls, Request(c) \/ Drop(c)
        PROVE  owed' = owed
    BY <2>3 DEF Request, Register, Lock, WriteHead, WriteTail, WriteFails, Resume, Timeout,
                Unregister, Drop
  <2>4. CASE Read \/ UNCHANGED vars
    BY <2>2, <2>4 DEF Read, Dispatch, Refuse, LockToRefuse, IgnoreNote, Unreadable, FailAgain,
                      EndOfOutput, WriteHead, WriteTail, WriteFails, vars
  <2>5. CASE ChildReplies \/ ChildSpeaks \/ ChildExits \/ CloseSession
    BY <2>2, <2>5 DEF ChildReplies, ChildSpeaks, ChildExits, CloseSession, ChildGone
  <2>. QED
    BY <2>1, <2>2, <2>3, <2>4, <2>5 DEF Next, Child
\* The child's messages.
<1>6. \A i \in 1..Len(stdout') : stdout'[i] \in Message /\ IsOwnReply(stdout'[i])
  <2>1. \A i \in 1..Len(stdout) : stdout[i] \in Message /\ IsOwnReply(stdout[i])
    BY DEF Traceable, TypeOK
  <2>2. CASE ChildReplies
    <3>1. PICK c \in owed, result \in {"value", "error"} : stdout' = Append(stdout, Reply(c, result))
      BY <2>2 DEF ChildReplies
    <3>2. Reply(c, result) \in Message /\ IsOwnReply(Reply(c, result))
      BY AnswerTypes DEF Reply, IsOwnReply, Traceable, TypeOK
    <3>. QED
      BY <2>1, <3>1, <3>2, Appended DEF TypeOK
  <2>3. CASE ChildSpeaks
    <3>1. PICK type \in {"ask", "note", "noise"} : stdout' = Append(stdout, Unasked(type))
      BY <2>3 DEF ChildSpeaks
    <3>2. Unasked(type) \in Message /\ IsOwnReply(Unasked(type))
      BY DEF Unasked, Message, IsOwnReply
    <3>. QED
      BY <2>1, <3>1, <3>2, Appended DEF TypeOK
  <2>4. ASSUME NEW type, Reads(type)
        PROVE  \A i \in 1..Len(stdout') : stdout'[i] \in Message /\ IsOwnReply(stdout'[i])
    <3>1. ASSUME NEW i \in 1..Len(stdout')
          PROVE  stdout'[i] = stdout[i + 1] /\ i + 1 \in 1..Len(stdout)
      BY SMTT(40), <2>4, HeadTail DEF Reads, TypeOK
    <3>. QED
      BY <2>1, <3>1
  <2>5. CASE Dispatch \/ Refuse \/ IgnoreNote \/ Unreadable
    BY <2>4, <2>5 DEF Dispatch, Refuse, IgnoreNote, Unreadable
  <2>6. CASE stdout' = stdout
    BY <2>1, <2>6
  <2>7. ASSUME NEW c \in Calls, Request(c) \/ Drop(c)
        PROVE  stdout' = stdout
    BY <2>7 DEF Request, Register, Lock, WriteHead, WriteTail, WriteFails, Resume, Timeout,
                Unregister, Drop
  <2>8. ASSUME \/ LockToRefuse \/ FailAgain \/ EndOfOutput \/ WriteHead(Reader) \/ WriteTail(Reader)
               \/ WriteFails(Reader) \/ ChildReads \/ ChildExits \/ CloseSession \/ UNCHANGED vars
        PROVE  stdout' = stdout
    BY <2>8 DEF LockToRefuse, FailAgain, EndOfOutput, WriteHead, WriteTail, WriteFails, ChildReads,
                ChildExits, CloseSession, vars
  <2>. QED
    BY <2>2, <2>3, <2>5, <2>6, <2>7, <2>8 DEF Next, Read, Child
<1>7. \A c \in owed' : c \in Calls
  BY TypeStep DEF TypeOK
<1>8. \A c \in owed' : id'[c] # 0
  BY <1>5, <1>7, NumberKept
<1>9. /\ \A i \in 1..Len(stdin') : stdin'[i].of \in Calls => id'[stdin'[i].of] # 0
      /\ \A i \in 1..Len(line') : line'[i].of \in Calls => id'[line'[i].of] # 0
  BY <1>1, <1>4
<1>10. \A i \in 1..Len(stdout') :
         stdout'[i].type = "reply" =>
           stdout'[i].of \in Calls /\ stdout'[i].id = id'[stdout'[i].of] /\ stdout'[i].id # 0
  BY <1>2, <1>6
<1>. QED
  BY <1>8, <1>9, <1>10 DEF Traceable, Started, IsOwnReply

\* What each request knows of its answer.
Answers == OwnAnswer /\ Answered /\ AnswerFindsItsCall /\ NothingLeftBehind

\* Failing every registered sender.
LEMMA FailAllAnswers ==
  ASSUME TypeOK, Origins, Answers, FailAll, UNCHANGED <<call, id>>
  PROVE  Answers'
<1>1. ASSUME NEW c \in Calls, inbox'[c] # <<>>
      PROVE  Head(inbox'[c]).of = c /\ id[c] # 0
  <2>1. CASE c \in Waiters
    <3>1. inbox'[c] = <<Closed(c)>>
      BY <2>1 DEF FailAll
    <3>2. Head(inbox'[c]).of = c
      BY <3>1 DEF Closed
    <3>3. id[c] # 0
      BY <2>1 DEF Waiters, Origins, PendingIsOwn, TypeOK
    <3>. QED
      BY <3>2, <3>3
  <2>2. CASE c \notin Waiters
    BY <1>1, <2>2 DEF FailAll, Answers, OwnAnswer, Answered
  <2>. QED
    BY <2>1, <2>2
<1>2. DOMAIN pending' = {}
  BY DEF FailAll
<1>3. ASSUME NEW c \in Calls, inbox[c] # <<>> \/ c \in Waiters
      PROVE  inbox'[c] # <<>>
  BY <1>3 DEF FailAll
<1>4. AnswerFindsItsCall'
  BY <1>3 DEF AnswerFindsItsCall, Answers, Waiters
<1>5. Answered'
  BY <1>1, <1>2, <1>3 DEF Answered, Answers
<1>6. OwnAnswer' /\ NothingLeftBehind'
  BY <1>1, <1>2 DEF OwnAnswer, NothingLeftBehind
<1>. QED
  BY <1>4, <1>5, <1>6 DEF Answers

\* A step of one request that leaves the map and the answers alone: it must not claim to
\* have returned while it is registered, nor to wait when it is not.
LEMMA MoveAnswers ==
  ASSUME TypeOK, Answers, NEW c \in Calls, NEW state,
         call' = [call EXCEPT ![c] = state], UNCHANGED <<id, pending, inbox>>,
         state \in {"registered", "writing", "waiting"} =>
           call[c] \in {"registered", "writing", "waiting"},
         state \in {"notify", "notifying"} => inbox[c] # <<>>,
         state \in {"ok", "failed", "timeout"} => id[c] \notin DOMAIN pending
  PROVE  Answers'
<1>1. OwnAnswer'
  BY DEF Answers, OwnAnswer
<1>2. Answered'
  BY DEF Answers, Answered, TypeOK
<1>3. AnswerFindsItsCall'
  BY DEF Answers, AnswerFindsItsCall, TypeOK
<1>4. NothingLeftBehind'
  BY DEF Answers, NothingLeftBehind, TypeOK
<1>. QED
  BY <1>1, <1>2, <1>3, <1>4 DEF Answers

\* No step loses an answer, leaves a sender behind or gives a request the answer of another.
LEMMA AnswersStep == TypeOK /\ Origins /\ Answers /\ [Next]_vars => Answers'
<1> SUFFICES ASSUME TypeOK, Origins, Answers, [Next]_vars
             PROVE  Answers'
  OBVIOUS
<1> USE McpStdioAssumption DEF callVars, lockVars, childVars
<1>0. ASSUME UNCHANGED <<call, id, pending, inbox>>
      PROVE  Answers'
  BY <1>0 DEF Answers, OwnAnswer, Answered, AnswerFindsItsCall, NothingLeftBehind
<1>1. ASSUME NEW c \in Calls, Register(c)
      PROVE  Answers'
  <2>1. /\ call[c] = "idle" /\ call' = [call EXCEPT ![c] = "registered"]
        /\ id' = [id EXCEPT ![c] = nextId]
        /\ DOMAIN pending' = DOMAIN pending \union {nextId}
        /\ \A i \in DOMAIN pending' : pending'[i] = IF i = nextId THEN c ELSE pending[i]
        /\ inbox' = inbox
    BY <1>1 DEF Register
  <2>2. \A d \in Calls : id[d] # nextId
    BY DEF Origins, Numbered, TypeOK
  <2>3. id[c] = 0 /\ inbox[c] = <<>> /\ nextId # 0
    BY <2>1 DEF Origins, Numbered, Answers, Answered, TypeOK
  <2>4. OwnAnswer'
    BY <2>1 DEF Answers, OwnAnswer
  <2>5. Answered'
    BY <2>1, <2>2, <2>3 DEF Answers, Answered, TypeOK
  <2>6. AnswerFindsItsCall'
    BY <2>1, <2>2, <2>3 DEF Answers, AnswerFindsItsCall, TypeOK
  <2>7. NothingLeftBehind'
    BY <2>1, <2>2, <2>3 DEF Answers, NothingLeftBehind, TypeOK
  <2>. QED
    BY <2>4, <2>5, <2>6, <2>7 DEF Answers
<1>2. ASSUME NEW c \in Calls, Lock(c)
      PROVE  Answers'
  <2>1. CASE call[c] = "notify"
    <3>1. inbox[c] # <<>>
      BY <2>1 DEF Answers, Answered
    <3>. QED
      BY <1>2, <2>1, <3>1, MoveAnswers DEF Lock, TypeOK
  <2>2. CASE call[c] = "registered"
    BY <1>2, <2>2, MoveAnswers DEF Lock, TypeOK
  <2>. QED
    BY <1>2, <2>1, <2>2 DEF Lock
<1>3. ASSUME NEW w \in Calls \union {Reader}, WriteHead(w)
      PROVE  Answers'
  BY <1>0, <1>3 DEF WriteHead
<1>4. ASSUME NEW w \in Calls \union {Reader}, WriteTail(w)
      PROVE  Answers'
  <2>1. CASE w = Reader
    BY <1>0, <1>4, <2>1 DEF WriteTail
  <2>2. CASE w # Reader /\ call[w] = "writing"
    BY <1>4, <2>2, MoveAnswers DEF WriteTail
  <2>3. CASE w # Reader /\ call[w] = "notifying"
    <3>1. id[w] \notin DOMAIN pending
      BY <2>3 DEF Answers, Answered
    <3>. QED
      BY <1>4, <2>3, <3>1, MoveAnswers DEF WriteTail
  <2>. QED
    BY <1>4, <2>1, <2>2, <2>3 DEF WriteTail
<1>5. ASSUME NEW w \in Calls \union {Reader}, WriteFails(w)
      PROVE  Answers'
  <2>1. CASE w = Reader
    BY <1>0, <1>5, <2>1 DEF WriteFails
  <2>2. CASE w # Reader /\ call[w] = "notifying"
    <3>1. id[w] \notin DOMAIN pending
      BY <2>2 DEF Answers, Answered
    <3>2. call' = [call EXCEPT ![w] = "failed"] /\ UNCHANGED <<id, pending, inbox>>
      BY <1>5, <2>2 DEF WriteFails, TypeOK
    <3>. QED
      BY <2>2, <3>1, <3>2, MoveAnswers
  <2>3. CASE w # Reader /\ call[w] # "notifying"
    <3>1. call' = [call EXCEPT ![w] = "write failed"] /\ UNCHANGED <<id, pending, inbox>>
      BY <1>5, <2>3 DEF WriteFails, TypeOK
    <3>. QED
      BY <2>3, <3>1, MoveAnswers
  <2>. QED
    BY <2>1, <2>2, <2>3
<1>6. ASSUME NEW c \in Calls, Resume(c)
      PROVE  Answers'
  <2>1. inbox[c] # <<>> /\ id[c] \notin DOMAIN pending
    BY <1>6 DEF Resume, Answers, Answered
  <2>2. PICK state \in {"failed", "notify", "ok"} :
          call' = [call EXCEPT ![c] = state] /\ UNCHANGED <<id, pending, inbox>>
    BY <1>6 DEF Resume
  <2>. QED
    BY <2>1, <2>2, MoveAnswers
<1>7. ASSUME NEW c \in Calls, Timeout(c)
      PROVE  Answers'
  BY <1>7, MoveAnswers DEF Timeout
<1>8. ASSUME NEW c \in Calls, Unregister(c)
      PROVE  Answers'
  <2>1. PICK state \in {"timeout", "failed"} :
          /\ call[c] \in {"write failed", "timed out"}
          /\ call' = [call EXCEPT ![c] = state]
          /\ pending' = Without(id[c]) /\ UNCHANGED <<id, inbox>>
    BY <1>8 DEF Unregister
  <2>2. /\ DOMAIN pending' = DOMAIN pending \ {id[c]}
        /\ \A i \in DOMAIN pending' : pending'[i] = pending[i]
    BY <2>1, WithoutIs
  <2>3. ASSUME NEW d \in Calls, d # c, id[d] \in DOMAIN pending
        PROVE  id[d] \in DOMAIN pending'
    BY <2>2, <2>3 DEF Origins, Numbered, TypeOK
  <2>4. OwnAnswer'
    BY <2>1 DEF Answers, OwnAnswer
  <2>5. Answered'
    BY <2>1, <2>2 DEF Answers, Answered, TypeOK
  <2>6. AnswerFindsItsCall'
    BY <2>1, <2>2, <2>3 DEF Answers, AnswerFindsItsCall, TypeOK
  <2>7. NothingLeftBehind'
    BY <2>1, <2>2 DEF Answers, NothingLeftBehind, TypeOK
  <2>. QED
    BY <2>4, <2>5, <2>6, <2>7 DEF Answers
<1>9. ASSUME NEW c \in Calls, Drop(c)
      PROVE  Answers'
  BY <1>9, MoveAnswers DEF Drop
<1>10. CASE Dispatch
  <2> DEFINE reply == Head(stdout)
             answered == pending[reply.id]
  <2>1. /\ reply.type = "reply" /\ stdout # <<>>
        /\ pending' = Without(reply.id) /\ UNCHANGED <<call, id>>
    BY <1>10 DEF Dispatch, Reads
  <2>2. /\ DOMAIN pending' = DOMAIN pending \ {reply.id}
        /\ \A i \in DOMAIN pending' : pending'[i] = pending[i]
    BY <2>1, WithoutIs
  <2>3. IsOwnReply(reply)
    BY <2>1, HeadTail DEF Origins, Traceable, TypeOK
  <2>4. CASE reply.id \notin DOMAIN pending
    <3>1. inbox' = inbox
      BY <1>10, <2>4 DEF Dispatch
    <3>2. DOMAIN pending' = DOMAIN pending
      BY <2>2, <2>4
    <3>. QED
      BY <2>1, <2>2, <3>1, <3>2 DEF Answers, OwnAnswer, Answered, AnswerFindsItsCall,
                                    NothingLeftBehind
  <2>5. CASE reply.id \in DOMAIN pending
    <3>1. answered \in Calls /\ id[answered] = reply.id
      BY <2>5 DEF Origins, PendingIsOwn, TypeOK
    <3>2. answered = reply.of /\ reply.id # 0
      BY <2>1, <2>3, <3>1 DEF IsOwnReply, Origins, Numbered
    <3>3. inbox' = [inbox EXCEPT ![answered] = <<reply>>]
      BY <1>10, <2>5 DEF Dispatch
    <3>4. ASSUME NEW c \in Calls
          PROVE  /\ c = answered => inbox'[c] = <<reply>> /\ inbox'[c] # <<>>
                 /\ c # answered => inbox'[c] = inbox[c] /\ id[c] # reply.id
      BY <3>1, <3>2, <3>3 DEF Origins, Numbered, TypeOK
    <3>5. OwnAnswer'
      <4>1. ASSUME NEW c \in Calls, inbox'[c] # <<>>
            PROVE  Head(inbox'[c]).of = c
        <5>1. CASE c = answered
          BY <3>2, <3>4, <5>1
        <5>2. CASE c # answered
          BY <3>4, <4>1, <5>2 DEF Answers, OwnAnswer
        <5>. QED
          BY <5>1, <5>2
      <4>. QED
        BY <4>1 DEF OwnAnswer
    <3>6. Answered'
      BY <2>1, <2>2, <3>1, <3>2, <3>4 DEF Answers, Answered
    <3>7. AnswerFindsItsCall'
      BY <2>1, <2>2, <3>4 DEF Answers, AnswerFindsItsCall
    <3>8. NothingLeftBehind'
      BY <2>1, <2>2 DEF Answers, NothingLeftBehind
    <3>. QED
      BY <3>5, <3>6, <3>7, <3>8 DEF Answers
  <2>. QED
    BY <2>4, <2>5
<1>11. CASE Unreadable \/ FailAgain \/ EndOfOutput
  BY <1>11, FailAllAnswers DEF Unreadable, FailAgain, EndOfOutput
<1>12. CASE Refuse \/ LockToRefuse \/ IgnoreNote \/ UNCHANGED vars
  BY <1>0, <1>12 DEF Refuse, LockToRefuse, IgnoreNote, vars
<1>13. CASE Child \/ CloseSession
  BY <1>0, <1>13 DEF Child, ChildReads, ChildReplies, ChildSpeaks, ChildExits, CloseSession
<1>. QED
  BY <1>1, <1>2, <1>3, <1>4, <1>5, <1>6, <1>7, <1>8, <1>9, <1>10, <1>11, <1>12, <1>13
     DEF Next, Read, Request

\* Every step keeps the inductive invariant.
LEMMA INext == IInv /\ [Next]_vars => IInv'
<1> SUFFICES ASSUME IInv, [Next]_vars
             PROVE  IInv'
  OBVIOUS
<1>1. TypeOK' /\ Numbered' /\ PendingIsOwn' /\ Traceable'
  BY TypeStep, NumberedStep, PendingIsOwnStep, TraceableStep DEF IInv, Origins
<1>2. Answers'
  BY AnswersStep DEF IInv, Answers
<1>. QED
  BY <1>1, <1>2 DEF IInv, Origins, Answers

\* Whatever the order of replies, timeouts and failures, and however many requests share
\* the session: a request is only ever given the answer to itself.
THEOREM AnswersAreOwn == Spec => []OwnAnswer
<1>1. IInv => OwnAnswer
  BY DEF IInv
<1>. QED
  BY <1>1, IInit, INext, PTL DEF Spec

\* A request that waits unanswered is registered, and one that returned is not: an answer
\* always finds the request that waits for it, and nothing is left behind.
THEOREM RegisteredWhileWaiting == Spec => [](AnswerFindsItsCall /\ NothingLeftBehind)
<1>1. IInv => AnswerFindsItsCall /\ NothingLeftBehind
  BY DEF IInv
<1>. QED
  BY <1>1, IInit, INext, PTL DEF Spec

----------------------------------------------------------------------------
\* The lines of stdin: what the child has read of the line it is in, and what is still in the pipe.

\* Who holds the lock is about to write, only the opener notifies, and a child that is gone
\* has read all it ever will.
Holding ==
  /\ \A c \in Calls : writer = <<c>> => call[c] \in {"writing", "notifying"}
  /\ \A c \in Calls : call[c] \in {"notify", "notifying"} => c = Opener
  /\ child = "exited" => line = <<>> /\ stdin = <<>>

\* What the child was given, from the beginning of the line it is in.
Halves == line \o stdin

\* The caller that writes a half.
Author(half) == IF half.of = Notification THEN Opener ELSE half.of

\* In the middle of a line, its first half is the last the child was given.
HeadIsLast ==
  halfway /\ child = "running" =>
    \E w \in Calls \union {Reader} :
      writer = <<w>> /\ Len(Halves) > 0 /\ Halves[Len(Halves)] = Half(LineOf(w), "head")

\* The inductive invariant of the lines.
LinesInv == Holding /\ HeadIsLast /\ WholeLines

\* What is added to the pipe is added to the whole.
LEMMA CatAppend ==
  ASSUME NEW S, NEW a \in Seq(S), NEW b \in Seq(S), NEW e \in S
  PROVE  a \o Append(b, e) = Append(a \o b, e) /\ a \o b \in Seq(S)
OBVIOUS

\* Moving the first half of the pipe to the line keeps the whole.
LEMMA CatMove ==
  ASSUME NEW S, NEW a \in Seq(S), NEW b \in Seq(S), b # <<>>
  PROVE  Append(a, Head(b)) \o Tail(b) = a \o b
OBVIOUS

\* Reading the end of a line drops that line.
LEMMA CatDrop ==
  ASSUME NEW S, NEW a \in Seq(S), NEW b \in Seq(S), b # <<>>
  PROVE  /\ Len(<<>> \o Tail(b)) = Len(a \o b) - (Len(a) + 1)
         /\ \A i \in 1..Len(<<>> \o Tail(b)) : (<<>> \o Tail(b))[i] = (a \o b)[i + (Len(a) + 1)]
         /\ (a \o b)[Len(a) + 1] = Head(b)
         /\ Len(a) \in Nat /\ Len(a \o b) >= Len(a) + 1
OBVIOUS

\* How the lock may change hands while the lines stay.
Idles ==
  /\ UNCHANGED <<line, stdin, child>>
  /\ \/ writer' = writer /\ halfway' = halfway /\ \A c \in Calls : writer = <<c>> => call'[c] = call[c]
     \/ writer = <<>> /\ halfway' = FALSE
     \/ halfway' = FALSE /\ (child = "exited" \/ \E c \in Calls : writer = <<c>> /\ call'[c] = "dropped")

\* A step leaves the lines alone, writes a half, ends the child or lets it read.
LEMMA LineMoves ==
  ASSUME TypeOK, Holding, [Next]_vars
  PROVE  \/ Idles
         \/ \E w \in Calls \union {Reader} : WriteHead(w) \/ WriteTail(w)
         \/ line' = <<>> /\ stdin' = <<>> /\ child' = "exited"
         \/ ChildReads
<1> USE DEF callVars, lockVars, childVars
<1>1. ASSUME NEW c \in Calls, Register(c) \/ Resume(c) \/ Timeout(c) \/ Unregister(c)
      PROVE  Idles
  <2>1. call[c] \notin {"writing", "notifying"} /\ \A d \in Calls : d # c => call'[d] = call[d]
    BY <1>1 DEF Register, Resume, Timeout, Unregister, TypeOK
  <2>2. UNCHANGED <<line, stdin, child, writer, halfway>>
    BY <1>1 DEF Register, Resume, Timeout, Unregister
  <2>3. \A d \in Calls : writer = <<d>> => d # c
    BY <2>1 DEF Holding
  <2>. QED
    BY <2>1, <2>2, <2>3 DEF Idles
<1>2. ASSUME NEW c \in Calls, Lock(c)
      PROVE  Idles
  BY <1>2 DEF Lock, StdinFree, Idles
<1>3. ASSUME NEW c \in Calls, Drop(c)
      PROVE  Idles
  <2>1. call'[c] = "dropped" /\ UNCHANGED <<line, stdin, child>> /\ \A d \in Calls : d # c => call'[d] = call[d]
    BY <1>3 DEF Drop, TypeOK
  <2>2. CASE writer = <<c>>
    BY <1>3, <2>1, <2>2 DEF Drop, Unlock, Idles
  <2>3. CASE writer # <<c>>
    BY <1>3, <2>1, <2>3 DEF Drop, Idles
  <2>. QED
    BY <2>2, <2>3
<1>4. ASSUME NEW w \in Calls \union {Reader}, WriteFails(w)
      PROVE  Idles
  BY <1>4 DEF WriteFails, Unlock, Idles
<1>5. CASE Dispatch \/ Refuse \/ IgnoreNote \/ Unreadable \/ FailAgain \/ EndOfOutput \/ UNCHANGED vars
  BY <1>5 DEF Dispatch, Refuse, IgnoreNote, Unreadable, FailAgain, EndOfOutput, vars, Idles
<1>6. CASE LockToRefuse
  BY <1>6 DEF LockToRefuse, StdinFree, Idles
<1>7. CASE ChildReplies \/ ChildSpeaks
  BY <1>7 DEF ChildReplies, ChildSpeaks, Idles
<1>8. CASE ChildExits \/ CloseSession
  BY <1>8 DEF ChildExits, CloseSession, ChildGone
<1>. QED
  BY <1>1, <1>2, <1>3, <1>4, <1>5, <1>6, <1>7, <1>8 DEF Next, Read, Request, Child

\* Who was dropped stays dropped.
LEMMA DroppedStays ==
  ASSUME TypeOK, Holding, [Next]_vars, NEW c \in Calls, call[c] = "dropped"
  PROVE  call'[c] = "dropped"
<1> USE DEF callVars, lockVars, childVars
<1>1. \/ call' = call
      \/ \E d \in Calls : call[d] # "dropped" /\ \E state : call' = [call EXCEPT ![d] = state]
  <2>1. ASSUME NEW d \in Calls, Register(d) \/ Lock(d) \/ Resume(d) \/ Timeout(d) \/ Unregister(d) \/ Drop(d)
        PROVE  call[d] # "dropped" /\ \E state : call' = [call EXCEPT ![d] = state]
    BY <2>1 DEF Register, Lock, Resume, Timeout, Unregister, Drop
  <2>2. ASSUME NEW w \in Calls \union {Reader}, WriteHead(w)
        PROVE  call' = call
    BY <2>2 DEF WriteHead
  <2>3. ASSUME NEW w \in Calls \union {Reader}, WriteTail(w)
        PROVE  call' = call \/ (w \in Calls /\ call[w] # "dropped" /\ \E state : call' = [call EXCEPT ![w] = state])
    BY <2>3 DEF WriteTail
  <2>4. ASSUME NEW w \in Calls \union {Reader}, WriteFails(w)
        PROVE  call' = call \/ (w \in Calls /\ call[w] # "dropped" /\ \E state : call' = [call EXCEPT ![w] = state])
    BY <2>4 DEF WriteFails, Holding
  <2>5. CASE Dispatch \/ Refuse \/ IgnoreNote \/ Unreadable \/ FailAgain \/ EndOfOutput \/ LockToRefuse
    BY <2>5 DEF Dispatch, Refuse, IgnoreNote, Unreadable, FailAgain, EndOfOutput, LockToRefuse
  <2>6. CASE Child \/ CloseSession \/ UNCHANGED vars
    BY <2>6 DEF Child, ChildReads, ChildReplies, ChildSpeaks, ChildExits, CloseSession, vars
  <2>. QED
    BY <2>1, <2>2, <2>3, <2>4, <2>5, <2>6 DEF Next, Read, Request
<1>. QED
  BY <1>1 DEF TypeOK

\* No step lets a call write without the lock's place in its life, or a dead child be written to.
LEMMA HoldingStep ==
  ASSUME TypeOK, Holding, [Next]_vars
  PROVE  Holding'
<1> USE DEF callVars, lockVars, childVars
<1>0. Opener \in Calls /\ Reader \notin Calls
  BY McpStdioAssumption
<1>1. ASSUME NEW c \in Calls, Register(c) \/ Resume(c) \/ Timeout(c) \/ Unregister(c) \/ Drop(c)
      PROVE  Holding'
  <2>1. \A d \in Calls : d # c => call'[d] = call[d]
    BY <1>1 DEF Register, Resume, Timeout, Unregister, Drop, TypeOK
  <2>2. UNCHANGED <<line, stdin, child>> /\ (writer' = writer \/ writer' = <<>>) /\ (writer = <<c>> => writer' = <<>>)
    BY <1>1 DEF Register, Resume, Timeout, Unregister, Drop, Unlock, Holding
  <2>3. call'[c] # "notifying" /\ (call'[c] = "notify" => c = Opener)
    BY <1>1 DEF Register, Resume, Timeout, Unregister, Drop, TypeOK
  <2>4. ASSUME NEW d \in Calls, writer' = <<d>> PROVE call'[d] \in {"writing", "notifying"}
    <3>1. writer = <<d>> /\ d # c
      BY <2>2, <2>4
    <3>. QED
      BY <2>1, <3>1 DEF Holding
  <2>. QED
    BY <2>1, <2>2, <2>3, <2>4 DEF Holding
<1>2. ASSUME NEW c \in Calls, Lock(c)
      PROVE  Holding'
  <2>1. /\ writer' = <<c>> /\ UNCHANGED <<line, stdin, child>>
        /\ call[c] \in {"registered", "notify"}
        /\ call'[c] = IF call[c] = "notify" THEN "notifying" ELSE "writing"
        /\ \A d \in Calls : d # c => call'[d] = call[d]
    BY <1>2 DEF Lock, TypeOK
  <2>2. ASSUME NEW d \in Calls, writer' = <<d>> PROVE d = c
    BY <2>1, <2>2
  <2>. QED
    BY <2>1, <2>2 DEF Holding
<1>3. ASSUME NEW w \in Calls \union {Reader}, WriteHead(w)
      PROVE  Holding'
  BY <1>3 DEF WriteHead, Holding
<1>4. ASSUME NEW w \in Calls \union {Reader}, WriteTail(w) \/ WriteFails(w)
      PROVE  Holding'
  <2>1. writer' = <<>> /\ child' = child /\ line' = line /\ (stdin' = stdin \/ child = "running")
    BY <1>4 DEF WriteTail, WriteFails, Unlock
  <2>2. \A d \in Calls : call'[d] = call[d] \/ call'[d] \in {"waiting", "ok", "failed", "write failed"}
    BY <1>4 DEF WriteTail, WriteFails, TypeOK
  <2>. QED
    BY <2>1, <2>2 DEF Holding
<1>5. CASE Dispatch \/ Refuse \/ IgnoreNote \/ Unreadable \/ FailAgain \/ EndOfOutput \/ UNCHANGED vars
  BY <1>5 DEF Dispatch, Refuse, IgnoreNote, Unreadable, FailAgain, EndOfOutput, vars, Holding
<1>6. CASE LockToRefuse
  <2>1. ASSUME NEW d \in Calls, writer' = <<d>> PROVE FALSE
    BY <1>0, <1>6, <2>1 DEF LockToRefuse
  <2>. QED
    BY <1>6, <2>1 DEF LockToRefuse, Holding
<1>7. CASE ChildReplies \/ ChildSpeaks \/ ChildReads
  BY <1>7 DEF ChildReplies, ChildSpeaks, ChildReads, Holding
<1>8. CASE ChildExits
  BY <1>8 DEF ChildExits, ChildGone, Holding
<1>9. CASE CloseSession
  BY <1>9 DEF CloseSession, ChildGone, Unlock, Holding
<1>. QED
  BY <1>1, <1>2, <1>3, <1>4, <1>5, <1>6, <1>7, <1>8, <1>9 DEF Next, Read, Request, Child

\* The line of a holder is by the holder.
LEMMA AuthorOf ==
  ASSUME TypeOK, Holding, NEW w \in Calls \union {Reader}, writer = <<w>>, NEW part
  PROVE  Author(Half(LineOf(w), part)) = w
<1>1. Reader \notin Calls /\ Notification \notin Calls /\ Reader # Notification
  BY McpStdioAssumption DEF Reader, Notification
<1>. QED
  BY <1>1 DEF Author, Half, LineOf, Holding

\* A half of a sequence of halves is part of a whole line, or is being written, or broken off.
Sound(hs, i) ==
  hs[i].part = "head" =>
    \/ i < Len(hs) /\ hs[i + 1] = Half(hs[i].of, "tail")
    \/ i = Len(hs) /\ writer = <<Author(hs[i])>> /\ halfway
    \/ Author(hs[i]) \in Calls /\ call[Author(hs[i])] = "dropped"

\* WholeLines, said of each half in its turn.
LEMMA LinesSound ==
  ASSUME TypeOK
  PROVE  /\ Halves \in Seq(HalfLine) /\ Len(Halves) \in Nat /\ DOMAIN Halves = 1..Len(Halves)
         /\ WholeLines <=> \A i \in 1..Len(Halves) : Sound(Halves, i)
<1>1. Halves \in Seq(HalfLine)
  BY CatAppend DEF TypeOK, Halves
<1>2. Len(Halves) \in Nat /\ DOMAIN Halves = 1..Len(Halves)
  BY <1>1
<1>. QED
  BY <1>1, <1>2 DEF WholeLines, Sound, Author, Halves

\* The same after a step.
LEMMA LinesSoundNext ==
  ASSUME NEW new, new = line' \o stdin', new \in Seq(HalfLine), \A i \in 1..Len(new) : Sound(new, i)'
  PROVE  WholeLines'
<1>1. DOMAIN new = 1..Len(new)
  OBVIOUS
<1>. QED
  BY <1>1 DEF WholeLines, Sound, Author

\* A half stays sound as long as the lines stay, with what the lock may do meanwhile.
LEMMA IdleKeeps ==
  ASSUME TypeOK, LinesInv, [Next]_vars, Idles
  PROVE  HeadIsLast' /\ WholeLines'
<1>1. PICK hs \in Seq(HalfLine) : hs = Halves /\ Len(hs) \in Nat /\ \A i \in 1..Len(hs) : Sound(hs, i)
  BY LinesSound DEF LinesInv
<1>2. line' \o stdin' = hs /\ child' = child
  BY <1>1 DEF Idles, Halves
<1>3. child = "exited" => hs = <<>>
  BY <1>1 DEF LinesInv, Holding, Halves
<1>4. \A c \in Calls : call[c] = "dropped" => call'[c] = "dropped"
  BY DroppedStays DEF LinesInv
<1>5. ASSUME NEW i \in 1..Len(hs) PROVE Sound(hs, i)'
  <2> DEFINE a == Author(hs[i])
  <2>1. Sound(hs, i)
    BY <1>1
  <2>2. CASE i = Len(hs) /\ writer = <<a>> /\ halfway
    <3>1. CASE writer' = writer /\ halfway' = halfway
      BY <2>2, <3>1 DEF Sound
    <3>2. ASSUME NEW c \in Calls, writer = <<c>>, call'[c] = "dropped" PROVE Sound(hs, i)'
      <4>1. a = c
        BY <2>2, <3>2
      <4>. QED
        BY <3>2, <4>1 DEF Sound
    <3>3. writer # <<>> /\ child # "exited"
      BY <1>3, <2>2
    <3>. QED
      BY <2>2, <3>1, <3>2, <3>3 DEF Idles
  <2>. QED
    BY <1>4, <2>1, <2>2 DEF Sound
<1>6. WholeLines'
  BY <1>1, <1>2, <1>5, LinesSoundNext
<1>7. HeadIsLast'
  <2> SUFFICES ASSUME halfway', child = "running"
               PROVE  \E w \in Calls \union {Reader} :
                        writer' = <<w>> /\ Len(hs) > 0 /\ hs[Len(hs)] = Half(LineOf(w), "head")'
    BY <1>1, <1>2 DEF HeadIsLast, Halves
  <2>1. writer' = writer /\ halfway /\ \A c \in Calls : writer = <<c>> => call'[c] = call[c]
    BY DEF Idles
  <2>2. PICK w \in Calls \union {Reader} : writer = <<w>> /\ Len(hs) > 0 /\ hs[Len(hs)] = Half(LineOf(w), "head")
    BY <1>1, <2>1 DEF LinesInv, HeadIsLast
  <2>3. Half(LineOf(w), "head")' = Half(LineOf(w), "head")
    BY <2>1, <2>2 DEF Half, LineOf
  <2>. QED
    BY <2>1, <2>2, <2>3
<1>. QED
  BY <1>6, <1>7

\* A first half is the last one, of the holder.
LEMMA HeadKeeps ==
  ASSUME TypeOK, LinesInv, NEW w \in Calls \union {Reader}, WriteHead(w)
  PROVE  HeadIsLast' /\ WholeLines'
<1>1. PICK hs \in Seq(HalfLine) : hs = Halves /\ Len(hs) \in Nat /\ \A i \in 1..Len(hs) : Sound(hs, i)
  BY LinesSound DEF LinesInv
<1>2. PICK half \in HalfLine : /\ half = Half(LineOf(w), "head") /\ half.part = "head"
                               /\ half = Half(LineOf(w), "head")' /\ Author(half) = w
  BY HalfTypes, AuthorOf DEF WriteHead, Half, LineOf, callVars, LinesInv
<1>3. /\ writer = <<w>> /\ ~halfway /\ writer' = <<w>> /\ halfway' /\ call' = call
      /\ stdin' = Append(stdin, half) /\ line' = line
  BY <1>2 DEF WriteHead, callVars, childVars
<1>4. line' \o stdin' = Append(hs, half)
  BY <1>1, <1>2, <1>3, CatAppend DEF TypeOK, Halves
<1>5. PICK new \in Seq(HalfLine) :
        /\ new = line' \o stdin' /\ Len(new) = Len(hs) + 1 /\ new[Len(hs) + 1] = half
        /\ \A i \in 1..Len(hs) : new[i] = hs[i]
  <2>1. /\ Append(hs, half) \in Seq(HalfLine) /\ Len(Append(hs, half)) = Len(hs) + 1
        /\ \A i \in 1..Len(hs) : Append(hs, half)[i] = hs[i]
        /\ Append(hs, half)[Len(hs) + 1] = half
    BY Appended
  <2>. QED
    BY <1>4, <2>1
<1>6. ASSUME NEW i \in 1..Len(hs) PROVE Sound(new, i)'
  <2>1. i < Len(hs) => i + 1 \in 1..Len(hs)
    BY <1>1
  <2>2. Sound(hs, i) /\ new[i] = hs[i] /\ (i < Len(hs) => new[i + 1] = hs[i + 1]) /\ i < Len(new)
    <3>1. Sound(hs, i) /\ new[i] = hs[i]
      BY <1>1, <1>5
    <3>2. i < Len(hs) => new[i + 1] = hs[i + 1]
      BY <1>5, <2>1
    <3>3. i < Len(new)
      BY <1>1, <1>5
    <3>. QED
      BY <3>1, <3>2, <3>3
  <2>. QED
    BY <1>3, <2>2 DEF Sound
<1>7. Sound(new, Len(new))'
  BY <1>2, <1>3, <1>5 DEF Sound
<1>8. \A i \in 1..Len(new) : i \in 1..Len(hs) \/ i = Len(new)
  BY <1>1, <1>5
<1>9. \A i \in 1..Len(new) : Sound(new, i)'
  BY <1>6, <1>7, <1>8
<1>10. WholeLines'
  BY <1>5, <1>9, LinesSoundNext
<1>11. HeadIsLast'
  BY <1>1, <1>2, <1>3, <1>5 DEF HeadIsLast, Halves
<1>. QED
  BY <1>10, <1>11

\* A second half follows its first.
LEMMA TailKeeps ==
  ASSUME TypeOK, LinesInv, [Next]_vars, NEW w \in Calls \union {Reader}, WriteTail(w)
  PROVE  HeadIsLast' /\ WholeLines'
<1>1. PICK hs \in Seq(HalfLine) : hs = Halves /\ Len(hs) \in Nat /\ \A i \in 1..Len(hs) : Sound(hs, i)
  BY LinesSound DEF LinesInv
<1>2. PICK half \in HalfLine : half = Half(LineOf(w), "tail") /\ half.part = "tail"
  BY HalfTypes DEF Half
<1>3. /\ writer = <<w>> /\ halfway /\ halfway' = FALSE /\ child = "running"
      /\ stdin' = Append(stdin, half) /\ line' = line
  BY <1>2 DEF WriteTail, Unlock, childVars
<1>4. Len(hs) > 0 /\ hs[Len(hs)] = Half(LineOf(w), "head")
  <2>1. PICK v \in Calls \union {Reader} : writer = <<v>> /\ Len(hs) > 0 /\ hs[Len(hs)] = Half(LineOf(v), "head")
    BY <1>1, <1>3 DEF LinesInv, HeadIsLast
  <2>2. v = w
    BY <1>3, <2>1
  <2>. QED
    BY <2>1, <2>2
<1>5. half = Half(hs[Len(hs)].of, "tail")
  BY <1>2, <1>4 DEF Half
<1>6. line' \o stdin' = Append(hs, half)
  BY SMTT(40), <1>1, <1>2, <1>3, CatAppend DEF TypeOK, Halves
<1>7. \A c \in Calls : call[c] = "dropped" => call'[c] = "dropped"
  BY DroppedStays DEF LinesInv
<1>8. PICK new \in Seq(HalfLine) :
        /\ new = line' \o stdin' /\ Len(new) = Len(hs) + 1 /\ new[Len(hs) + 1] = half
        /\ \A i \in 1..Len(hs) : new[i] = hs[i]
  <2>1. /\ Append(hs, half) \in Seq(HalfLine) /\ Len(Append(hs, half)) = Len(hs) + 1
        /\ \A i \in 1..Len(hs) : Append(hs, half)[i] = hs[i]
        /\ Append(hs, half)[Len(hs) + 1] = half
    BY Appended
  <2>. QED
    BY <1>6, <2>1
<1>9. ASSUME NEW i \in 1..Len(hs) PROVE Sound(new, i)'
  <2>0. i < Len(hs) => i + 1 \in 1..Len(hs)
    BY <1>1
  <2>1. Sound(hs, i) /\ new[i] = hs[i] /\ (i < Len(hs) => new[i + 1] = hs[i + 1]) /\ i < Len(new)
    <3>1. Sound(hs, i) /\ new[i] = hs[i]
      BY <1>1, <1>8
    <3>2. i < Len(hs) => new[i + 1] = hs[i + 1]
      BY <1>8, <2>0
    <3>3. i < Len(new)
      BY <1>1, <1>8
    <3>. QED
      BY <3>1, <3>2, <3>3
  <2>2. CASE i = Len(hs)
    <3>1. new[i + 1] = Half(new[i].of, "tail")
      BY <1>5, <1>8, <2>1, <2>2
    <3>. QED
      BY <2>1, <3>1 DEF Sound
  <2>3. CASE i # Len(hs)
    <3>1. i < Len(hs)
      BY <1>1, <2>3
    <3>. QED
      BY <1>7, <2>1, <2>3, <3>1 DEF Sound
  <2>. QED
    BY <2>2, <2>3
<1>10. Sound(new, Len(new))'
  BY <1>2, <1>8 DEF Sound
<1>11. \A i \in 1..Len(new) : i \in 1..Len(hs) \/ i = Len(new)
  BY <1>1, <1>8
<1>12. \A i \in 1..Len(new) : Sound(new, i)'
  BY <1>9, <1>10, <1>11
<1>13. WholeLines'
  BY <1>8, <1>12, LinesSoundNext
<1>. QED
  BY <1>3, <1>13 DEF HeadIsLast

\* The child takes a half, or a whole line.
LEMMA ReadKeeps ==
  ASSUME TypeOK, LinesInv, ChildReads
  PROVE  HeadIsLast' /\ WholeLines'
<1>1. PICK hs \in Seq(HalfLine) : hs = Halves /\ Len(hs) \in Nat /\ \A i \in 1..Len(hs) : Sound(hs, i)
  BY LinesSound DEF LinesInv
<1>2. /\ stdin # <<>> /\ stdin' = Tail(stdin) /\ child = "running"
      /\ line' = IF Head(stdin).part = "tail" THEN <<>> ELSE Append(line, Head(stdin))
      /\ writer' = writer /\ halfway' = halfway /\ call' = call
  BY DEF ChildReads, lockVars, callVars
<1>3. CASE Head(stdin).part # "tail"
  <2>1. line' \o stdin' = hs
    BY <1>1, <1>2, <1>3, CatMove DEF TypeOK, Halves
  <2>2. \A i \in 1..Len(hs) : Sound(hs, i)'
    BY <1>1, <1>2 DEF Sound
  <2>3. WholeLines'
    BY <1>1, <2>1, <2>2, LinesSoundNext
  <2>4. HeadIsLast'
    <3>1. \A w \in Calls \union {Reader} : Half(LineOf(w), "head")' = Half(LineOf(w), "head")
      BY <1>2 DEF Half, LineOf
    <3>2. Halves' = Halves
      BY <1>1, <2>1 DEF Halves
    <3>. QED
      BY <1>2, <3>1, <3>2 DEF LinesInv, HeadIsLast
  <2>. QED
    BY <2>3, <2>4
<1>4. CASE Head(stdin).part = "tail"
  <2> DEFINE n == Len(line) + 1
  <2>1. PICK new \in Seq(HalfLine) : new = line' \o stdin'
    <3>1. <<>> \in Seq(HalfLine) /\ Tail(stdin) \in Seq(HalfLine)
      BY <1>2 DEF TypeOK
    <3>2. <<>> \o Tail(stdin) \in Seq(HalfLine)
      BY <3>1
    <3>3. line' \o stdin' = <<>> \o Tail(stdin)
      BY <1>2, <1>4
    <3>. QED
      BY <3>2, <3>3
  <2>2. /\ Len(new) = Len(hs) - n /\ \A i \in 1..Len(new) : new[i] = hs[i + n]
        /\ hs[n] = Head(stdin) /\ n \in Nat /\ n >= 1 /\ Len(hs) >= n
    <3>1. PICK a \in Seq(HalfLine), b \in Seq(HalfLine) : a = line /\ b = stdin
      BY DEF TypeOK
    <3>2. /\ Len(<<>> \o Tail(b)) = Len(a \o b) - (Len(a) + 1)
          /\ \A i \in 1..Len(<<>> \o Tail(b)) : (<<>> \o Tail(b))[i] = (a \o b)[i + (Len(a) + 1)]
          /\ (a \o b)[Len(a) + 1] = Head(b)
          /\ Len(a) \in Nat /\ Len(a \o b) >= Len(a) + 1
      <4>1. b # <<>>
        BY <1>2, <3>1
      <4>. QED
        BY <4>1, CatDrop
    <3>3. hs = a \o b /\ new = <<>> \o Tail(b) /\ n = Len(a) + 1
      BY <1>1, <1>2, <1>4, <2>1, <3>1 DEF Halves
    <3>4. n \in Nat /\ n >= 1 /\ Len(hs) >= n /\ Len(new) = Len(hs) - n
      <4> HIDE DEF n
      <4>1. Len(a) \in Nat /\ Len(hs) >= Len(a) + 1 /\ Len(new) = Len(hs) - (Len(a) + 1)
        BY <3>2, <3>3
      <4>. QED
        BY <3>3, <4>1
    <3>5. \A i \in 1..Len(new) : new[i] = hs[i + n]
      BY <3>2, <3>3
    <3>6. hs[n] = Head(stdin)
      BY <3>1, <3>2, <3>3
    <3>. QED
      BY <3>4, <3>5, <3>6
  <2> HIDE DEF n
  <2>3. Len(new) \in Nat
    BY <2>1
  <2>4. ASSUME NEW i \in 1..Len(new) PROVE Sound(new, i)'
    <3>1. i + n \in 1..Len(hs) /\ new[i] = hs[i + n] /\ (i = Len(new) <=> i + n = Len(hs))
          /\ (i < Len(new) => new[i + 1] = hs[(i + n) + 1]) /\ (i < Len(new) <=> i + n < Len(hs))
      <4>1. i \in Nat /\ 1 <= i /\ i <= Len(new)
        BY <2>3
      <4>2. i + n \in 1..Len(hs) /\ (i = Len(new) <=> i + n = Len(hs)) /\ (i < Len(new) <=> i + n < Len(hs))
        BY <1>1, <2>2, <2>3, <4>1
      <4>3. ASSUME i < Len(new) PROVE new[i + 1] = hs[(i + n) + 1]
        <5>1. i + 1 \in 1..Len(new)
          BY <2>3, <4>1, <4>3
        <5>2. new[i + 1] = hs[(i + 1) + n] /\ (i + 1) + n = (i + n) + 1
          BY <2>2, <4>1, <5>1
        <5>. QED
          BY <5>2
      <4>4. new[i] = hs[i + n]
        BY <2>2
      <4>. QED
        BY <4>2, <4>3, <4>4
    <3>2. Sound(hs, i + n)
      BY <1>1, <3>1
    <3>. QED
      BY <1>2, <3>1, <3>2 DEF Sound
  <2>5. WholeLines'
    BY <2>1, <2>4, LinesSoundNext
  <2>6. HeadIsLast'
    <3> SUFFICES ASSUME halfway, child = "running"
                 PROVE  \E w \in Calls \union {Reader} :
                          writer = <<w>> /\ Len(new) > 0 /\ new[Len(new)] = Half(LineOf(w), "head")'
      BY <1>2, <2>1 DEF HeadIsLast, Halves
    <3>1. PICK w \in Calls \union {Reader} : writer = <<w>> /\ Len(hs) > 0 /\ hs[Len(hs)] = Half(LineOf(w), "head")
      BY <1>1, <1>2 DEF LinesInv, HeadIsLast
    <3>2. Half(LineOf(w), "head")' = Half(LineOf(w), "head")
      BY <1>2 DEF Half, LineOf
    <3>3. Len(hs) # n
      BY <1>4, <2>2, <3>1 DEF Half
    <3>4. Len(new) > 0 /\ Len(new) + n = Len(hs) /\ new[Len(new)] = hs[Len(hs)]
      <4>1. Len(new) \in Nat /\ Len(hs) \in Nat /\ n \in Nat
        BY <2>2
      <4>2. Len(hs) > n /\ Len(new) = Len(hs) - n
        BY <2>2, <3>3, <4>1
      <4>3. Len(new) > 0 /\ Len(new) + n = Len(hs)
        BY <4>1, <4>2
      <4>. QED
        BY <2>2, <4>1, <4>3
    <3>. QED
      BY <3>1, <3>2, <3>4
  <2>. QED
    BY <2>5, <2>6
<1>. QED
  BY <1>3, <1>4

\* Every step keeps the inductive invariant of the lines.
LEMMA LinesStep ==
  ASSUME TypeOK, LinesInv, [Next]_vars
  PROVE  LinesInv'
<1>1. Holding'
  BY HoldingStep DEF LinesInv
<1>2. CASE line' = <<>> /\ stdin' = <<>> /\ child' = "exited"
  <2>1. line' \o stdin' = <<>> /\ <<>> \in Seq(HalfLine)
    BY <1>2
  <2>2. \A i \in 1..Len(<<>>) : FALSE
    OBVIOUS
  <2>3. WholeLines'
    BY <2>1, <2>2, LinesSoundNext
  <2>. QED
    BY <1>1, <1>2, <2>3 DEF LinesInv, HeadIsLast
<1>3. CASE Idles
  BY <1>1, <1>3, IdleKeeps DEF LinesInv
<1>4. ASSUME NEW w \in Calls \union {Reader}, WriteHead(w) \/ WriteTail(w) PROVE HeadIsLast' /\ WholeLines'
  BY <1>4, HeadKeeps, TailKeeps
<1>5. CASE ChildReads
  BY <1>1, <1>5, ReadKeeps DEF LinesInv
<1>. QED
  BY <1>1, <1>2, <1>3, <1>4, <1>5, LineMoves DEF LinesInv

\* The lines the child is given: each is written whole before another begins, unless its writer
\* was dropped in the middle of it (StdioSession::write holds the lock of stdin across the line).
THEOREM LinesAreWhole == Spec => []WholeLines
<1>1. Init => LinesInv
  <2> SUFFICES ASSUME Init PROVE LinesInv
    OBVIOUS
  <2>1. Holding /\ HeadIsLast
    BY DEF Init, Holding, HeadIsLast
  <2>2. Halves = <<>>
    BY DEF Init, Halves
  <2>3. WholeLines
    BY <2>2 DEF WholeLines, Halves
  <2>. QED
    BY <2>1, <2>3 DEF LinesInv
<1>2. LinesInv => WholeLines
  BY DEF LinesInv
<1>. QED
  BY <1>1, <1>2, LinesStep, TypeCorrect, PTL DEF Spec

----------------------------------------------------------------------------
(***************************************************************************)
(* Requests reach the server after the handshake.  The invariant: a session *)
(* enters the table when its handshake is over, and until then one user has *)
(* it.                                                                     *)
(***************************************************************************)

Owning == {"initialize", "keep", "notify", "ready"}
Locking == {"ensure", "take"}
Places == Owning \union Locking \union {"idle", "look up", "send"}

\* Sessions and identifiers are numbers.
HttpTypeOK ==
  /\ opened \in Nat /\ inSlot \in Nat /\ issued \in Nat /\ known \subseteq Nat
  /\ session \in [Sessions -> [id : Nat, ready : BOOLEAN]]
  /\ asker \in [Askers -> Places]
  /\ purpose \in [Askers -> {"connect", "list", "call"}]
  /\ using \in [Askers -> Nat]
  /\ carries \in [Askers -> Nat]

\* Nobody has a session that was not opened or an identifier that was not given out.
NothingIsAhead ==
  /\ opened <= MaxSessions /\ inSlot <= opened
  /\ \A i \in known : i <= issued
  /\ \A s \in Sessions : session[s].id <= issued
  /\ \A u \in Askers : using[u] <= opened /\ carries[u] <= issued

\* The server was told of this identifier, or refused to be told, or has forgotten it.
Greeted(i) == i # None /\ (i \in known => i \in greeted \union lenient)

OpenSession(s) == s # None /\ session[s].ready /\ Greeted(session[s].id)

\* Who is in a handshake is alone with its session, which is not in the table.
OwnedAlone ==
  \A u \in Askers : asker[u] \in Owning =>
    /\ using[u] # None /\ using[u] # inSlot /\ purpose[u] = "connect"
    /\ \A v \in Askers \ {u} : asker[v] \in Owning \union Locking => using[v] # using[u]

\* The session of the table, and those that were taken from it, are open.
SlotIsOpen == inSlot # None => OpenSession(inSlot)

HeldIsOpen == \A u \in Askers : asker[u] \in Locking => OpenSession(using[u])

\* What a user carries is its session's identifier, and greeted once the session is ready.
CarriesIts ==
  \A u \in Askers :
    /\ asker[u] \in {"keep", "notify", "ready"} => carries[u] # None
    /\ asker[u] \in {"notify", "ready"} => session[using[u]].id = carries[u]
    /\ asker[u] \in {"ready", "send"} => Greeted(carries[u])

HttpInv ==
  /\ HttpTypeOK /\ NothingIsAhead /\ OwnedAlone /\ SlotIsOpen /\ HeldIsOpen /\ CarriesIts
  /\ RequestsAfterHandshake

----------------------------------------------------------------------------
\* A move changes the place of one user.
LEMMA Moves ==
  ASSUME HttpTypeOK, NEW u \in Askers, NEW here, NEW there \in Places, AskerAt(u, here, there)
  PROVE  /\ asker[u] = here /\ asker'[u] = there
         /\ \A v \in Askers \ {u} : asker'[v] = asker[v]
         /\ asker' \in [Askers -> Places]
  BY DEF HttpTypeOK, AskerAt

\* A number that was given to a session is one of the sessions.
LEMMA OpenedIsASession ==
  ASSUME HttpTypeOK, NothingIsAhead, NEW n \in Nat \ {0}, n <= opened
  PROVE  n \in Sessions
  BY McpHttpAssumption DEF HttpTypeOK, NothingIsAhead, Sessions

\* The invariant holds at the start: the table is empty and nobody asks.
LEMMA HttpInitially == HttpInit => HttpInv
  BY McpHttpAssumption DEF HttpInit, HttpInv, HttpTypeOK, NothingIsAhead, OwnedAlone, SlotIsOpen,
     HeldIsOpen, CarriesIts, RequestsAfterHandshake, Owning, Locking, Places, None, Sessions

\* A new session is a number nobody has yet, so its user is alone with it.
LEMMA OpenHttpKeeps ==
  ASSUME HttpInv, NEW u \in Askers, OpenHttp(u)
  PROVE  HttpInv'
<1>. USE DEF HttpInv, None, Places, Owning, Locking
<1>1. /\ asker[u] = "idle" /\ asker' \in [Askers -> Places]
     /\ asker'[u] = "initialize"
     /\ \A v \in Askers \ {u} : asker'[v] = asker[v]
  BY DEF OpenHttp, AskerAt, HttpTypeOK
<1>2. /\ opened' = opened + 1 /\ opened \in Nat /\ inSlot = 0
     /\ UNCHANGED <<inSlot, session, issued, known, greeted, carries, lenient, early>>
  BY DEF OpenHttp, HttpTypeOK
<1>3. /\ using'[u] = opened + 1 /\ using' \in [Askers -> Nat]
     /\ \A v \in Askers \ {u} : using'[v] = using[v]
  <2>1. using' = [using EXCEPT ![u] = opened + 1] /\ opened + 1 \in Nat
    BY <1>2 DEF OpenHttp
  <2>. QED
    BY <2>1 DEF HttpTypeOK
<1>4. /\ purpose'[u] = "connect" /\ purpose' \in [Askers -> {"connect", "list", "call"}]
     /\ \A v \in Askers \ {u} : purpose'[v] = purpose[v]
  BY DEF OpenHttp, HttpTypeOK
<1>5. \A v \in Askers : using[v] \in Nat /\ using[v] <= opened /\ opened \in Nat
  BY DEF HttpTypeOK, NothingIsAhead
<1>6. HttpTypeOK'
  BY ZenonT(60), <1>1, <1>2, <1>3, <1>4 DEF HttpTypeOK
<1>7. NothingIsAhead'
  <2>1. opened' <= MaxSessions
    BY <1>2, <1>5, McpHttpAssumption DEF OpenHttp
  <2>2. \A v \in Askers : using'[v] <= opened'
    BY <1>2, <1>3, <1>5
  <2>3. inSlot' <= opened'
    BY <1>2
  <2>. QED
    BY <1>2, <2>1, <2>2, <2>3 DEF NothingIsAhead
<1>8. OwnedAlone'
  <2>1. using'[u] # 0 /\ \A v \in Askers \ {u} : using'[v] # using'[u]
    BY <1>3, <1>5
  <2>2. inSlot' # using'[u]
    BY <1>2, <1>3
  <2>3. UNCHANGED inSlot /\ \A v \in Askers \ {u} : using'[v] = using[v]
    BY <1>2, <1>3
  <2>4. ASSUME NEW v \in Askers, asker'[v] \in Owning
        PROVE  using'[v] # 0 /\ using'[v] # inSlot' /\ purpose'[v] = "connect"
    BY <1>1, <1>4, <2>1, <2>2, <2>3, <2>4 DEF OwnedAlone
  <2>5. ASSUME NEW v \in Askers, asker'[v] \in Owning, NEW w \in Askers \ {v},
               asker'[w] \in Owning \union Locking
        PROVE  using'[w] # using'[v]
    BY ZenonT(60), <1>1, <2>1, <2>3, <2>5 DEF OwnedAlone
  <2>. QED
    BY <2>4, <2>5 DEF OwnedAlone
<1>9. SlotIsOpen'
  BY <1>2 DEF SlotIsOpen, OpenSession, Greeted
<1>10. HeldIsOpen'
  BY <1>1, <1>2, <1>3 DEF HeldIsOpen, OpenSession, Greeted
<1>11. CarriesIts'
  BY <1>1, <1>2, <1>3 DEF CarriesIts, Greeted
<1>12. RequestsAfterHandshake'
  BY <1>2 DEF RequestsAfterHandshake
<1>. QED
  BY <1>6, <1>7, <1>8, <1>9, <1>10, <1>11, <1>12

\* The session of the table is open, and nobody in a handshake has it.
LEMMA FindSessionKeeps ==
  ASSUME HttpInv, NEW u \in Askers, FindSession(u)
  PROVE  HttpInv'
<1>. USE DEF HttpInv, None, Places, Owning, Locking
<1>1. \E there \in {"idle", "ensure"} :
       AskerAt(u, "look up", there) /\ (there = "ensure" => inSlot # 0)
  BY DEF FindSession
<1>2. /\ asker[u] = "look up" /\ asker' \in [Askers -> Places]
     /\ asker'[u] \in {"idle", "ensure"} /\ (asker'[u] = "ensure" => inSlot # 0)
     /\ \A v \in Askers \ {u} : asker'[v] = asker[v]
  BY <1>1, Moves
<1>3. /\ using'[u] = inSlot /\ using' \in [Askers -> Nat]
     /\ \A v \in Askers \ {u} : using'[v] = using[v]
  BY DEF FindSession, HttpTypeOK
<1>4. UNCHANGED <<inSlot, session, opened, issued, known, greeted, purpose, carries, lenient, early>>
  BY DEF FindSession
<1>5. HttpTypeOK'
  BY <1>2, <1>3, <1>4 DEF HttpTypeOK
<1>6. NothingIsAhead'
  BY <1>3, <1>4 DEF NothingIsAhead, HttpTypeOK
<1>7. OwnedAlone'
  BY ZenonT(60), <1>2, <1>3, <1>4 DEF OwnedAlone
<1>8. SlotIsOpen'
  BY <1>4 DEF SlotIsOpen, OpenSession, Greeted
<1>9. HeldIsOpen'
  BY <1>2, <1>3, <1>4 DEF HeldIsOpen, SlotIsOpen, OpenSession, Greeted
<1>10. CarriesIts'
  BY <1>2, <1>3, <1>4 DEF CarriesIts, Greeted
<1>11. RequestsAfterHandshake'
  BY <1>4 DEF RequestsAfterHandshake
<1>. QED
  BY <1>5, <1>6, <1>7, <1>8, <1>9, <1>10, <1>11

\* Whoever looked a session up finds it ready.
LEMMA EnsureKeeps ==
  ASSUME HttpInv, NEW u \in Askers, Ensure(u)
  PROVE  HttpInv'
<1>. USE DEF HttpInv, None, Places, Owning, Locking
<1>1. asker[u] = "ensure" /\ session[using[u]].ready
  BY DEF Ensure, AskerAt, HeldIsOpen, OpenSession
<1>2. /\ asker'[u] = "take" /\ asker' \in [Askers -> Places]
     /\ \A v \in Askers \ {u} : asker'[v] = asker[v]
  BY <1>1 DEF Ensure, AskerAt, HttpTypeOK
<1>3. UNCHANGED <<inSlot, session, opened, issued, known, greeted, purpose, using, carries, lenient, early>>
  BY DEF Ensure
<1>4. HttpTypeOK'
  BY <1>2, <1>3 DEF HttpTypeOK
<1>5. NothingIsAhead'
  BY <1>3 DEF NothingIsAhead, HttpTypeOK
<1>6. OwnedAlone'
  BY <1>1, <1>2, <1>3 DEF OwnedAlone
<1>7. SlotIsOpen'
  BY <1>3 DEF SlotIsOpen, OpenSession, Greeted
<1>8. HeldIsOpen'
  BY <1>1, <1>2, <1>3 DEF HeldIsOpen, OpenSession, Greeted
<1>9. CarriesIts'
  BY <1>1, <1>2, <1>3 DEF CarriesIts, Greeted
<1>10. RequestsAfterHandshake'
  BY <1>3 DEF RequestsAfterHandshake
<1>. QED
  BY <1>4, <1>5, <1>6, <1>7, <1>8, <1>9, <1>10

\* A new identifier is above every one given out, so what was greeted stays greeted.
LEMMA InitializeKeeps ==
  ASSUME HttpInv, NEW u \in Askers, Initialize(u)
  PROVE  HttpInv'
<1>. USE DEF HttpInv, None, Places, Owning, Locking
<1>1. /\ asker[u] = "initialize" /\ asker' \in [Askers -> Places]
     /\ asker'[u] = "keep"
     /\ \A v \in Askers \ {u} : asker'[v] = asker[v]
  BY DEF Initialize, AskerAt, HttpTypeOK
<1>2. /\ issued' = issued + 1 /\ known' = known \union {issued + 1} /\ issued \in Nat
     /\ UNCHANGED <<inSlot, session, opened, greeted, purpose, using, lenient, early>>
  BY DEF Initialize, HttpTypeOK
<1>3. /\ carries'[u] = issued + 1 /\ carries' \in [Askers -> Nat]
     /\ \A v \in Askers \ {u} : carries'[v] = carries[v]
  <2>1. carries' = [carries EXCEPT ![u] = issued + 1] /\ issued + 1 \in Nat
    BY <1>2 DEF Initialize
  <2>. QED
    BY <2>1 DEF HttpTypeOK
<1>4. ASSUME NEW i \in Nat, i <= issued, Greeted(i) PROVE Greeted(i)'
  BY <1>2, <1>4 DEF Greeted
<1>5. ASSUME NEW n \in Nat, n <= opened, OpenSession(n) PROVE OpenSession(n)'
  <2>1. n \in Sessions
    BY <1>5, OpenedIsASession DEF OpenSession
  <2>2. session[n].id \in Nat /\ session[n].id <= issued
    BY <2>1 DEF HttpTypeOK, NothingIsAhead
  <2>. QED
    BY <1>2, <1>4, <1>5, <2>2 DEF OpenSession
<1>6. HttpTypeOK'
  BY ZenonT(60), <1>1, <1>2, <1>3 DEF HttpTypeOK
<1>7. NothingIsAhead'
  <2>1. \A i \in known : i \in Nat /\ i <= issued
    BY DEF HttpTypeOK, NothingIsAhead
  <2>2. \A n \in Nat : n <= issued => n <= issued'
    BY <1>2
  <2>3. \A s \in Sessions : session[s].id \in Nat
    BY DEF HttpTypeOK
  <2>4. \A i \in known' : i <= issued'
    BY <1>2, <2>1
  <2>5. \A s \in Sessions : session'[s].id <= issued'
    BY <1>2, <2>2, <2>3 DEF NothingIsAhead
  <2>6. ASSUME NEW v \in Askers PROVE carries'[v] <= issued'
    <3>1. carries[v] \in Nat /\ carries[v] <= issued
      BY DEF NothingIsAhead, HttpTypeOK
    <3>. QED
      BY <1>2, <1>3, <2>2, <3>1
  <2>. QED
    BY <1>2, <2>4, <2>5, <2>6 DEF NothingIsAhead
<1>8. OwnedAlone'
  BY <1>1, <1>2 DEF OwnedAlone
<1>9. SlotIsOpen'
  BY <1>2, <1>5 DEF SlotIsOpen, HttpTypeOK, NothingIsAhead
<1>10. HeldIsOpen'
  BY <1>1, <1>2, <1>5 DEF HeldIsOpen, HttpTypeOK, NothingIsAhead
<1>11. CarriesIts'
  <2>1. \A v \in Askers : carries[v] \in Nat /\ carries[v] <= issued
    BY DEF HttpTypeOK, NothingIsAhead
  <2>2. issued + 1 # 0
    BY <1>2
  <2>. QED
    BY <1>1, <1>2, <1>3, <1>4, <2>1, <2>2 DEF CarriesIts
<1>12. RequestsAfterHandshake'
  BY <1>2 DEF RequestsAfterHandshake
<1>. QED
  BY <1>6, <1>7, <1>8, <1>9, <1>10, <1>11, <1>12

\* The session that loses its readiness is not in the table, and held by nobody else.
LEMMA KeepIdKeeps ==
  ASSUME HttpInv, NEW u \in Askers, KeepId(u)
  PROVE  HttpInv'
<1>. USE DEF HttpInv, None, Places, Owning, Locking
<1>1. asker[u] = "keep"
  BY DEF KeepId, AskerAt
<1>2. /\ using[u] # 0 /\ using[u] # inSlot /\ purpose[u] = "connect"
     /\ \A v \in Askers \ {u} : asker[v] \in Owning \union Locking => using[v] # using[u]
  BY <1>1 DEF OwnedAlone
<1>3. using[u] \in Sessions
  BY <1>2, OpenedIsASession DEF HttpTypeOK, NothingIsAhead
<1>4. /\ asker'[u] = "notify" /\ asker' \in [Askers -> Places]
     /\ \A v \in Askers \ {u} : asker'[v] = asker[v]
  BY DEF KeepId, AskerAt, HttpTypeOK
<1>5. UNCHANGED <<inSlot, opened, issued, known, greeted, purpose, using, carries, lenient, early>>
  BY DEF KeepId
<1>6. /\ session'[using[u]].id = carries[u] /\ session' \in [Sessions -> [id : Nat, ready : BOOLEAN]]
     /\ \A n \in Sessions : n # using[u] => session'[n] = session[n]
  BY <1>3 DEF KeepId, HttpTypeOK
<1>7. ASSUME NEW n \in Nat, n <= opened, n # using[u], OpenSession(n) PROVE OpenSession(n)'
  BY <1>5, <1>6, <1>7, OpenedIsASession DEF OpenSession, Greeted
<1>8. ASSUME NEW v \in Askers \ {u}, asker[v] \in Owning PROVE using[v] \in Sessions /\ using[v] # using[u]
  BY <1>2, <1>8, OpenedIsASession DEF OwnedAlone, HttpTypeOK, NothingIsAhead
<1>9. HttpTypeOK'
  BY <1>4, <1>5, <1>6 DEF HttpTypeOK
<1>10. NothingIsAhead'
  BY <1>5, <1>6 DEF NothingIsAhead, HttpTypeOK
<1>11. OwnedAlone'
  BY <1>1, <1>4, <1>5 DEF OwnedAlone
<1>12. SlotIsOpen'
  BY <1>2, <1>5, <1>7 DEF SlotIsOpen, HttpTypeOK, NothingIsAhead
<1>13. HeldIsOpen'
  BY <1>2, <1>4, <1>5, <1>7 DEF HeldIsOpen, HttpTypeOK, NothingIsAhead
<1>14. CarriesIts'
  BY <1>1, <1>4, <1>5, <1>6, <1>8 DEF CarriesIts, Greeted
<1>15. RequestsAfterHandshake'
  BY <1>5 DEF RequestsAfterHandshake
<1>. QED
  BY <1>9, <1>10, <1>11, <1>12, <1>13, <1>14, <1>15

\* The server was told or refused to be told; otherwise the handshake ends here.
LEMMA NotifyKeeps ==
  ASSUME HttpInv, NEW u \in Askers, Notify(u)
  PROVE  HttpInv'
<1>. USE DEF HttpInv, None, Places, Owning, Locking
<1>1. PICK reply \in Replies :
       /\ AskerAt(u, "notify", IF Outcome(TRUE, reply) = "fine" THEN "ready" ELSE "idle")
       /\ greeted' = IF carries[u] \in known /\ reply.status # "refused"
                       THEN greeted \union {carries[u]} ELSE greeted
       /\ lenient' = IF reply.status = "refused" /\ Outcome(TRUE, reply) = "fine"
                       THEN lenient \union {carries[u]} ELSE lenient
  BY DEF Notify
<1>2. \E there \in {"ready", "idle"} :
       /\ AskerAt(u, "notify", there)
       /\ there = "ready" => Outcome(TRUE, reply) = "fine"
  BY <1>1
<1>3. /\ asker[u] = "notify" /\ asker' \in [Askers -> Places]
     /\ asker'[u] \in {"ready", "idle"} /\ (asker'[u] = "ready" => Outcome(TRUE, reply) = "fine")
     /\ \A v \in Askers \ {u} : asker'[v] = asker[v]
  BY <1>2, Moves
<1>4. UNCHANGED <<inSlot, session, opened, issued, known, purpose, using, carries, early>>
  BY DEF Notify
<1>5. greeted \subseteq greeted' /\ lenient \subseteq lenient'
  BY <1>1
<1>6. asker'[u] = "ready" => Greeted(carries[u])'
  BY <1>1, <1>3, <1>4 DEF CarriesIts, Greeted
<1>7. HttpTypeOK'
  BY <1>3, <1>4 DEF HttpTypeOK
<1>8. NothingIsAhead'
  BY <1>4 DEF NothingIsAhead, HttpTypeOK
<1>9. OwnedAlone'
  BY <1>3, <1>4 DEF OwnedAlone
<1>10. SlotIsOpen'
  BY <1>4, <1>5 DEF SlotIsOpen, OpenSession, Greeted
<1>11. HeldIsOpen'
  BY <1>3, <1>4, <1>5 DEF HeldIsOpen, OpenSession, Greeted
<1>12. CarriesIts'
  BY <1>3, <1>4, <1>5, <1>6 DEF CarriesIts, Greeted
<1>13. RequestsAfterHandshake'
  BY <1>4 DEF RequestsAfterHandshake
<1>. QED
  BY <1>7, <1>8, <1>9, <1>10, <1>11, <1>12, <1>13

\* A session enters the table ready and with an identifier that was greeted.
LEMMA MakeReadyKeeps ==
  ASSUME HttpInv, NEW u \in Askers, MakeReady(u)
  PROVE  HttpInv'
<1>. USE DEF HttpInv, None, Places, Owning, Locking
<1>1. asker[u] = "ready"
  BY DEF MakeReady, AskerAt
<1>2. /\ using[u] # 0 /\ using[u] # inSlot /\ purpose[u] = "connect"
     /\ \A v \in Askers \ {u} : asker[v] \in Owning \union Locking => using[v] # using[u]
  BY <1>1 DEF OwnedAlone
<1>3. using[u] \in Sessions
  BY <1>2, OpenedIsASession DEF HttpTypeOK, NothingIsAhead
<1>4. /\ asker'[u] = "idle" /\ asker' \in [Askers -> Places]
     /\ \A v \in Askers \ {u} : asker'[v] = asker[v]
  BY <1>2 DEF MakeReady, AskerAt, HttpTypeOK
<1>5. inSlot' = using[u] /\ UNCHANGED <<opened, issued, known, greeted, purpose, using, carries, lenient, early>>
  BY <1>2 DEF MakeReady
<1>6. /\ session'[using[u]] = [session[using[u]] EXCEPT !.ready = TRUE]
     /\ \A n \in Sessions : n # using[u] => session'[n] = session[n]
  BY <1>3 DEF MakeReady, HttpTypeOK
<1>7. /\ session'[using[u]].ready /\ session'[using[u]].id = session[using[u]].id
     /\ session' \in [Sessions -> [id : Nat, ready : BOOLEAN]]
  <2>1. [session[using[u]] EXCEPT !.ready = TRUE] \in [id : Nat, ready : BOOLEAN]
    BY <1>3 DEF HttpTypeOK
  <2>2. session' = [session EXCEPT ![using[u]] = [session[using[u]] EXCEPT !.ready = TRUE]]
    BY DEF MakeReady
  <2>3. session' \in [Sessions -> [id : Nat, ready : BOOLEAN]]
    BY <2>1, <2>2 DEF HttpTypeOK
  <2>4. session[using[u]] \in [id : Nat, ready : BOOLEAN]
    BY <1>3 DEF HttpTypeOK
  <2>. QED
    BY <1>6, <2>3, <2>4
<1>8. OpenSession(using[u])'
  BY <1>1, <1>2, <1>5, <1>7 DEF OpenSession, CarriesIts, Greeted
<1>9. ASSUME NEW n \in Nat, n <= opened, n # using[u], OpenSession(n) PROVE OpenSession(n)'
  BY <1>5, <1>6, <1>9, OpenedIsASession DEF OpenSession, Greeted
<1>10. ASSUME NEW v \in Askers \ {u}, asker[v] \in Owning PROVE using[v] \in Sessions /\ using[v] # using[u]
  BY <1>2, <1>10, OpenedIsASession DEF OwnedAlone, HttpTypeOK, NothingIsAhead
<1>11. HttpTypeOK'
  BY <1>4, <1>5, <1>7 DEF HttpTypeOK
<1>12. NothingIsAhead'
  BY <1>3, <1>5, <1>6, <1>7 DEF NothingIsAhead
<1>13. OwnedAlone'
  BY <1>2, <1>4, <1>5 DEF OwnedAlone
<1>14. SlotIsOpen'
  BY <1>5, <1>8 DEF SlotIsOpen
<1>15. HeldIsOpen'
  BY <1>2, <1>4, <1>5, <1>9 DEF HeldIsOpen, HttpTypeOK, NothingIsAhead
<1>16. CarriesIts'
  <2>1. ASSUME NEW v \in Askers, asker'[v] \in {"notify", "ready"} PROVE session'[using'[v]].id = carries'[v]
    <3>1. v # u /\ asker[v] \in Owning /\ asker[v] = asker'[v]
      BY <1>4, <2>1 DEF Owning
    <3>2. using[v] \in Sessions /\ using[v] # using[u]
      BY <1>10, <3>1
    <3>. QED
      BY <1>5, <1>6, <2>1, <3>1, <3>2 DEF CarriesIts
  <2>2. ASSUME NEW v \in Askers, asker'[v] \in {"ready", "send"} PROVE Greeted(carries[v])
    BY <1>4, <2>2 DEF CarriesIts
  <2>3. ASSUME NEW v \in Askers, asker'[v] \in {"keep", "notify", "ready"} PROVE carries[v] # None
    BY <1>4, <2>3 DEF CarriesIts
  <2>. QED
    BY <1>5, <2>1, <2>2, <2>3 DEF CarriesIts, Greeted
<1>17. RequestsAfterHandshake'
  BY <1>5 DEF RequestsAfterHandshake
<1>. QED
  BY <1>11, <1>12, <1>13, <1>14, <1>15, <1>16, <1>17

\* The identifier of an open session was greeted.
LEMMA TakeIdKeeps ==
  ASSUME HttpInv, NEW u \in Askers, TakeId(u)
  PROVE  HttpInv'
<1>. USE DEF HttpInv, None, Places, Owning, Locking
<1>1. /\ asker[u] = "take" /\ asker' \in [Askers -> Places]
     /\ asker'[u] = "send"
     /\ \A v \in Askers \ {u} : asker'[v] = asker[v]
  BY DEF TakeId, AskerAt, HttpTypeOK
<1>2. OpenSession(using[u])
  BY <1>1 DEF HeldIsOpen
<1>3. using[u] \in Sessions
  BY <1>2, OpenedIsASession DEF OpenSession, HttpTypeOK, NothingIsAhead
<1>4. /\ carries'[u] = session[using[u]].id /\ carries' \in [Askers -> Nat]
     /\ \A v \in Askers \ {u} : carries'[v] = carries[v]
  BY <1>3 DEF TakeId, HttpTypeOK
<1>5. UNCHANGED <<inSlot, session, opened, issued, known, greeted, purpose, using, lenient, early>>
  BY DEF TakeId
<1>6. HttpTypeOK'
  BY <1>1, <1>4, <1>5 DEF HttpTypeOK
<1>7. NothingIsAhead'
  BY <1>3, <1>4, <1>5 DEF NothingIsAhead, HttpTypeOK
<1>8. OwnedAlone'
  BY <1>1, <1>5 DEF OwnedAlone
<1>9. SlotIsOpen'
  BY <1>5 DEF SlotIsOpen, OpenSession, Greeted
<1>10. HeldIsOpen'
  BY <1>1, <1>5 DEF HeldIsOpen, OpenSession, Greeted
<1>11. CarriesIts'
  BY <1>1, <1>2, <1>4, <1>5 DEF CarriesIts, OpenSession, Greeted
<1>12. RequestsAfterHandshake'
  BY <1>5 DEF RequestsAfterHandshake
<1>. QED
  BY <1>6, <1>7, <1>8, <1>9, <1>10, <1>11, <1>12

\* What is sent is an identifier that was greeted, so nothing arrives early.
LEMMA SendKeeps ==
  ASSUME HttpInv, NEW u \in Askers, Send(u)
  PROVE  HttpInv'
<1>. USE DEF HttpInv, None, Places, Owning, Locking
<1>1. \E there \in {"look up", "idle"} : AskerAt(u, "send", there)
  BY DEF Send
<1>2. /\ asker[u] = "send" /\ asker' \in [Askers -> Places]
     /\ asker'[u] \in {"look up", "idle"}
     /\ \A v \in Askers \ {u} : asker'[v] = asker[v]
  BY <1>1, Moves
<1>3. ~early'
  <2>1. Greeted(carries[u])
    BY <1>2 DEF CarriesIts
  <2>. QED
    BY <2>1 DEF Send, Greeted, RequestsAfterHandshake
<1>4. UNCHANGED <<inSlot, session, opened, issued, known, greeted, purpose, using, carries, lenient>>
  BY DEF Send
<1>5. HttpTypeOK'
  BY <1>1, <1>2, <1>3, <1>4 DEF HttpTypeOK
<1>6. NothingIsAhead'
  BY <1>1, <1>2, <1>3, <1>4 DEF HttpTypeOK, NothingIsAhead
<1>7. OwnedAlone'
  BY <1>1, <1>2, <1>3, <1>4 DEF HttpTypeOK, OwnedAlone
<1>8. SlotIsOpen'
  BY <1>1, <1>2, <1>3, <1>4 DEF HttpTypeOK, SlotIsOpen, OpenSession, Greeted
<1>9. HeldIsOpen'
  BY <1>1, <1>2, <1>3, <1>4 DEF HttpTypeOK, HeldIsOpen, SlotIsOpen, OpenSession, Greeted
<1>10. CarriesIts'
  BY <1>1, <1>2, <1>3, <1>4 DEF HttpTypeOK, CarriesIts, OwnedAlone, Greeted
<1>11. RequestsAfterHandshake'
  BY <1>3 DEF RequestsAfterHandshake
<1>. QED
  BY <1>5, <1>6, <1>7, <1>8, <1>9, <1>10, <1>11

\* A user who gives up leaves the session as it was.
LEMMA FailKeeps ==
  ASSUME HttpInv, NEW u \in Askers, Fail(u)
  PROVE  HttpInv'
<1>. USE DEF HttpInv, None, Places, Owning, Locking
<1>1. /\ asker[u] = asker[u] /\ asker' \in [Askers -> Places]
     /\ asker'[u] = "idle"
     /\ \A v \in Askers \ {u} : asker'[v] = asker[v]
  BY DEF Fail, AskerAt, HttpTypeOK
<1>2. UNCHANGED <<inSlot, session, opened, issued, known, greeted, purpose, using, carries, lenient, early>>
  BY DEF Fail
<1>3. HttpTypeOK'
  BY <1>1, <1>2 DEF HttpTypeOK
<1>4. NothingIsAhead'
  BY <1>1, <1>2 DEF HttpTypeOK, NothingIsAhead
<1>5. OwnedAlone'
  BY <1>1, <1>2 DEF HttpTypeOK, OwnedAlone
<1>6. SlotIsOpen'
  BY <1>1, <1>2 DEF HttpTypeOK, SlotIsOpen, OpenSession, Greeted
<1>7. HeldIsOpen'
  BY <1>1, <1>2 DEF HttpTypeOK, HeldIsOpen, SlotIsOpen, OpenSession, Greeted
<1>8. CarriesIts'
  BY <1>1, <1>2 DEF HttpTypeOK, CarriesIts, OwnedAlone, Greeted
<1>9. RequestsAfterHandshake'
  BY <1>1, <1>2 DEF RequestsAfterHandshake
<1>. QED
  BY <1>3, <1>4, <1>5, <1>6, <1>7, <1>8, <1>9

\* Whoever asks has no session yet.
LEMMA AskForKeeps ==
  ASSUME HttpInv, NEW u \in Askers, NEW what, AskFor(u, what)
  PROVE  HttpInv'
<1>. USE DEF HttpInv, None, Places, Owning, Locking
<1>1. /\ asker[u] = "idle" /\ asker' \in [Askers -> Places]
     /\ asker'[u] = "look up"
     /\ \A v \in Askers \ {u} : asker'[v] = asker[v]
  BY DEF AskFor, AskerAt, HttpTypeOK
<1>2. /\ purpose' \in [Askers -> {"connect", "list", "call"}]
     /\ \A v \in Askers \ {u} : purpose'[v] = purpose[v]
  BY DEF AskFor, HttpTypeOK
<1>3. UNCHANGED <<inSlot, session, opened, issued, known, greeted, using, carries, lenient, early>>
  BY DEF AskFor
<1>4. HttpTypeOK'
  BY <1>1, <1>2, <1>3 DEF HttpTypeOK
<1>5. NothingIsAhead'
  BY <1>1, <1>2, <1>3 DEF HttpTypeOK, NothingIsAhead
<1>6. OwnedAlone'
  BY ZenonT(60), <1>1, <1>2, <1>3 DEF HttpTypeOK, OwnedAlone
<1>7. SlotIsOpen'
  BY <1>1, <1>2, <1>3 DEF HttpTypeOK, SlotIsOpen, OpenSession, Greeted
<1>8. HeldIsOpen'
  BY <1>1, <1>2, <1>3 DEF HttpTypeOK, HeldIsOpen, SlotIsOpen, OpenSession, Greeted
<1>9. CarriesIts'
  BY <1>1, <1>2, <1>3 DEF HttpTypeOK, CarriesIts, OwnedAlone, Greeted
<1>10. RequestsAfterHandshake'
  BY <1>1, <1>2, <1>3 DEF RequestsAfterHandshake
<1>. QED
  BY <1>4, <1>5, <1>6, <1>7, <1>8, <1>9, <1>10

\* An empty table is open, and a server that forgets everything has nobody left to greet.
LEMMA TableAndServerKeep ==
  ASSUME HttpInv, DropSession \/ ServerRestarts
  PROVE  HttpInv'
<1>1. CASE DropSession
  BY <1>1 DEF DropSession, HttpInv, HttpTypeOK, NothingIsAhead, OwnedAlone, SlotIsOpen,
     HeldIsOpen, CarriesIts, OpenSession, Greeted, RequestsAfterHandshake, None
<1>2. CASE ServerRestarts
  BY <1>2 DEF ServerRestarts, HttpInv, HttpTypeOK, NothingIsAhead, OwnedAlone, SlotIsOpen,
     HeldIsOpen, CarriesIts, OpenSession, Greeted, RequestsAfterHandshake
<1>. QED
  BY <1>1, <1>2

\* Every step keeps the invariant.
LEMMA HttpNextKeeps == HttpInv /\ [HttpNext]_httpVars => HttpInv'
<1>. SUFFICES ASSUME HttpInv, [HttpNext]_httpVars PROVE HttpInv'
  OBVIOUS
<1>1. CASE HttpNext
  BY <1>1, TableAndServerKeep, OpenHttpKeeps, FindSessionKeeps, EnsureKeeps, InitializeKeeps,
     KeepIdKeeps, NotifyKeeps, MakeReadyKeeps, TakeIdKeeps, SendKeeps, FailKeeps, AskForKeeps DEF HttpNext
<1>2. CASE UNCHANGED httpVars
  BY <1>2 DEF httpVars, HttpInv, HttpTypeOK, NothingIsAhead, OwnedAlone, SlotIsOpen,
     HeldIsOpen, CarriesIts, OpenSession, Greeted, RequestsAfterHandshake
<1>. QED
  BY <1>1, <1>2

\* However many users open and share sessions, and however often the server forgets them, a request
\* reaches it in a session it gave out and was told is initialized.
THEOREM RequestsFollowTheHandshake == HttpSpec => []RequestsAfterHandshake
<1>1. HttpInv => RequestsAfterHandshake
  BY DEF HttpInv
<1>. QED
  BY HttpInitially, HttpNextKeeps, <1>1, PTL DEF HttpSpec

(***************************************************************************)
(* The table serves the configuration of the file.  The invariant: without a *)
(* race, the session in the table is of the file, or the editor is about   *)
(* to drop it, or what was written elsewhere has yet to be seen.           *)
(***************************************************************************)

ManagerTypes ==
  /\ file \in Versions \union {Absent}
  /\ slot \in [of : Versions \union {Absent}, up : BOOLEAN]
  /\ config \in BOOLEAN /\ raced \in BOOLEAN /\ unseen \in BOOLEAN
  /\ step \in [Users -> Connecting \union
                        {"idle", "connected", "write", "drop slot", "drop fail"}]
  /\ mine \in [Users -> Versions \union {Absent}]
  /\ kind \in [Users -> {"turn", "test", "edit"}]

Editing(u) == kind[u] = "edit" /\ step[u] \in {"write", "drop slot", "drop fail"}

\* The settings' lock is held by the one request that edits.
ConfigLocked ==
  \A u \in Users : 
    /\ kind[u] = "edit" => step[u] \in {"idle", "write", "drop slot", "drop fail"}
    /\ step[u] = "write" => kind[u] = "edit"
    /\ kind[u] = "turn" => step[u] \notin {"drop slot", "drop fail"}
    /\ Editing(u) => config
    /\ \A w \in Users : Editing(u) /\ Editing(w) => u = w

\* Either a save has yet to drop the session, or all who connect do it with the configuration
\* in the file, and so did the session unless another was written elsewhere.
Dropping == \E e \in Users : kind[e] = "edit" /\ step[e] = "drop slot"

Fresh == (unseen \/ slot = NoSession \/ slot.of = file) /\ ~StaleConnect

ManagerInv == ManagerTypes /\ ConfigLocked /\ (~raced => Dropping \/ Fresh)

\* A file without a session and nobody at work.
LEMMA ManagerInitInv == ManagerInit => ManagerInv
<1> SUFFICES ASSUME ManagerInit PROVE ManagerInv OBVIOUS
<1>1. ManagerTypes
  BY McpManagerAssumption DEF ManagerInit, ManagerTypes, NoSession, Session
<1>2. ConfigLocked
  BY DEF ManagerInit, ConfigLocked, Editing
<1>3. Fresh
  BY DEF ManagerInit, Fresh, StaleConnect
<1> QED BY <1>1, <1>2, <1>3 DEF ManagerInv

\* Every step keeps the shape of the state.
LEMMA ManagerTypesStep ==
  ManagerTypes /\ [ManagerNext]_managerVars => ManagerTypes'
<1> SUFFICES ASSUME ManagerTypes, [ManagerNext]_managerVars PROVE ManagerTypes'
  OBVIOUS
<1> USE DEF ManagerTypes
<1>1. ASSUME NEW u \in Users, Connect(u) PROVE ManagerTypes'
  <2>0. StillUnseen(u) \in BOOLEAN BY DEF StillUnseen
  <2>1. CASE LookUp(u) BY <2>0, <2>1 DEF LookUp, At, Connecting
  <2>2. CASE CheckFail(u) BY <2>2 DEF CheckFail, At, Connecting
  <2>3. CASE OpenSucceeds(u) BY <2>3 DEF OpenSucceeds, At, Connecting
  <2>4. CASE OpenFails(u) BY <2>4 DEF OpenFails, At, Connecting
  <2>5. CASE ClearFail(u) BY <2>5 DEF ClearFail, At, Connecting
  <2>6. CASE Install(u) BY <2>0, <2>6 DEF Install, At, Connecting, Session
  <2>7. CASE RecordFail(u) BY <2>7 DEF RecordFail, At, Connecting
  <2> QED BY <1>1, <2>1, <2>2, <2>3, <2>4, <2>5, <2>6, <2>7 DEF Connect
<1>2. ASSUME NEW u \in Users, Settle(u) PROVE ManagerTypes'
  <2>1. CASE WriteFile(u) BY <2>1 DEF WriteFile, At
  <2>2. CASE WriteFileFails(u) BY <2>2 DEF WriteFileFails, At
  <2>3. CASE DropSlot(u)
    <3>1. slot' \in [of : Versions \union {Absent}, up : BOOLEAN]
      BY <2>3 DEF DropSlot, NoSession, Session
    <3>2. (raced \/ (kind[u] = "edit" /\ StaleConnect)) \in BOOLEAN
      OBVIOUS
    <3>3. raced' \in BOOLEAN
      BY <2>3, <3>2 DEF DropSlot
    <3> QED BY <2>3, <3>1, <3>3 DEF DropSlot, At
  <2>4. CASE DropFail(u) BY <2>4 DEF DropFail, At, Connecting
  <2> QED BY <1>2, <2>1, <2>2, <2>3, <2>4 DEF Settle
<1>3. ASSUME NEW u \in Users, Attach(u) \/ Test(u) \/ Edit(u) \/ End(u) PROVE ManagerTypes'
  <2>1. CASE Attach(u) BY <2>1 DEF Attach, At, Connecting
  <2>2. CASE Test(u) BY <2>2 DEF Test, At
  <2>3. CASE Edit(u) BY ZenonT(60), <2>3 DEF Edit, At
  <2>4. CASE End(u) BY <2>4 DEF End, At
  <2> QED BY <1>3, <2>1, <2>2, <2>3, <2>4
<1>4. ASSUME NEW u \in Users, GiveUp(u) \/ Abandon(u) PROVE ManagerTypes'
  <2>1. CASE GiveUp(u) BY <2>1 DEF GiveUp, At
  <2>2. CASE Abandon(u) BY <2>2 DEF Abandon, At
  <2> QED BY <1>4, <2>1, <2>2
<1>5. CASE Expire BY <1>5 DEF Expire
<1>6. CASE ChildDies BY <1>6 DEF ChildDies, Session
<1>7. CASE UNCHANGED managerVars BY <1>7 DEF managerVars
<1>8. CASE Elsewhere
  <2>1. raced' \in BOOLEAN /\ unseen' \in BOOLEAN
    BY Zenon, <1>8 DEF Elsewhere
  <2>2. file' \in Versions \union {Absent} /\ UNCHANGED <<slot, config, step, mine, kind>>
    BY <1>8 DEF Elsewhere
  <2> QED BY <2>1, <2>2
<1> QED BY <1>1, <1>2, <1>3, <1>4, <1>5, <1>6, <1>7, <1>8 DEF ManagerNext

\* One user moves: it edits only with the lock, and alone.
LEMMA OneEditor ==
  ASSUME ConfigLocked, config \in BOOLEAN, config' \in BOOLEAN, NEW u \in Users,
         \A w \in Users : w # u => step'[w] = step[w] /\ kind'[w] = kind[w],
         Editing(u)' => config',
         config' = config \/ \A w \in Users \ {u} : ~Editing(w),
         Editing(u)' => \A w \in Users \ {u} : ~Editing(w),
         kind'[u] = "edit" => step'[u] \in {"idle", "write", "drop slot", "drop fail"},
         step'[u] = "write" => kind'[u] = "edit",
         kind'[u] = "turn" => step'[u] \notin {"drop slot", "drop fail"}
  PROVE  ConfigLocked'
<1>1. \A w \in Users \ {u} : Editing(w)' = Editing(w)
  BY DEF Editing
<1>2. ASSUME NEW w \in Users, NEW x \in Users, Editing(w)', Editing(x)' PROVE w = x
  BY <1>1, <1>2 DEF ConfigLocked
<1>3. ASSUME NEW w \in Users, Editing(w)' PROVE config'
  <2>1. CASE w = u BY <1>3, <2>1 DEF Editing
  <2>2. CASE w # u
    <3>1. Editing(w) BY <1>3, <2>2 DEF Editing
    <3> QED BY <2>2, <3>1 DEF ConfigLocked
  <2> QED BY <2>1, <2>2
<1>4. ASSUME NEW w \in Users
      PROVE  /\ kind'[w] = "edit" => step'[w] \in {"idle", "write", "drop slot", "drop fail"}
             /\ step'[w] = "write" => kind'[w] = "edit"
             /\ kind'[w] = "turn" => step'[w] \notin {"drop slot", "drop fail"}
  BY DEF ConfigLocked
<1> QED BY <1>2, <1>3, <1>4 DEF ConfigLocked

\* Only the holder of the lock is between the write of the file and the drop of its session.
LEMMA ConfigLockedStep ==
  ManagerTypes /\ ConfigLocked /\ [ManagerNext]_managerVars => ConfigLocked'
<1> SUFFICES ASSUME ManagerTypes, ConfigLocked, [ManagerNext]_managerVars PROVE ConfigLocked'
  OBVIOUS
<1>0. config \in BOOLEAN /\ config' \in BOOLEAN
  BY ManagerTypesStep DEF ManagerTypes
<1>1. ASSUME NEW u \in Users, Connect(u) \/ End(u) \/ Attach(u) \/ Test(u) \/ GiveUp(u)
      PROVE  ConfigLocked'
  <2>1. ~Editing(u) /\ ~Editing(u)' /\ config' = config
    BY <1>1 DEF Connect, LookUp, CheckFail, OpenSucceeds, OpenFails, ClearFail, Install,
                RecordFail, End, Attach, Test, GiveUp, At, Editing, ManagerTypes, ConfigLocked,
                Connecting
  <2>2. \A w \in Users : w # u => step'[w] = step[w] /\ kind'[w] = kind[w]
    BY <1>1 DEF Connect, LookUp, CheckFail, OpenSucceeds, OpenFails, ClearFail, Install,
                RecordFail, End, Attach, Test, GiveUp, At, ManagerTypes
  <2>3. /\ kind'[u] = "edit" => step'[u] = "idle"
        /\ step'[u] # "write"
        /\ kind'[u] = "turn" => step'[u] \notin {"drop slot", "drop fail"}
    <3>1. CASE Connect(u)
      BY <3>1 DEF Connect, LookUp, CheckFail, OpenSucceeds, OpenFails, ClearFail, Install,
                RecordFail, At, ManagerTypes, ConfigLocked
    <3>2. CASE End(u) \/ Attach(u) \/ Test(u) \/ GiveUp(u)
      BY <3>2 DEF End, Attach, Test, GiveUp, At, ManagerTypes, ConfigLocked
    <3> QED BY <1>1, <3>1, <3>2
  <2> QED BY <2>1, <2>2, <2>3, <1>0, OneEditor
<1>2. ASSUME NEW u \in Users, Edit(u) PROVE ConfigLocked'
  <2>1. \A w \in Users : ~Editing(w)
    BY <1>2 DEF Edit, ConfigLocked
  <2>2. config' /\ step'[u] = "write" /\ kind'[u] = "edit"
    BY <1>2 DEF Edit, At, ManagerTypes
  <2>3. \A w \in Users : w # u => step'[w] = step[w] /\ kind'[w] = kind[w]
    BY <1>2 DEF Edit, At, ManagerTypes
  <2> QED BY <2>1, <2>2, <2>3, <1>0, OneEditor
<1>3. ASSUME NEW u \in Users, Settle(u) \/ Abandon(u) PROVE ConfigLocked'
  <2>1. CASE kind[u] = "edit"
    <3>0. kind' = kind
      BY <1>3 DEF Settle, WriteFile, WriteFileFails, DropSlot, DropFail, Abandon
    <3>1. \A w \in Users \ {u} : ~Editing(w) /\ step'[w] = step[w]
      BY ZenonT(60), <1>3, <2>1 DEF Settle, WriteFile, WriteFileFails, DropSlot, DropFail, Abandon, At,
                        ConfigLocked, Editing, ManagerTypes
    <3>2. Editing(u)' => config'
      BY <1>3, <2>1 DEF Settle, WriteFile, WriteFileFails, DropSlot, DropFail, Abandon, At,
                        ConfigLocked, Editing, ManagerTypes
    <3>3. step'[u] \in {"idle", "drop slot", "drop fail"} /\ kind'[u] = "edit"
      BY <1>3, <2>1 DEF Settle, WriteFile, WriteFileFails, DropSlot, DropFail, Abandon, At,
                        ManagerTypes
    <3> QED BY <3>0, <3>1, <3>2, <3>3, <1>0, OneEditor
  <2>2. CASE kind[u] # "edit"
    <3>1. kind' = kind /\ config' = config /\ \A w \in Users \ {u} : step'[w] = step[w]
      BY <1>3, <2>2 DEF Settle, WriteFile, WriteFileFails, DropSlot, DropFail, Abandon, At,
                        ConfigLocked, ManagerTypes
    <3>2. step'[u] \in {"drop fail", "connect", "idle"} /\ step[u] \in {"drop slot", "drop fail"}
      BY <1>3, <2>2 DEF Settle, WriteFile, WriteFileFails, DropSlot, DropFail, Abandon, At,
                        ConfigLocked, ManagerTypes
    <3>3. ~Editing(u) /\ ~Editing(u)' /\ (kind'[u] = "turn" => step'[u] \notin {"drop slot", "drop fail"})
      BY <2>2, <3>1, <3>2 DEF Editing, ConfigLocked, ManagerTypes
    <3> QED BY <2>2, <3>1, <3>2, <3>3, <1>0, OneEditor
  <2> QED BY <2>1, <2>2
<1>4. ASSUME Expire \/ ChildDies \/ Elsewhere \/ UNCHANGED managerVars PROVE ConfigLocked'
  <2>1. step' = step /\ kind' = kind /\ config' = config
    BY <1>4 DEF Expire, ChildDies, Elsewhere, managerVars
  <2> QED BY <2>1 DEF ConfigLocked, Editing
<1> QED BY <1>1, <1>2, <1>3, <1>4 DEF ManagerNext

\* A step of one user that leaves the file alone and the session as it was, or drops it, and
\* makes nobody connect with an old configuration.
LEMMA FreshKept ==
  ASSUME Fresh, file' = file, slot' = NoSession \/ slot'.of = slot.of \/ slot'.of = file,
         slot = NoSession => slot' = NoSession \/ slot'.of = file,
         unseen => unseen' \/ slot' = NoSession \/ slot'.of = file,
         \A u \in Users : kind'[u] # "edit" /\ step'[u] \notin {"idle", "connected"} =>
           mine'[u] = file \/
             (kind[u] # "edit" /\ step[u] \notin {"idle", "connected"} /\ mine'[u] = mine[u])
  PROVE  Fresh'
<1>1. \A u \in Users : kind'[u] # "edit" /\ step'[u] \notin {"idle", "connected"} => mine'[u] = file
  BY DEF Fresh, StaleConnect
<1> QED BY <1>1 DEF Fresh, StaleConnect, NoSession, Session

\* Every step keeps the session of the file's configuration, or somebody about to drop it.
LEMMA FreshStep ==
  ManagerTypes /\ ConfigLocked /\ (~raced => Dropping \/ Fresh) /\ [ManagerNext]_managerVars
    => (~raced' => Dropping' \/ Fresh')
<1> SUFFICES ASSUME ManagerTypes, ConfigLocked, ~raced => Dropping \/ Fresh,
                    [ManagerNext]_managerVars, ~raced'
             PROVE  Dropping' \/ Fresh'
  OBVIOUS
<1>1. ASSUME NEW u \in Users, Connect(u) \/ End(u) \/ Attach(u) \/ Test(u) \/ GiveUp(u) \/ Edit(u)
      PROVE  Dropping' \/ Fresh'
  <2>a. raced' = raced /\ file' = file
    <3>1. CASE Connect(u)
      BY <3>1 DEF Connect, LookUp, CheckFail, OpenSucceeds, OpenFails, ClearFail, Install,
                  RecordFail
    <3>2. CASE ~Connect(u)
      BY <1>1, <3>2 DEF End, Attach, Test, GiveUp, Edit
    <3> QED BY <3>1, <3>2
  <2>1. ~raced /\ file' = file
    BY <2>a
  <2>2. kind[u] = "edit" => step[u] # "drop slot"
    BY <1>1 DEF Connect, LookUp, CheckFail, OpenSucceeds, OpenFails, ClearFail, Install,
                RecordFail, End, Attach, Test, GiveUp, Edit, At
  <2>3. \A w \in Users \ {u} : step'[w] = step[w] /\ kind'[w] = kind[w] /\ mine'[w] = mine[w]
    BY <1>1 DEF Connect, LookUp, CheckFail, OpenSucceeds, OpenFails, ClearFail, Install,
                RecordFail, End, Attach, Test, GiveUp, Edit, At, ManagerTypes
  <2>4. CASE Dropping
    BY <2>2, <2>3, <2>4 DEF Dropping
  <2>5. CASE Fresh
    <3>1. \/ kind'[u] = "edit" \/ step'[u] \in {"idle", "connected"}
          \/ mine'[u] = file
          \/ kind[u] # "edit" /\ step[u] \notin {"idle", "connected"} /\ mine'[u] = mine[u]
      <4>1. CASE Connect(u)
        BY <4>1 DEF Connect, LookUp, CheckFail, OpenSucceeds, OpenFails, ClearFail, Install,
                RecordFail, At, ManagerTypes, ConfigLocked
      <4>2. CASE End(u) \/ GiveUp(u)
        BY <4>2 DEF End, GiveUp, At, ManagerTypes
      <4>3. CASE Attach(u) \/ Test(u) \/ Edit(u)
        BY <4>3 DEF Attach, Test, Edit, ManagerTypes
      <4> QED BY <1>1, <4>1, <4>2, <4>3
    <3>2. (slot' = slot /\ unseen' = unseen) \/ slot'.of = file
      <4>1. CASE Install(u)
        <5>1. kind[u] # "edit" /\ step[u] = "cleared"
          BY <4>1 DEF Install, At, ConfigLocked
        <5>2. mine[u] = file
          BY <5>1, <2>5 DEF Fresh, StaleConnect
        <5> QED BY <4>1, <5>2 DEF Install, Session
      <4>2. CASE LookUp(u) /\ Reusable(mine[u]) /\ mine[u] = file
        BY <4>2 DEF LookUp, Reusable
      <4>3. CASE LookUp(u) /\ ~(Reusable(mine[u]) /\ mine[u] = file)
        BY <4>3 DEF LookUp, StillUnseen, ManagerTypes
      <4>4. CASE ~Install(u) /\ ~LookUp(u)
        BY <1>1, <4>4 DEF Connect, CheckFail, OpenSucceeds, OpenFails, ClearFail,
                RecordFail, End, Attach, Test, GiveUp, Edit
      <4> QED BY <4>1, <4>2, <4>3, <4>4
    <3> QED BY <2>1, <2>3, <2>5, <3>1, <3>2, FreshKept
  <2> QED BY <2>1, <2>4, <2>5
<1>2. ASSUME NEW u \in Users, WriteFile(u) PROVE Dropping'
  BY <1>2 DEF WriteFile, At, Dropping, ConfigLocked, ManagerTypes
<1>3. ASSUME NEW u \in Users, WriteFileFails(u) \/ DropFail(u) PROVE Dropping' \/ Fresh'
  <2>a. /\ raced' = raced /\ file' = file /\ slot' = slot /\ mine' = mine /\ kind' = kind
        /\ unseen' = unseen
    BY <1>3 DEF WriteFileFails, DropFail
  <2>1. ~raced /\ file' = file /\ slot' = slot /\ mine' = mine /\ kind' = kind /\ unseen' = unseen
    BY <2>a
  <2>2. step[u] # "drop slot" /\ \A w \in Users \ {u} : step'[w] = step[w]
    BY <1>3 DEF WriteFileFails, DropFail, At, ManagerTypes
  <2>3. CASE Dropping
    BY <2>1, <2>2, <2>3 DEF Dropping
  <2>4. CASE Fresh
    <3>1. step'[u] = "idle" \/ step[u] = "drop fail"
      BY <1>3 DEF WriteFileFails, DropFail, At, ManagerTypes
    <3> QED BY <2>1, <2>2, <2>4, <3>1, FreshKept
  <2> QED BY <2>1, <2>3, <2>4
<1>4. ASSUME NEW u \in Users, DropSlot(u) PROVE Dropping' \/ Fresh'
  <2>1. ~raced /\ (kind[u] = "edit" => ~StaleConnect)
    BY <1>4 DEF DropSlot, ManagerTypes
  <2>2. file' = file /\ slot' = NoSession /\ mine' = mine /\ kind' = kind
    BY <1>4 DEF DropSlot
  <2>3. step[u] = "drop slot" /\ \A w \in Users \ {u} : step'[w] = step[w]
    BY <1>4 DEF DropSlot, At, ManagerTypes
  <2>4. CASE kind[u] = "edit"
    <3>1. ~StaleConnect'
      BY <2>1, <2>2, <2>3, <2>4 DEF StaleConnect
    <3> QED BY <2>2, <3>1 DEF Fresh, NoSession
  <2>5. CASE kind[u] # "edit" /\ Dropping
    BY <2>2, <2>3, <2>5 DEF Dropping
  <2>6. CASE kind[u] # "edit" /\ Fresh
    BY <2>2, <2>3, <2>6, FreshKept
  <2> QED BY <2>1, <2>4, <2>5, <2>6
<1>5. ASSUME NEW u \in Users, Abandon(u) PROVE FALSE
  BY <1>5 DEF Abandon
<1>6. ASSUME Expire \/ ChildDies \/ UNCHANGED managerVars PROVE Dropping' \/ Fresh'
  <2>a. /\ raced' = raced /\ file' = file /\ step' = step /\ mine' = mine /\ kind' = kind
        /\ unseen' = unseen
    BY <1>6 DEF Expire, ChildDies, managerVars
  <2>1. ~raced /\ file' = file /\ step' = step /\ mine' = mine /\ kind' = kind /\ unseen' = unseen
    BY <2>a
  <2>2. slot' = slot \/ (slot.up /\ slot'.of = slot.of)
    BY <1>6 DEF Expire, ChildDies, managerVars, Session
  <2>3. CASE Dropping
    BY <2>1, <2>3 DEF Dropping
  <2>4. CASE Fresh
    <3>1. slot = NoSession => slot' = NoSession
      BY <2>2 DEF NoSession, Session
    <3> QED BY <2>1, <2>2, <2>4, <3>1, FreshKept
  <2> QED BY <2>1, <2>3, <2>4
<1>7. CASE Elsewhere
  <2>1. raced' = (raced \/ StaleConnect') /\ slot' = slot /\ unseen' = (slot # NoSession)
    BY <1>7 DEF Elsewhere
  <2>2. ~StaleConnect'
    BY <2>1
  <2>3. unseen' \/ slot' = NoSession
    BY <2>1
  <2> QED BY <2>2, <2>3 DEF Fresh
<1> QED BY <1>1, <1>2, <1>3, <1>4, <1>5, <1>6, <1>7 DEF ManagerNext, Settle

\* A session that waits in the table when nobody edits is of the file's configuration, whatever
\* the users, their turns and the children that die, unless it raced with the file's change or
\* is yet to see what the ira command or another process wrote.
THEOREM TableServesTheFile == ManagerSpec => []ServesTheFile
<1>1. ManagerInit => ManagerInv BY ManagerInitInv
<1>2. ManagerInv /\ [ManagerNext]_managerVars => ManagerInv'
  BY ManagerTypesStep, ConfigLockedStep, FreshStep DEF ManagerInv
<1>3. ManagerInv => ServesTheFile
  BY DEF ManagerInv, ConfigLocked, Editing, Dropping, Fresh, ServesTheFile
<1> QED BY <1>1, <1>2, <1>3, PTL DEF ManagerSpec
=============================================================================
