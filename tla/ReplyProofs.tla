---------------------------- MODULE ReplyProofs -----------------------------
(***************************************************************************)
(* Proofs about a reply, from the model to the page.                       *)
(*                                                                         *)
(* About ToolLoop, for any registry, any number of rounds, calls and       *)
(* fragments: the type invariant, that the history sent to a provider      *)
(* always pairs the requests for tools with their results, and that the    *)
(* events of a turn implement ReplyStream.                                 *)
(*                                                                         *)
(* About StreamRelay, for queues of any depth and turns of any length:     *)
(* that the page acts on a prefix of the events the turn sent and the rest *)
(* is on its way while the connection is up, and that a page that trusts a *)
(* reply has read all of it.                                               *)
(***************************************************************************)
EXTENDS ToolLoop, StreamRelay, Integers, SequenceTheorems, TLAPS

\* A response to the current round is a sequence of calls.
LEMMA ResponsesType ==
  ASSUME TypeOK
  PROVE  Responses \subseteq Seq(Call)
<1>1. SUFFICES ASSUME NEW n \in 0..MaxCalls, NEW ns \in [1..n -> Names]
               PROVE  [k \in DOMAIN ns |-> [round |-> round, place |-> k, tool |-> ns[k]]]
                        \in Seq(Call)
  BY DEF Responses
<1>2. round \in Nat
  BY DEF TypeOK
<1>3. [k \in 1..n |-> [round |-> round, place |-> k, tool |-> ns[k]]] \in [1..n -> Call]
  BY <1>2 DEF Call
<1>4. n \in Nat
  BY ToolLoopAssumption
<1>. QED
  BY <1>3, <1>4

\* The events of one step are events.
LEMMA EventType ==
  ASSUME TypeOK, NEW type \in {"delta", "reset", "mcp_used", "memory"}, NEW place \in Nat
  PROVE  EventOf(type, place) \in Event
BY ToolLoopAssumption DEF TypeOK, EventOf, Event

\* Emitted events keep the type of the stream.
LEMMA EmitType ==
  ASSUME TypeOK, NEW evs \in Seq(Event), Emit(evs)
  PROVE  events' \in Seq(Event)
<1>1. events \o evs \in Seq(Event)
  BY DEF TypeOK
<1>. QED
  BY <1>1 DEF TypeOK, Emit

\* One event, or none, is a sequence of events.
LEMMA FewEvents ==
  /\ <<>> \in Seq(Event)
  /\ \A e \in Event : <<e>> \in Seq(Event)
OBVIOUS

\* The calls of a message in the context are calls.
LEMMA CallsType ==
  ASSUME TypeOK, NEW i \in 1..Len(messages)
  PROVE  messages[i].calls \in Seq(Call)
<1>1. messages[i] \in Message
  BY DEF TypeOK
<1>. QED
  BY <1>1 DEF Message

\* What the loop adds to the context are messages.
LEMMA MessageType ==
  /\ UserMessage \in Message
  /\ \A cs \in Seq(Call) : AssistantTools(cs) \in Message
  /\ \A c \in Call : ToolMessage(c) \in Message
<1>1. <<>> \in Seq(Call)
  OBVIOUS
<1>2. NoCall \in Call
  BY DEF NoCall, Call, Names
<1>. QED
  BY <1>1, <1>2 DEF UserMessage, AssistantTools, ToolMessage, Message, Roles

\* The type invariant holds in every reachable state.
THEOREM TypeCorrect == Spec => []TypeOK
<1>1. Init => TypeOK
  <2>1. <<UserMessage>> \in Seq(Message)
    BY MessageType
  <2>2. /\ 0 \in 0..(MaxRounds - 1)
        /\ 0 \in 0..MaxDeltas
        /\ <<>> \in Seq(Call) /\ <<>> \in Seq(Event)
        /\ 1 \in 1..(Len(<<>>) + 1)
    BY ToolLoopAssumption
  <2>. QED
    BY <2>1, <2>2 DEF Init, TypeOK
<1>2. TypeOK /\ [Next]_vars => TypeOK'
  <2> SUFFICES ASSUME TypeOK, [Next]_vars
               PROVE  TypeOK'
    OBVIOUS
  <2> USE ToolLoopAssumption
  <2>1. CASE Start
    BY <2>1 DEF Start, TypeOK, Hinted
  <2>2. CASE Delta
    <3>1. PICK empty \in BOOLEAN :
            /\ Emit(IF empty /\ ~Passthrough THEN <<>> ELSE <<EventOf("delta", 0)>>)
            /\ emitted' = (emitted \/ (~empty /\ ~Passthrough))
      BY <2>2 DEF Delta
    <3>2. events' \in Seq(Event)
      <4>1. EventOf("delta", 0) \in Event
        BY EventType
      <4>2. <<>> \in Seq(Event) /\ <<EventOf("delta", 0)>> \in Seq(Event)
        BY <4>1, FewEvents
      <4>3. CASE empty /\ ~Passthrough
        <5>1. Emit(<<>>)
          BY <3>1, <4>3
        <5>. QED
          BY <4>2, <5>1, EmitType
      <4>4. CASE ~(empty /\ ~Passthrough)
        <5>1. Emit(<<EventOf("delta", 0)>>)
          BY <3>1, <4>4
        <5>. QED
          BY <4>2, <5>1, EmitType
      <4>. QED
        BY <4>3, <4>4
    <3>3. emitted' \in BOOLEAN
      BY <3>1, Zenon
    <3>4. deltas' \in 0..MaxDeltas
      BY <2>2 DEF Delta, TypeOK
    <3>. QED
      BY <2>2, <3>2, <3>3, <3>4 DEF Delta, TypeOK
  <2>3. CASE ProviderFails
    BY <2>3 DEF ProviderFails, TypeOK
  <2>4. CASE Answer
    BY <2>4 DEF Answer, TypeOK
  <2>5. CASE RequestTools
    <3>1. PICK cs \in Responses \ {<<>>} :
            calls' = cs /\ messages' = Append(messages, AssistantTools(cs))
      BY <2>5 DEF RequestTools
    <3>2. cs \in Seq(Call)
      BY <3>1, ResponsesType
    <3>3. messages' \in Seq(Message)
      BY <3>1, <3>2, MessageType DEF TypeOK
    <3>4. events' \in Seq(Event)
      <4>1. EventOf("reset", 0) \in Event
        BY EventType
      <4>2. ResetMarker \in Seq(Event)
        BY <4>1, FewEvents DEF ResetMarker
      <4>3. Emit(ResetMarker)
        BY <2>5 DEF RequestTools
      <4>. QED
        BY <4>2, <4>3, EmitType
    <3>. QED
      BY <2>5, <3>1, <3>2, <3>3, <3>4 DEF RequestTools, TypeOK
  <2>6. CASE CallTool
    <3>1. PICK out \in Outcomes(calls[cursor].tool) :
            /\ Emit(Announce(calls[cursor]) \o MemoryNote(out))
            /\ messages' = messages \o Result(calls[cursor], out)
      BY <2>6 DEF CallTool
    <3>2. calls[cursor] \in Call
      BY <2>6 DEF CallTool, TypeOK
    <3>3. cursor \in Nat
      BY DEF TypeOK
    <3>4. events' \in Seq(Event)
      <4>1. EventOf("mcp_used", cursor) \in Event /\ EventOf("memory", cursor) \in Event
        BY <3>3, EventType
      <4>2. Announce(calls[cursor]) \in Seq(Event)
        BY <4>1, FewEvents DEF Announce
      <4>3. MemoryNote(out) \in Seq(Event)
        BY <4>1, FewEvents DEF MemoryNote
      <4>4. Announce(calls[cursor]) \o MemoryNote(out) \in Seq(Event)
        BY <4>2, <4>3
      <4>. QED
        BY <3>1, <4>4, EmitType
    <3>5. messages' \in Seq(Message)
      BY <3>1, <3>2, MessageType DEF TypeOK, Result
    <3>. QED
      BY <2>6, <3>4, <3>5 DEF CallTool, TypeOK
  <2>7. CASE AskAgain
    <3>1. round' \in 0..(MaxRounds - 1)
      BY <2>7 DEF AskAgain, MoreRounds, TypeOK
    <3>2. deltas' \in 0..MaxDeltas
      BY <2>7 DEF AskAgain
    <3>. QED
      BY <2>7, <3>1, <3>2 DEF AskAgain, TypeOK
  <2>8. CASE GiveUp
    BY <2>8 DEF GiveUp, TypeOK
  <2>9. CASE UNCHANGED vars
    BY <2>9 DEF vars, TypeOK
  <2>. QED
    BY <2>1, <2>2, <2>3, <2>4, <2>5, <2>6, <2>7, <2>8, <2>9 DEF Next
<1>. QED
  BY <1>1, <1>2, PTL DEF Spec

----------------------------------------------------------------------------
\* The request whose calls are running is where the cursor says it is.
RunningRequest ==
  pc = "calling" =>
    /\ cursor <= Len(messages)
    /\ messages[Len(messages) - cursor + 1] = AssistantTools(calls)

\* No result stands without the request that it answers.
NoOrphanResult ==
  \A i \in 1..Len(messages) :
    messages[i].role = "tool" =>
      \E j \in 1..(i - 1) : Asks(j) /\ i - j <= Len(messages[j].calls)

\* The inductive strengthening of PairedHistory.
HistoryInv == PairedHistory /\ NoOrphanResult /\ RunningRequest

\* A request whose results are all there stays so when the history grows.
LEMMA AnsweredStays ==
  ASSUME TypeOK, NEW i \in 1..Len(messages), Answered(i),
         i + Len(messages[i].calls) <= Len(messages),
         Len(messages') = Len(messages) + 1,
         \A j \in 1..Len(messages) : messages'[j] = messages[j]
  PROVE  Answered(i)' /\ Complete(i)'
<1>1. messages[i].calls \in Seq(Call)
  BY CallsType
<1>2. Len(messages) \in Nat
  BY DEF TypeOK
<1>3. messages'[i].calls = messages[i].calls
  OBVIOUS
<1>4. ASSUME NEW k \in 1..Len(messages'[i].calls)
      PROVE  messages'[i + k] = ToolMessage(messages'[i].calls[k])
  <2>1. k \in 1..Len(messages[i].calls) /\ i + k \in 1..Len(messages)
    BY <1>1, <1>2, <1>3
  <2>2. messages[i + k] = ToolMessage(messages[i].calls[k])
    BY <1>2, <2>1 DEF Answered
  <2>. QED
    BY <1>3, <2>1, <2>2
<1>5. Answered(i)'
  BY <1>4 DEF Answered
<1>6. Complete(i)'
  BY <1>1, <1>2, <1>3 DEF Complete
<1>. QED
  BY <1>5, <1>6

\* A request for tools keeps the history paired: it is appended only when no
\* earlier request misses a result.
LEMMA RequestKeepsHistory ==
  ASSUME TypeOK, HistoryInv, RequestTools
  PROVE  HistoryInv'
<1>1. PICK cs \in Responses \ {<<>>} :
        calls' = cs /\ messages' = Append(messages, AssistantTools(cs))
  BY DEF RequestTools
<1>2. /\ messages \in Seq(Message)
      /\ Len(messages') = Len(messages) + 1
      /\ \A i \in 1..Len(messages) : messages'[i] = messages[i]
      /\ messages'[Len(messages) + 1] = AssistantTools(cs)
  BY <1>1 DEF TypeOK
<1>3. /\ pc' = "calling"
      /\ cursor' = 1
      /\ pc = "asking"
  BY DEF RequestTools
<1>4. cs \in Seq(Call)
  BY <1>1, ResponsesType
<1>5. \A i \in 1..Len(messages) : messages[i].calls \in Seq(Call)
  BY CallsType
<1>6. PairedHistory'
  <2> SUFFICES ASSUME NEW i \in 1..Len(messages'), Asks(i)'
               PROVE  Answered(i)' /\ Complete(i)'
    BY DEF PairedHistory
  <2>1. CASE i \in 1..Len(messages)
    <3>1. Asks(i)
      BY <1>2, <2>1 DEF Asks
    <3>2. Answered(i) /\ i + Len(messages[i].calls) <= Len(messages)
      BY <1>3, <2>1, <3>1 DEF HistoryInv, PairedHistory, Complete
    <3>. QED
      BY <1>2, <2>1, <3>2, AnsweredStays
  <2>2. CASE i = Len(messages) + 1
    BY <1>2, <1>3, <1>4, <2>2 DEF Answered, Complete, AssistantTools
  <2>. QED
    BY <1>2, <2>1, <2>2
<1>7. NoOrphanResult'
  <2> SUFFICES ASSUME NEW i \in 1..Len(messages'), messages'[i].role = "tool"
               PROVE  \E j \in 1..(i - 1) : Asks(j)' /\ i - j <= Len(messages'[j].calls)
    BY DEF NoOrphanResult
  <2>1. i \in 1..Len(messages)
    BY <1>2 DEF AssistantTools
  <2>2. PICK j \in 1..(i - 1) : Asks(j) /\ i - j <= Len(messages[j].calls)
    BY <1>2, <2>1 DEF HistoryInv, NoOrphanResult
  <2>3. messages'[j] = messages[j]
    BY <1>2, <2>1
  <2>. QED
    BY <2>2, <2>3 DEF Asks
<1>8. RunningRequest'
  BY <1>1, <1>2, <1>3 DEF RunningRequest
<1>. QED
  BY <1>6, <1>7, <1>8 DEF HistoryInv

\* Running a tool keeps the history paired: its message is the next one the
\* running request waits for.
LEMMA CallKeepsHistory ==
  ASSUME TypeOK, HistoryInv, CallTool
  PROVE  HistoryInv'
<1> DEFINE r == Len(messages) - cursor + 1
<1>1. messages' = Append(messages, ToolMessage(calls[cursor]))
  BY DEF CallTool, Result, TypeOK
<1>2. /\ messages \in Seq(Message)
      /\ Len(messages') = Len(messages) + 1
      /\ \A i \in 1..Len(messages) : messages'[i] = messages[i]
      /\ messages'[Len(messages) + 1] = ToolMessage(calls[cursor])
  BY <1>1 DEF TypeOK
<1>3. /\ pc = "calling" /\ pc' = "calling"
      /\ cursor \in 1..Len(calls)
      /\ cursor' = cursor + 1
      /\ calls' = calls
      /\ calls \in Seq(Call)
  BY DEF CallTool, TypeOK
<1>4. /\ r \in 1..Len(messages)
      /\ messages[r] = AssistantTools(calls)
  BY <1>2, <1>3 DEF HistoryInv, RunningRequest
<1>5. \A i \in 1..Len(messages) : messages[i].calls \in Seq(Call)
  BY CallsType
<1>6. PairedHistory'
  <2> SUFFICES ASSUME NEW i \in 1..Len(messages'), Asks(i)'
               PROVE  Answered(i)' /\ Complete(i)'
    BY DEF PairedHistory
  <2>1. i \in 1..Len(messages) /\ Asks(i)
    BY <1>2 DEF Asks, ToolMessage
  <2>2. Answered(i) /\ Complete(i)
    BY <2>1 DEF HistoryInv, PairedHistory
  <2>3. CASE i = r
    <3>1. messages[i].calls = calls
      BY <1>4, <2>3 DEF AssistantTools
    <3>2. ASSUME NEW k \in 1..Len(calls), i + k <= Len(messages) + 1
          PROVE  messages'[i + k] = ToolMessage(calls[k])
      <4>1. CASE i + k <= Len(messages)
        <5>1. messages[i + k] = ToolMessage(calls[k])
          BY <2>2, <3>1, <3>2, <4>1 DEF Answered
        <5>2. i + k \in 1..Len(messages)
          BY <1>2, <4>1
        <5>. QED
          BY <1>2, <5>1, <5>2
      <4>2. CASE i + k = Len(messages) + 1
        <5>1. k = cursor
          BY <1>2, <1>3, <2>3, <4>2
        <5>. QED
          BY <1>2, <4>2, <5>1
      <4>. QED
        BY <1>2, <3>2, <4>1, <4>2
    <3>3. i = Len(messages') - cursor' + 1
      BY <1>2, <1>3, <2>3
    <3>. QED
      BY <1>2, <1>3, <2>1, <3>1, <3>2, <3>3 DEF Answered, Complete
  <2>4. CASE i # r
    <3>1. i + Len(messages[i].calls) <= Len(messages)
      BY <2>2, <2>4 DEF Complete
    <3>. QED
      BY <1>2, <2>1, <2>2, <3>1, AnsweredStays
  <2>. QED
    BY <2>3, <2>4
<1>7. NoOrphanResult'
  <2> SUFFICES ASSUME NEW i \in 1..Len(messages'), messages'[i].role = "tool"
               PROVE  \E j \in 1..(i - 1) : Asks(j)' /\ i - j <= Len(messages'[j].calls)
    BY DEF NoOrphanResult
  <2>1. CASE i \in 1..Len(messages)
    <3>1. PICK j \in 1..(i - 1) : Asks(j) /\ i - j <= Len(messages[j].calls)
      BY <1>2, <2>1 DEF HistoryInv, NoOrphanResult
    <3>2. messages'[j] = messages[j]
      BY <1>2, <2>1
    <3>. QED
      BY <3>1, <3>2 DEF Asks
  <2>2. CASE i = Len(messages) + 1
    <3>1. r \in 1..(i - 1) /\ i - r <= Len(calls)
      BY <1>2, <1>3, <1>4, <2>2
    <3>2. messages'[r] = AssistantTools(calls)
      BY <1>2, <1>4
    <3>3. messages'[r].role = "assistant_tools" /\ messages'[r].calls = calls
      BY <3>2 DEF AssistantTools
    <3>. QED
      BY <3>1, <3>3 DEF Asks
  <2>. QED
    BY <1>2, <2>1, <2>2
<1>8. RunningRequest'
  BY <1>2, <1>3, <1>4 DEF RunningRequest
<1>. QED
  BY <1>6, <1>7, <1>8 DEF HistoryInv

\* No step breaks the pairing of requests and results.
THEOREM HistoryCorrect == Spec => [](PairedHistory /\ NoOrphanResult)
<1>1. Init => HistoryInv
  BY DEF Init, HistoryInv, PairedHistory, NoOrphanResult, RunningRequest, Asks, UserMessage
<1>2. TypeOK /\ HistoryInv /\ [Next]_vars => HistoryInv'
  <2> SUFFICES ASSUME TypeOK, HistoryInv, [Next]_vars
               PROVE  HistoryInv'
    OBVIOUS
  <2>1. CASE RequestTools
    BY <2>1, RequestKeepsHistory
  <2>2. CASE CallTool
    BY <2>2, CallKeepsHistory
  <2>3. CASE AskAgain \/ GiveUp
    <3>1. /\ messages' = messages
          /\ pc = "calling" /\ pc' \in {"asking", "done"}
          /\ cursor > Len(calls)
      BY <2>3 DEF AskAgain, GiveUp
    <3>2. \A i \in 1..Len(messages) : Asks(i) /\ Complete(i) => Complete(i)'
      <4> SUFFICES ASSUME NEW i \in 1..Len(messages), Asks(i), Complete(i)
                   PROVE  i + Len(messages[i].calls) <= Len(messages)
        BY <3>1 DEF Complete
      <4>1. CASE i = Len(messages) - cursor + 1
        <5>1. messages[i].calls = calls
          BY <3>1, <4>1 DEF HistoryInv, RunningRequest, AssistantTools
        <5>. QED
          BY <3>1, <4>1, <5>1 DEF TypeOK
      <4>. QED
        BY <4>1 DEF Complete
    <3>3. PairedHistory'
      BY <3>1, <3>2 DEF HistoryInv, PairedHistory, Asks, Answered
    <3>. QED
      BY <3>1, <3>3 DEF HistoryInv, NoOrphanResult, RunningRequest, Asks
  <2>4. CASE Start \/ Delta \/ ProviderFails \/ Answer
    <3>1. /\ messages' = messages
          /\ pc # "calling" /\ pc' # "calling"
      BY <2>4 DEF Start, Delta, ProviderFails, Answer
    <3>. QED
      BY <3>1 DEF HistoryInv, PairedHistory, NoOrphanResult, RunningRequest, Asks,
                  Answered, Complete
  <2>5. CASE UNCHANGED vars
    BY <2>5 DEF vars, HistoryInv, PairedHistory, NoOrphanResult, RunningRequest, Asks,
                Answered, Complete
  <2>. QED
    BY <2>1, <2>2, <2>3, <2>4, <2>5 DEF Next
<1>3. HistoryInv => PairedHistory /\ NoOrphanResult
  BY DEF HistoryInv
<1>. QED
  BY <1>1, <1>2, <1>3, TypeCorrect, PTL DEF Spec

----------------------------------------------------------------------------
\* The bubble is empty where the next attempt may begin: before the first response, while tools
\* run, and as long as nothing of this response was forwarded.
BubbleInv ==
  /\ ~turn.streaming => events = <<>>
  /\ pc = "start" => events = <<>>
  /\ pc = "calling" => Shown = {} /\ ~Passthrough
  /\ pc = "asking" /\ ~Passthrough /\ ~emitted => Shown = {}

\* The fragments that survive an event: all of them and it, none, or all of them.
LEMMA ShownMoves ==
  ASSUME TypeOK, NEW event \in Event, events' = Append(events, event)
  PROVE  /\ event.type = "delta" =>
              Shown' = Shown \cup {[place |-> Len(events) + 1, attempt |-> event.round]}
         /\ event.type = "reset" => Shown' = {}
         /\ event.type \notin {"delta", "reset"} => Shown' = Shown
<1>1. PICK n \in Nat :
      /\ n = Len(events) /\ DOMAIN events = 1..n
      /\ Len(events') = n + 1 /\ DOMAIN events' = 1..(n + 1)
      /\ events'[n + 1] = event
      /\ \A i \in 1..n : events'[i] = events[i]
  BY DEF TypeOK
<1>2. \A i \in 1..n : Survives(i)' <=> Survives(i) /\ event.type # "reset"
  <2>1. ASSUME NEW i \in 1..n, Survives(i)' PROVE Survives(i) /\ event.type # "reset"
    <3>1. /\ events'[i].type = "delta"
          /\ \A j \in (i + 1)..(n + 1) : events'[j].type # "reset"
      BY <1>1, <2>1 DEF Survives
    <3>2. \A j \in (i + 1)..n : events[j].type # "reset"
      BY <1>1, <3>1
    <3>3. n + 1 \in (i + 1)..(n + 1)
      BY <1>1
    <3>. QED
      BY <1>1, <3>1, <3>2, <3>3 DEF Survives
  <2>2. ASSUME NEW i \in 1..n, Survives(i), event.type # "reset" PROVE Survives(i)'
    <3>1. events'[i].type = "delta"
      BY <1>1, <2>2 DEF Survives
    <3>2. ASSUME NEW j \in (i + 1)..(n + 1) PROVE events'[j].type # "reset"
      <4>1. CASE j = n + 1
        BY <1>1, <2>2, <4>1
      <4>2. CASE j # n + 1
        <5>1. j \in (i + 1)..n /\ j \in 1..n
          BY <1>1, <4>2
        <5>. QED
          BY <1>1, <2>2, <5>1 DEF Survives
      <4>. QED
        BY <4>1, <4>2
    <3>. QED
      BY <1>1, <3>1, <3>2 DEF Survives
  <2>. QED
    BY <2>1, <2>2
<1>3. Survives(n + 1)' <=> event.type = "delta"
  <2>1. \A j \in (Len(events') + 1)..Len(events') : FALSE
    BY <1>1
  <2>2. Len(events') = n + 1 /\ events'[Len(events')].type = event.type
    BY <1>1
  <2>. QED
    BY <2>1, <2>2 DEF Survives
<1> DEFINE Fragment(i) == [place |-> i, attempt |-> events[i].round]
           Later(i) == [place |-> i, attempt |-> events'[i].round]
<1>4. Shown = {Fragment(i) : i \in {i \in 1..n : Survives(i)}}
  BY <1>1 DEF Shown
<1>5. Shown' = {Later(i) : i \in {i \in 1..(n + 1) : Survives(i)'}}
  BY <1>1 DEF Shown
<1> DEFINE Old == {i \in 1..n : Survives(i)}
           New == {i \in 1..(n + 1) : Survives(i)'}
<1>6. /\ event.type = "delta" => New = Old \cup {n + 1}
      /\ event.type = "reset" => New = {}
      /\ event.type \notin {"delta", "reset"} => New = Old
  <2>1. \A i \in 1..(n + 1) : i \in 1..n \/ i = n + 1
    OBVIOUS
  <2>2. n + 1 \in 1..(n + 1) /\ n + 1 \notin 1..n /\ \A i \in 1..n : i \in 1..(n + 1)
    OBVIOUS
  <2>. QED
    BY <1>2, <1>3, <2>1, <2>2
<1>7. \A i \in Old : Later(i) = Fragment(i)
  BY <1>1
<1>8. Later(n + 1) = [place |-> n + 1, attempt |-> event.round]
  BY <1>1
<1>9. Shown = {Fragment(i) : i \in Old} /\ Shown' = {Later(i) : i \in New}
  BY <1>4, <1>5
<1> HIDE DEF Old, New, Fragment, Later
<1>10. event.type = "delta" => Shown' = Shown \cup {[place |-> n + 1, attempt |-> event.round]}
  BY <1>6, <1>7, <1>8, <1>9
<1>11. event.type = "reset" => Shown' = {}
  BY <1>6, <1>9
<1>12. event.type \notin {"delta", "reset"} => Shown' = Shown
  BY <1>6, <1>7, <1>9
<1>. QED
  BY <1>1, <1>10, <1>11, <1>12

\* A fragment is placed behind those that are shown.
LEMMA ShownPlaces ==
  ASSUME TypeOK
  PROVE  \A old \in Shown : old.place < Len(events) + 1
<1>1. Len(events) \in Nat /\ DOMAIN events = 1..Len(events)
  BY DEF TypeOK
<1>. QED
  BY <1>1 DEF Shown

\* The events of one step, none or one or an announcement and a note, and what they show.
LEMMA EmitShows ==
  ASSUME TypeOK
  PROVE  /\ Emit(<<>>) => events' = events
         /\ \A event \in Event : Emit(<<event>>) =>
              events' = IF turn.streaming THEN Append(events, event) ELSE events
<1>1. events \in Seq(Event)
  BY DEF TypeOK
<1>2. events \o <<>> = events
  BY <1>1
<1>3. \A event \in Event : events \o <<event>> = Append(events, event)
  BY <1>1
<1>. QED
  BY <1>2, <1>3 DEF Emit

\* Tools are announced and noted without a word shown.
LEMMA CallShowsNothing ==
  ASSUME TypeOK, CallTool
  PROVE  Shown' = Shown
<1>1. PICK out \in Outcomes(calls[cursor].tool) : Emit(Announce(calls[cursor]) \o MemoryNote(out))
  BY DEF CallTool
<1>2. events \in Seq(Event) /\ cursor \in Nat
  BY DEF TypeOK
<1> DEFINE used == EventOf("mcp_used", cursor)
           note == EventOf("memory", cursor)
<1>3. used \in Event /\ note \in Event /\ used.type = "mcp_used" /\ note.type = "memory"
  BY <1>2, EventType DEF EventOf
<1>4. Announce(calls[cursor]) \in {<<>>, <<used>>} /\ MemoryNote(out) \in {<<>>, <<note>>}
  BY DEF Announce, MemoryNote
<1> HIDE DEF used, note
<1>5. \A event \in Event : events' = Append(events, event) /\ event.type \notin {"delta", "reset"} => Shown' = Shown
  BY ShownMoves
<1>6. events' = events => Shown' = Shown
  BY DEF Shown, Survives
<1>7. Announce(calls[cursor]) = <<>> \/ MemoryNote(out) = <<>>
  BY <1>1, ToolLoopAssumption DEF Announce, MemoryNote, Outcomes
<1>8. events' = events \/ events' = Append(events, used) \/ events' = Append(events, note)
  <2>1. <<>> \o <<>> = <<>> /\ <<used>> \o <<>> = <<used>> /\ <<>> \o <<note>> = <<note>>
    BY <1>3
  <2>2. Emit(<<>>) \/ Emit(<<used>>) \/ Emit(<<note>>)
    BY <1>1, <1>4, <1>7, <2>1
  <2>. QED
    BY <1>3, <2>2, EmitShows
<1>. QED
  BY <1>3, <1>5, <1>6, <1>8

\* What a fragment does to the bubble: nothing, or it joins at the end.
LEMMA DeltaShows ==
  ASSUME TypeOK, Delta
  PROVE  /\ turn.streaming /\ (emitted => emitted')
         /\ \/ Shown' = Shown
            \/ /\ Shown' = Shown \cup {[place |-> Len(events) + 1, attempt |-> round]}
               /\ Passthrough \/ emitted'
<1>1. PICK empty \in BOOLEAN :
        /\ Emit(IF empty /\ ~Passthrough THEN <<>> ELSE <<EventOf("delta", 0)>>)
        /\ emitted' = (emitted \/ (~empty /\ ~Passthrough))
  BY DEF Delta
<1>2. turn.streaming
  BY DEF Delta
<1>3. CASE empty /\ ~Passthrough
  <2>1. Emit(<<>>)
    BY <1>1, <1>3
  <2>2. events' = events
    BY <2>1, EmitShows
  <2>3. Shown' = Shown
    BY <2>2 DEF Shown, Survives
  <2>4. emitted => emitted'
    BY <1>1, Zenon
  <2>. QED
    BY <1>2, <2>3, <2>4
<1>4. CASE ~(empty /\ ~Passthrough)
  <2>1. Emit(<<EventOf("delta", 0)>>)
    BY <1>1, <1>4
  <2>2. EventOf("delta", 0) \in Event /\ EventOf("delta", 0).type = "delta" /\ EventOf("delta", 0).round = round
    BY EventType DEF EventOf
  <2>3. events' = Append(events, EventOf("delta", 0))
    BY <1>2, <2>1, <2>2, EmitShows
  <2>4. Shown' = Shown \cup {[place |-> Len(events) + 1, attempt |-> round]}
    BY <2>2, <2>3, ShownMoves
  <2>5. (emitted => emitted') /\ (Passthrough \/ emitted')
    BY <1>1, <1>4, Zenon
  <2>. QED
    BY <1>2, <2>4, <2>5
<1>. QED
  BY <1>3, <1>4

\* After a request for tools the bubble is empty, for what was forwarded is retracted.
LEMMA RequestShows ==
  ASSUME TypeOK, BubbleInv, RequestTools
  PROVE  Shown' = {}
<1>1. Emit(ResetMarker) /\ pc = "asking" /\ ~Passthrough
  BY DEF RequestTools
<1>2. CASE ~turn.streaming
  <2>1. events' = <<>>
    BY <1>1, <1>2 DEF Emit, BubbleInv
  <2>. QED
    BY <2>1 DEF Shown
<1>3. CASE turn.streaming /\ emitted
  <2>1. Emit(<<EventOf("reset", 0)>>)
    BY <1>1, <1>3 DEF ResetMarker
  <2>2. EventOf("reset", 0) \in Event /\ EventOf("reset", 0).type = "reset"
    BY EventType DEF EventOf
  <2>3. events' = Append(events, EventOf("reset", 0))
    BY <1>3, <2>1, <2>2, EmitShows
  <2>. QED
    BY <2>2, <2>3, ShownMoves
<1>4. CASE ~emitted
  <2>1. events' = events
    BY <1>1, <1>4, EmitShows DEF ResetMarker
  <2>. QED
    BY <1>1, <1>4, <2>1 DEF BubbleInv, Shown, Survives
<1>. QED
  BY <1>2, <1>3, <1>4

\* No step leaves text of an attempt where the next may begin.
LEMMA BubbleStep ==
  ASSUME TypeOK, BubbleInv, [Next]_vars
  PROVE  BubbleInv'
<1>1. ~turn.streaming => events' = events \/ events' = <<>>
  <2>1. \A evs : Emit(evs) /\ ~turn.streaming => events' = events
    BY DEF Emit
  <2>. QED
    BY <2>1 DEF Next, vars, Start, Delta, ProviderFails, Answer, RequestTools, CallTool, AskAgain, GiveUp
<1>2. turn' = turn /\ (Passthrough' <=> Passthrough)
  BY DEF Next, vars, Start, Delta, ProviderFails, Answer, RequestTools, CallTool, AskAgain, GiveUp, Passthrough
<1>3. events' = events => Shown' = Shown
  BY DEF Shown, Survives
<1>4. events = <<>> => Shown = {}
  BY DEF Shown
<1>5. CASE Start
  BY <1>2, <1>3, <1>4, <1>5 DEF Start, BubbleInv
<1>6. CASE Delta
  <2>1. pc = "asking" /\ pc' = "asking" /\ result' = result
    BY <1>6 DEF Delta
  <2>2. ASSUME ~Passthrough, ~emitted' PROVE Shown' = {}
    BY <1>6, <2>1, <2>2, DeltaShows DEF BubbleInv
  <2>. QED
    BY <1>1, <1>2, <1>6, <2>1, <2>2, DeltaShows DEF BubbleInv
<1>7. CASE ProviderFails \/ Answer \/ GiveUp
  BY <1>2, <1>7 DEF ProviderFails, Answer, GiveUp, BubbleInv
<1>8. CASE RequestTools
  BY <1>1, <1>2, <1>8, RequestShows DEF RequestTools, BubbleInv
<1>9. CASE CallTool
  BY <1>1, <1>2, <1>9, CallShowsNothing DEF CallTool, BubbleInv
<1>10. CASE AskAgain
  BY <1>2, <1>3, <1>10 DEF AskAgain, BubbleInv
<1>11. CASE UNCHANGED vars
  BY <1>2, <1>3, <1>11 DEF vars, BubbleInv
<1>. QED
  BY <1>5, <1>6, <1>7, <1>8, <1>9, <1>10, <1>11 DEF Next

\* The actions of the abstract reply, told in the bubble.
LEMMA ReplyRests ==
  ASSUME Shown' = Shown, round' = round, Outcome' = Outcome
  PROVE  UNCHANGED Reply!replyVars
BY DEF Reply!replyVars

\* A fragment behind those that are shown is a fragment shown.
LEMMA ReplyShows ==
  ASSUME TypeOK, Shown' = Shown \cup {[place |-> Len(events) + 1, attempt |-> round]}, round' = round,
         Outcome = "open", Outcome' = Outcome
  PROVE  Reply!Show
<1> DEFINE new == [place |-> Len(events) + 1, attempt |-> round]
<1>1. new \in Shown' /\ new.attempt = round /\ \A old \in Shown : old.place < new.place
  BY ShownPlaces
<1>2. Shown' = Shown \cup {new}
  OBVIOUS
<1> HIDE DEF new
<1>. QED
  BY <1>1, <1>2 DEF Reply!Show

\* Every step is one of the reply, or shows nothing.
LEMMA ReplyStep ==
  ASSUME TypeOK, BubbleInv, [Next]_vars
  PROVE  Reply!ReplyNext \/ UNCHANGED Reply!replyVars
<1>1. events' = events => Shown' = Shown
  BY DEF Shown, Survives
<1>2. CASE Start \/ UNCHANGED vars
  <2>1. Outcome' = Outcome /\ round' = round /\ events' = events
    BY <1>2 DEF Start, vars, Outcome
  <2>. QED
    BY <1>1, <2>1, ReplyRests
<1>3. CASE Delta
  <2>1. Outcome' = Outcome /\ Outcome = "open" /\ round' = round
    BY <1>3 DEF Delta, Outcome
  <2>. QED
    BY <1>3, <2>1, DeltaShows, ReplyShows, ReplyRests DEF Reply!ReplyNext
<1>4. CASE ProviderFails \/ Answer \/ GiveUp
  <2>1. Outcome = "open" /\ Outcome' \in {"ok", "failed"} /\ round' = round /\ events' = events
    BY <1>4 DEF ProviderFails, Answer, GiveUp, Outcome
  <2>2. Reply!Finish
    BY <1>1, <2>1 DEF Reply!Finish
  <2>. QED
    BY <2>2 DEF Reply!ReplyNext
<1>5. CASE RequestTools
  <2>1. Outcome = "open" /\ Outcome' = "open" /\ round' = round /\ Shown' = {}
    BY <1>5, RequestShows DEF RequestTools, Outcome
  <2>2. Reply!Discard
    BY <2>1 DEF Reply!Discard
  <2>. QED
    BY <2>2 DEF Reply!ReplyNext
<1>6. CASE CallTool
  <2>1. Outcome' = Outcome /\ round' = round /\ Shown' = Shown
    BY <1>6, CallShowsNothing DEF CallTool, Outcome
  <2>. QED
    BY <2>1, ReplyRests
<1>7. CASE AskAgain
  <2>1. Outcome = "open" /\ Outcome' = "open" /\ round' = round + 1 /\ events' = events /\ pc = "calling"
    BY <1>7 DEF AskAgain, Outcome
  <2>2. Shown = {} /\ Shown' = Shown
    BY <1>1, <2>1 DEF BubbleInv
  <2>3. Reply!NextAttempt
    BY <2>1, <2>2 DEF Reply!NextAttempt
  <2>. QED
    BY <2>3 DEF Reply!ReplyNext
<1>. QED
  BY <1>2, <1>3, <1>4, <1>5, <1>6, <1>7 DEF Next

\* What the sink of run_stream shows is a reply that is discarded as a whole or not at all, and
\* no attempt begins over text of an older one, for any tools, rounds, calls and fragments.
THEOREM RepliesAreProvisional == Spec => ImplementsReply
<1>1. Init => BubbleInv /\ Reply!ReplyInit
  <2> SUFFICES ASSUME Init PROVE BubbleInv /\ Reply!ReplyInit
    OBVIOUS
  <2>1. events = <<>> /\ pc = "start" /\ round = 0
    BY DEF Init
  <2>2. Shown = {}
    BY <2>1 DEF Shown
  <2>. QED
    BY <2>1, <2>2 DEF BubbleInv, Reply!ReplyInit, Outcome
<1>2. TypeOK /\ BubbleInv /\ [Next]_vars => BubbleInv'
  BY BubbleStep
<1>3. TypeOK /\ BubbleInv /\ [Next]_vars => [Reply!ReplyNext]_(Reply!replyVars)
  BY ReplyStep
<1>. QED
  BY <1>1, <1>2, <1>3, TypeCorrect, PTL DEF Spec, ImplementsReply, Reply!ReplySpec

-----------------------------------------------------------------------------
\* The way of the events to the page (StreamRelay).

\* The first half of the line an event is written as.
HeadOf(e) == [event |-> e, part |-> "head"]
\* The second half, which ends the line.
TailOf(e) == [event |-> e, part |-> "tail"]

\* The halves of the lines of some events, each in its place.
WholeOf(hs, es) ==
  /\ Len(hs) = 2 * Len(es)
  /\ \A k \in 1..Len(es) : hs[2 * k - 1] = HeadOf(es[k]) /\ hs[2 * k] = TailOf(es[k])

\* The types of what moves; the client keeps less than a line.
RelayTypes ==
  /\ sent \in Seq(StreamEvents) /\ got \in Seq(StreamEvents)
  /\ ingress \in Seq(StreamEvents) /\ held \in Seq(StreamEvents) /\ body \in Seq(StreamEvents)
  /\ wire \in Seq(HalfLine) /\ buffer \in Seq(HalfLine) /\ Len(buffer) <= 1

\* A relay that ends has nothing left, and the body ends after the turn.
Relaying ==
  /\ conn \in {"open", "closed", "broken"}
  /\ relay = "receiving" => held = <<>>
  /\ relay = "gone" /\ conn = "open" => sender = "ended" /\ ingress = <<>> /\ held = <<>>
  /\ conn = "closed" => sender = "ended"

\* The last event of a turn says how it ended, and no other does.
Spoken ==
  /\ sender # "ended" => \A i \in 1..Len(sent) : sent[i].type = "delta"
  /\ sender = "ended" => /\ Len(sent) > 0 /\ sent[Len(sent)].type \in {"done", "error"}
                         /\ \A i \in 1..Len(sent) : i < Len(sent) => sent[i].type = "delta"

\* What the client has, what it was written, and what is still behind.
Kept(es, rest) ==
  /\ got \o (es \o rest) = sent
  /\ client # "failed" => WholeOf(buffer \o wire, es)
  /\ conn = "open" => rest = body \o (held \o ingress)
  /\ conn = "closed" => rest = <<>>

\* Something accounts for what is on its way.
Flow == \E es, rest \in Seq(StreamEvents) : Kept(es, rest)

\* A client that failed has lost its connection or reached its end.
FailedLate == client = "failed" => conn # "open"

\* The inductive invariant.
RelayInv == RelayTypes /\ Relaying /\ Spoken /\ Flow /\ FailedLate /\ HonestVerdict

\* Sequences that are put together one piece after the other.
LEMMA PassOn ==
  ASSUME NEW S, NEW s \in Seq(S), NEW t \in Seq(S), t # <<>>
  PROVE  /\ Append(s, Head(t)) \o Tail(t) = s \o t
         /\ <<Head(t)>> \o Tail(t) = t
         /\ Head(t) \in S /\ Tail(t) \in Seq(S) /\ Append(s, Head(t)) \in Seq(S) /\ <<Head(t)>> \in Seq(S)
<1>1. Head(t) \in S /\ Tail(t) \in Seq(S)
  BY HeadTailProperties
<1>2. <<Head(t)>> \in Seq(S)
  BY <1>1
<1>3. <<Head(t)>> \o Tail(t) = t
  <2>1. Len(t) \in Nat \ {0}
    BY EmptySeq
  <2>2. SubSeq(t, 1, Len(t)) = <<t[1]>> \o SubSeq(t, 1 + 1, Len(t))
    <3>1. 1 \in 1..Len(t) /\ Len(t) \in 1..Len(t)
      BY <2>1
    <3>. QED
      BY <3>1, SubSeqRecursiveFirst
  <2>3. t[1] = Head(t) /\ SubSeq(t, 1 + 1, Len(t)) = Tail(t) /\ SubSeq(t, 1, Len(t)) = t
    BY <2>1, TailIsSubSeq, SubSeqFull
  <2>. QED
    BY <2>2, <2>3
<1>4. Append(s, Head(t)) = s \o <<Head(t)>> /\ Append(s, Head(t)) \in Seq(S)
  BY <1>1, AppendIsConcat, AppendProperties
<1>5. (s \o <<Head(t)>>) \o Tail(t) = s \o (<<Head(t)>> \o Tail(t))
  BY <1>1, <1>2, ConcatAssociative
<1>. QED
  BY <1>1, <1>2, <1>3, <1>4, <1>5

\* An element appended to the second of two sequences.
LEMMA AppendLast ==
  ASSUME NEW S, NEW s \in Seq(S), NEW t \in Seq(S), NEW e \in S
  PROVE  s \o Append(t, e) = Append(s \o t, e) /\ s \o t \in Seq(S)
<1>1. s \o t \in Seq(S) /\ <<e>> \in Seq(S)
  BY ConcatProperties
<1>2. Append(t, e) = t \o <<e>> /\ Append(s \o t, e) = (s \o t) \o <<e>>
  BY <1>1, AppendIsConcat
<1>3. (s \o t) \o <<e>> = s \o (t \o <<e>>)
  BY <1>1, ConcatAssociative
<1>. QED
  BY <1>1, <1>2, <1>3

\* The same of events and of the pieces of lines, for any of them.
LEMMA JoinsTwo == \A a, b \in Seq(StreamEvents) : a \o b \in Seq(StreamEvents)
<1>1. ASSUME NEW a \in Seq(StreamEvents), NEW b \in Seq(StreamEvents) PROVE a \o b \in Seq(StreamEvents)
  BY ConcatProperties
<1>. QED
  BY <1>1

\* An event appended to the last of two.
LEMMA JoinsLast ==
  \A a, b \in Seq(StreamEvents) : \A e \in StreamEvents : a \o Append(b, e) = Append(a \o b, e)
<1>1. ASSUME NEW a \in Seq(StreamEvents), NEW b \in Seq(StreamEvents), NEW e \in StreamEvents
      PROVE  a \o Append(b, e) = Append(a \o b, e)
  BY AppendLast
<1>. QED
  BY <1>1

\* The first event of the second is moved to the first.
LEMMA JoinsPassed ==
  \A a, b \in Seq(StreamEvents) : b # <<>> => Append(a, Head(b)) \o Tail(b) = a \o b
<1>1. ASSUME NEW a \in Seq(StreamEvents), NEW b \in Seq(StreamEvents), b # <<>>
      PROVE  Append(a, Head(b)) \o Tail(b) = a \o b
  BY <1>1, PassOn
<1>. QED
  BY <1>1

\* Three in a row.
LEMMA JoinsThree == \A a, b, c \in Seq(StreamEvents) : (a \o b) \o c = a \o (b \o c)
<1>1. ASSUME NEW a \in Seq(StreamEvents), NEW b \in Seq(StreamEvents), NEW c \in Seq(StreamEvents)
      PROVE  (a \o b) \o c = a \o (b \o c)
  BY ConcatAssociative
<1>. QED
  BY <1>1

\* Three pieces of the stream.
LEMMA JoinsHalves == \A a, b, c \in Seq(HalfLine) : (a \o b) \o c = a \o (b \o c)
<1>1. ASSUME NEW a \in Seq(HalfLine), NEW b \in Seq(HalfLine), NEW c \in Seq(HalfLine)
      PROVE  (a \o b) \o c = a \o (b \o c)
  BY ConcatAssociative
<1>. QED
  BY <1>1

\* A chunk that ends anywhere: the client acts on the lines that are complete, and keeps the rest.
LEMMA Cutting ==
  ASSUME NEW hs \in Seq(HalfLine), NEW es \in Seq(StreamEvents), WholeOf(hs, es), NEW m \in 0..Len(hs)
  PROVE  \E q \in 0..Len(es) :
           /\ Lines(SubSeq(hs, 1, m)) = SubSeq(es, 1, q)
           /\ Rest(SubSeq(hs, 1, m)) \in Seq(HalfLine) /\ Len(Rest(SubSeq(hs, 1, m))) <= 1
           /\ WholeOf(Rest(SubSeq(hs, 1, m)) \o SubSeq(hs, m + 1, Len(hs)), SubSeq(es, q + 1, Len(es)))
           /\ m = Len(hs) => q = Len(es)
<1>1. Len(hs) \in Nat /\ Len(es) \in Nat /\ Len(hs) = 2 * Len(es) /\ m \in Nat
  BY DEF WholeOf
<1>2. PICK q \in Nat : m = 2 * q \/ m = 2 * q + 1
  <2>1. m \div 2 \in Nat /\ (m = 2 * (m \div 2) \/ m = 2 * (m \div 2) + 1)
    BY <1>1
  <2>. QED
    BY <2>1
<1>3. q \in 0..Len(es) /\ (m = 2 * q + 1 => q + 1 \in 1..Len(es)) /\ (m = Len(hs) => q = Len(es))
  BY <1>1, <1>2
<1>4. /\ \A i \in 1..Len(hs) : hs[i] \in HalfLine
      /\ \A k \in 1..Len(es) : hs[2 * k - 1].part = "head" /\ hs[2 * k].part = "tail" /\ hs[2 * k].event = es[k]
      /\ \A k \in 1..Len(es) : es[k] \in StreamEvents
  <2>1. \A k \in 1..Len(es) : hs[2 * k - 1] = HeadOf(es[k]) /\ hs[2 * k] = TailOf(es[k])
    BY DEF WholeOf
  <2>2. \A e \in StreamEvents : HeadOf(e).part = "head" /\ TailOf(e).part = "tail" /\ TailOf(e).event = e
    BY DEF HeadOf, TailOf
  <2>3. \A k \in 1..Len(es) : es[k] \in StreamEvents
    BY ElementOfSeq
  <2>4. \A i \in 1..Len(hs) : hs[i] \in HalfLine
    BY ElementOfSeq
  <2>. QED
    BY <2>1, <2>2, <2>3, <2>4
<1>5. PICK h \in Seq(HalfLine) : h = SubSeq(hs, 1, m) /\ Len(h) = m /\ \A i \in 1..m : h[i] = hs[i]
  <2>1. \A i \in 1..m : hs[i] \in HalfLine
    BY <1>1, <1>4
  <2>2. /\ SubSeq(hs, 1, m) \in Seq(HalfLine)
        /\ Len(SubSeq(hs, 1, m)) = IF 1 <= m THEN m - 1 + 1 ELSE 0
        /\ \A i \in 1..(m - 1 + 1) : SubSeq(hs, 1, m)[i] = hs[1 + i - 1]
    BY <1>1, <2>1, SubSeqProperties
  <2>3. Len(SubSeq(hs, 1, m)) = m /\ \A i \in 1..m : SubSeq(hs, 1, m)[i] = hs[i]
    BY <1>1, <2>2
  <2>. QED
    BY <2>2, <2>3
<1>6. Lines(h) = SubSeq(es, 1, q)
  <2>1. ~(h # <<>> /\ h[1].part = "tail")
    <3>. SUFFICES ASSUME h # <<>> PROVE h[1].part = "head"
      OBVIOUS
    <3>1. m \in 1..Len(hs)
      BY <1>1, <1>5, EmptySeq
    <3>2. 1 \in 1..Len(es) /\ 2 * 1 - 1 = 1 /\ 1 \in 1..m
      BY <1>1, <3>1
    <3>3. hs[2 * 1 - 1].part = "head"
      BY <1>4, <3>2
    <3>. QED
      BY <1>5, <3>2, <3>3
  <2>2. (Len(h) - 0) \div 2 = q
    BY <1>1, <1>2, <1>5
  <2>3. Lines(h) = [k \in 1..q |-> h[0 + 2 * k].event]
    BY <2>1, <2>2 DEF Lines
  <2>4. \A k \in 1..q : h[0 + 2 * k].event = es[k] /\ es[k] \in StreamEvents
    <3>. SUFFICES ASSUME NEW k \in 1..q PROVE h[0 + 2 * k].event = es[k] /\ es[k] \in StreamEvents
      OBVIOUS
    <3>1. k \in 1..Len(es) /\ 0 + 2 * k = 2 * k /\ 2 * k \in 1..m
      BY <1>1, <1>2, <1>3
    <3>. QED
      BY <1>4, <1>5, <3>1
  <2>5. PICK ls \in Seq(StreamEvents) : ls = Lines(h) /\ Len(ls) = q /\ \A k \in 1..q : ls[k] = es[k]
    <3>1. [k \in 1..q |-> h[0 + 2 * k].event] \in [1..q -> StreamEvents]
      BY <2>4
    <3>2. Lines(h) \in Seq(StreamEvents) /\ Len(Lines(h)) = q
      BY <2>3, <3>1
    <3>3. \A k \in 1..q : Lines(h)[k] = es[k]
      BY <2>3, <2>4
    <3>. QED
      BY <3>2, <3>3
  <2>6. /\ SubSeq(es, 1, q) \in Seq(StreamEvents) /\ Len(SubSeq(es, 1, q)) = q
        /\ \A k \in 1..q : SubSeq(es, 1, q)[k] = es[k]
    <3>1. /\ SubSeq(es, 1, q) \in Seq(StreamEvents)
          /\ Len(SubSeq(es, 1, q)) = IF 1 <= q THEN q - 1 + 1 ELSE 0
          /\ \A k \in 1..(q - 1 + 1) : SubSeq(es, 1, q)[k] = es[1 + k - 1]
      <4>1. \A k \in 1..q : es[k] \in StreamEvents
        BY <2>4
      <4>. QED
        BY <4>1, SubSeqProperties
    <3>. QED
      BY <3>1
  <2>7. PICK us \in Seq(StreamEvents) : us = SubSeq(es, 1, q) /\ Len(us) = q /\ \A k \in 1..q : us[k] = es[k]
    BY <2>6
  <2>8. ls = us
    <3>1. Len(ls) = Len(us) /\ \A k \in 1..Len(ls) : ls[k] = us[k]
      BY <2>5, <2>7
    <3>. QED
      BY <3>1, SeqEqual
  <2>. QED
    BY <2>5, <2>7, <2>8
<1>7. PICK g : g = SubSeq(hs, 2 * q + 1, Len(hs))
  OBVIOUS
<1>8. /\ g \in Seq(HalfLine) /\ Len(g) = Len(hs) - 2 * q
      /\ \A i \in 1..(Len(hs) - 2 * q) : g[i] = hs[2 * q + i]
  <2>1. 2 * q + 1 \in Int /\ \A i \in (2 * q + 1)..Len(hs) : hs[i] \in HalfLine
    BY <1>1, <1>4
  <2>2. /\ g \in Seq(HalfLine)
        /\ Len(g) = IF 2 * q + 1 <= Len(hs) THEN Len(hs) - (2 * q + 1) + 1 ELSE 0
        /\ \A i \in 1..(Len(hs) - (2 * q + 1) + 1) : g[i] = hs[(2 * q + 1) + i - 1]
    BY <1>1, <1>7, <2>1, SubSeqProperties
  <2>3. Len(g) = Len(hs) - 2 * q
    <3>1. Len(hs) \in Nat /\ q \in Nat /\ 2 * q <= Len(hs)
      BY <1>1, <1>3
    <3>2. Len(g) = IF 2 * q + 1 <= Len(hs) THEN Len(hs) - (2 * q + 1) + 1 ELSE 0
      BY <2>2
    <3>3. PICK l \in Nat, d \in Nat : l = Len(hs) /\ d = 2 * q
      BY <3>1
    <3>4. d <= l /\ Len(g) = IF d + 1 <= l THEN l - (d + 1) + 1 ELSE 0
      BY <3>1, <3>2, <3>3
    <3>5. (IF d + 1 <= l THEN l - (d + 1) + 1 ELSE 0) = l - d
      BY <3>4
    <3>6. Len(g) = l - d
      BY <3>4, <3>5
    <3>. QED
      BY <3>3, <3>6
  <2>4. Len(hs) - (2 * q + 1) + 1 = Len(hs) - 2 * q
    BY <1>1
  <2>5. \A i \in 1..(Len(hs) - 2 * q) : (2 * q + 1) + i - 1 = 2 * q + i
    BY <1>1
  <2>. QED
    BY <2>2, <2>3, <2>4, <2>5
<1>9. PICK us \in Seq(StreamEvents) :
        /\ us = SubSeq(es, q + 1, Len(es)) /\ Len(us) = Len(es) - q
        /\ \A k \in 1..(Len(es) - q) : us[k] = es[q + k]
  <2>1. q + 1 \in Int /\ \A k \in (q + 1)..Len(es) : es[k] \in StreamEvents
    BY <1>1, <1>4
  <2>2. /\ SubSeq(es, q + 1, Len(es)) \in Seq(StreamEvents)
        /\ Len(SubSeq(es, q + 1, Len(es))) = IF q + 1 <= Len(es) THEN Len(es) - (q + 1) + 1 ELSE 0
        /\ \A k \in 1..(Len(es) - (q + 1) + 1) : SubSeq(es, q + 1, Len(es))[k] = es[(q + 1) + k - 1]
    BY <1>1, <2>1, SubSeqProperties
  <2>3. Len(SubSeq(es, q + 1, Len(es))) = Len(es) - q
        /\ \A k \in 1..(Len(es) - q) : SubSeq(es, q + 1, Len(es))[k] = es[q + k]
    BY <1>1, <1>3, <2>2
  <2>. QED
    BY <2>2, <2>3
<1>10. WholeOf(g, us)
  <2>0. Len(g) = Len(hs) - 2 * q /\ Len(us) = Len(es) - q /\ q \in 0..Len(es)
    BY <1>3, <1>8, <1>9
  <2>1. Len(g) = 2 * Len(us)
    BY <1>1, <2>0
  <2>2. ASSUME NEW k \in 1..Len(us) PROVE g[2 * k - 1] = HeadOf(us[k]) /\ g[2 * k] = TailOf(us[k])
    <3>1. /\ k \in Nat /\ 2 * k - 1 \in 1..(Len(hs) - 2 * q) /\ 2 * k \in 1..(Len(hs) - 2 * q) /\ q + k \in 1..Len(es)
          /\ k \in 1..(Len(es) - q)
      BY <1>1, <2>0
    <3>2. 2 * q + (2 * k - 1) = 2 * (q + k) - 1 /\ 2 * q + 2 * k = 2 * (q + k)
      BY <3>1
    <3>3. g[2 * k - 1] = hs[2 * (q + k) - 1] /\ g[2 * k] = hs[2 * (q + k)] /\ us[k] = es[q + k]
      BY <1>8, <1>9, <3>1, <3>2
    <3>. QED
      BY <3>1, <3>3 DEF WholeOf
  <2>. QED
    BY <2>1, <2>2 DEF WholeOf
<1>11. Rest(h) \in Seq(HalfLine) /\ Len(Rest(h)) <= 1 /\ Rest(h) \o SubSeq(hs, m + 1, Len(hs)) = g
  <2>1. CASE m = 2 * q + 1
    <3>1. m \in 1..Len(hs) /\ 2 * (q + 1) - 1 = m /\ Len(h) \in 1..m
      BY <1>1, <1>3, <1>5, <2>1
    <3>2. h[Len(h)] = hs[m] /\ h # <<>> /\ hs[m].part = "head" /\ hs[m] \in HalfLine
      <4>1. Len(h) = m /\ h[Len(h)] = hs[m] /\ h # <<>>
        BY <1>5, <3>1, SMTT(40)
      <4>2. q + 1 \in 1..Len(es)
        BY <1>1, <1>3, <2>1
      <4>3. hs[2 * (q + 1) - 1].part = "head"
        BY <1>4, <4>2
      <4>4. hs[m] \in HalfLine
        BY <3>1, ElementOfSeq
      <4>. QED
        BY <3>1, <4>1, <4>3, <4>4
    <3>3. Rest(h) = <<hs[m]>>
      BY <3>2 DEF Rest, Last
    <3>4. SubSeq(hs, m, Len(hs)) = <<hs[m]>> \o SubSeq(hs, m + 1, Len(hs))
      <4>1. Len(hs) \in m..Len(hs)
        BY <1>1, <3>1
      <4>. QED
        BY <3>1, <4>1, SubSeqRecursiveFirst
    <3>5. Rest(h) \o SubSeq(hs, m + 1, Len(hs)) = g
      BY <1>7, <2>1, <3>3, <3>4
    <3>6. <<hs[m]>> \in Seq(HalfLine) /\ Len(<<hs[m]>>) = 1
      BY <3>2
    <3>. QED
      BY <3>3, <3>5, <3>6
  <2>2. CASE m = 2 * q
    <3>1. Rest(h) = <<>>
      <4>1. CASE q = 0
        BY <1>5, <2>2, <4>1, EmptySeq DEF Rest
      <4>2. CASE q # 0
        <5>1. q \in 1..Len(es) /\ Len(h) \in 1..m
          BY <1>1, <1>2, <1>3, <1>5, <2>2, <4>2
        <5>2. h[Len(h)].part = "tail"
          BY <1>4, <1>5, <2>2, <5>1
        <5>. QED
          BY <5>2 DEF Rest, Last
      <4>. QED
        BY <4>1, <4>2
    <3>2. SubSeq(hs, m + 1, Len(hs)) = g
      BY <1>7, <2>2
    <3>. QED
      BY <1>8, <3>1, <3>2, EmptySeq, ConcatEmptySeq
  <2>. QED
    BY <1>2, <2>1, <2>2
<1>. QED
  BY <1>3, <1>5, <1>6, <1>9, <1>10, <1>11

\* All of the lines at once.
LEMMA AllLines ==
  ASSUME NEW hs \in Seq(HalfLine), NEW es \in Seq(StreamEvents), WholeOf(hs, es)
  PROVE  Lines(hs) = es
<1>1. Len(hs) \in Nat /\ Len(hs) \in 0..Len(hs)
  OBVIOUS
<1>2. PICK q \in 0..Len(es) : Lines(SubSeq(hs, 1, Len(hs))) = SubSeq(es, 1, q) /\ q = Len(es)
  BY <1>1, Cutting
<1>. QED
  BY <1>2, SubSeqFull

\* One more line.
LEMMA OneMoreLine ==
  ASSUME NEW hs \in Seq(HalfLine), NEW es \in Seq(StreamEvents), WholeOf(hs, es), NEW e \in StreamEvents
  PROVE  /\ hs \o Line(e) \in Seq(HalfLine) /\ Line(e) \in Seq(HalfLine)
         /\ WholeOf(hs \o Line(e), Append(es, e))
<1>1. HeadOf(e) \in HalfLine /\ TailOf(e) \in HalfLine
  BY DEF HeadOf, TailOf, HalfLine
<1>2. Line(e) \in Seq(HalfLine) /\ Len(Line(e)) = 2 /\ Line(e)[1] = HeadOf(e) /\ Line(e)[2] = TailOf(e)
  BY <1>1 DEF Line, HeadOf, TailOf
<1>3. Len(hs) \in Nat /\ Len(es) \in Nat /\ Len(hs) = 2 * Len(es)
  BY DEF WholeOf
<1>4. PICK gs \in Seq(HalfLine) :
        /\ gs = hs \o Line(e) /\ Len(gs) = Len(hs) + 2
        /\ \A i \in 1..Len(hs) : gs[i] = hs[i]
        /\ gs[Len(hs) + 1] = HeadOf(e) /\ gs[Len(hs) + 2] = TailOf(e)
  <2>1. /\ hs \o Line(e) \in Seq(HalfLine) /\ Len(hs \o Line(e)) = Len(hs) + 2
        /\ \A i \in 1..(Len(hs) + 2) : (hs \o Line(e))[i] = IF i <= Len(hs) THEN hs[i] ELSE Line(e)[i - Len(hs)]
    <3>1. /\ hs \o Line(e) \in Seq(HalfLine) /\ Len(hs \o Line(e)) = Len(hs) + Len(Line(e))
          /\ \A i \in 1..(Len(hs) + Len(Line(e))) :
                (hs \o Line(e))[i] = IF i <= Len(hs) THEN hs[i] ELSE Line(e)[i - Len(hs)]
      BY <1>2, ConcatProperties
    <3>. QED
      BY <1>2, <3>1
  <2>2. \A i \in 1..Len(hs) : (hs \o Line(e))[i] = hs[i]
    BY <1>3, <2>1
  <2>3. (hs \o Line(e))[Len(hs) + 1] = Line(e)[1] /\ (hs \o Line(e))[Len(hs) + 2] = Line(e)[2]
    <3>1. Len(hs) + 1 \in 1..(Len(hs) + 2) /\ Len(hs) + 2 \in 1..(Len(hs) + 2)
          /\ ~(Len(hs) + 1 <= Len(hs)) /\ ~(Len(hs) + 2 <= Len(hs))
          /\ Len(hs) + 1 - Len(hs) = 1 /\ Len(hs) + 2 - Len(hs) = 2
      BY <1>3
    <3>. QED
      BY <2>1, <3>1
  <2>. QED
    BY <1>2, <2>1, <2>2, <2>3
<1>5. PICK fs \in Seq(StreamEvents) :
        /\ fs = Append(es, e) /\ Len(fs) = Len(es) + 1
        /\ \A k \in 1..Len(es) : fs[k] = es[k]
        /\ fs[Len(es) + 1] = e
  BY AppendProperties
<1>6. ASSUME NEW k \in 1..Len(fs) PROVE gs[2 * k - 1] = HeadOf(fs[k]) /\ gs[2 * k] = TailOf(fs[k])
  <2>1. CASE k = Len(es) + 1
    <3>1. 2 * k - 1 = Len(hs) + 1 /\ 2 * k = Len(hs) + 2
      BY <1>3, <2>1
    <3>. QED
      BY <1>4, <1>5, <2>1, <3>1
  <2>2. CASE k # Len(es) + 1
    <3>1. k \in 1..Len(es) /\ 2 * k - 1 \in 1..Len(hs) /\ 2 * k \in 1..Len(hs)
      BY <1>3, <1>5, <2>2
    <3>. QED
      BY <1>4, <1>5, <3>1 DEF WholeOf
  <2>. QED
    BY <2>1, <2>2
<1>7. Len(gs) = 2 * Len(fs)
  BY <1>3, <1>4, <1>5
<1>. QED
  BY <1>2, <1>4, <1>5, <1>6, <1>7 DEF WholeOf
\* The types are kept.
LEMMA RelayTypesStep ==
  ASSUME RelayTypes, [RelayNext]_relayVars, ~ReadChunk
  PROVE  RelayTypes'
<1>. /\ sent \in Seq(StreamEvents) /\ got \in Seq(StreamEvents)
     /\ ingress \in Seq(StreamEvents) /\ held \in Seq(StreamEvents) /\ body \in Seq(StreamEvents)
     /\ wire \in Seq(HalfLine) /\ buffer \in Seq(HalfLine) /\ Len(buffer) <= 1
  BY DEF RelayTypes
<1>0. <<>> \in Seq(StreamEvents) /\ <<>> \in Seq(HalfLine)
  BY EmptySeq
<1>1. ASSUME NEW e \in StreamEvents, Send(e), UNCHANGED <<got, held, body, wire, buffer>> PROVE RelayTypes'
  <2>1. Append(sent, e) \in Seq(StreamEvents) /\ Append(ingress, e) \in Seq(StreamEvents)
    BY AppendProperties
  <2>2. sent' = Append(sent, e) /\ (ingress' = ingress \/ ingress' = Append(ingress, e))
    BY <1>1 DEF Send
  <2>. QED
    BY <1>1, <2>1, <2>2 DEF RelayTypes
<1>2. CASE Provisional \/ EndTurn
  <2>1. \A type \in {"delta", "done", "error"} : NextEvent(type) \in StreamEvents
    BY DEF NextEvent, StreamEvents
  <2>. QED
    BY <1>1, <1>2, <2>1 DEF Provisional, EndTurn
<1>3. CASE RelayReceives
  <2>1. ingress # <<>> /\ held' = <<Head(ingress)>> /\ ingress' = Tail(ingress) /\ UNCHANGED <<sent, got, body, wire, buffer>>
    BY <1>3 DEF RelayReceives
  <2>2. Tail(ingress) \in Seq(StreamEvents) /\ <<Head(ingress)>> \in Seq(StreamEvents)
    BY <2>1, PassOn
  <2>. QED
    BY <2>1, <2>2 DEF RelayTypes
<1>4. CASE RelaySends
  <2>1. body' = body \o held /\ held' = <<>> /\ UNCHANGED <<sent, got, ingress, wire, buffer>>
    BY <1>4 DEF RelaySends
  <2>2. body \o held \in Seq(StreamEvents)
    BY ConcatProperties
  <2>. QED
    BY <1>0, <2>1, <2>2 DEF RelayTypes
<1>5. CASE WriteLine
  <2>1. body # <<>> /\ wire' = wire \o Line(Head(body)) /\ body' = Tail(body) /\ UNCHANGED <<sent, got, ingress, held, buffer>>
    BY <1>5 DEF WriteLine
  <2>2. Head(body) \in StreamEvents /\ Tail(body) \in Seq(StreamEvents)
    BY <2>1, PassOn
  <2>3. Line(Head(body)) \in Seq(HalfLine)
    BY <2>2 DEF Line, HalfLine
  <2>4. wire \o Line(Head(body)) \in Seq(HalfLine)
    BY <2>3, ConcatProperties
  <2>. QED
    BY <2>1, <2>2, <2>4 DEF RelayTypes
<1>6. CASE BreakConnection \/ ServerDies \/ ReadFails
  BY <1>0, <1>6 DEF BreakConnection, ServerDies, ReadFails, RelayTypes
<1>7. CASE RelayEnds \/ CloseBody \/ ReadEnd \/ Leave \/ Stall \/ UNCHANGED relayVars
  BY <1>7 DEF RelayEnds, CloseBody, ReadEnd, Leave, Stall, relayVars, RelayTypes
<1>. QED
  BY <1>2, <1>3, <1>4, <1>5, <1>6, <1>7 DEF RelayNext, TurnStep, RelayStep, BodyStep, ClientStep

\* A chunk of what is on its way, behind what the client keeps, is a prefix of both together.
LEMMA ChunkOf ==
  ASSUME NEW S, NEW b \in Seq(S), NEW w \in Seq(S), NEW n \in 1..Len(w)
  PROVE  /\ Len(b \o w) = Len(b) + Len(w)
         /\ b \o SubSeq(w, 1, n) = SubSeq(b \o w, 1, Len(b) + n)
         /\ SubSeq(w, n + 1, Len(w)) = SubSeq(b \o w, (Len(b) + n) + 1, Len(b \o w))
<1>1. Len(b) \in Nat /\ Len(w) \in Nat /\ n \in Nat /\ n <= Len(w)
  OBVIOUS
<1>2. PICK a \in Seq(S) :
        /\ a = b \o w /\ Len(a) = Len(b) + Len(w)
        /\ \A i \in 1..(Len(b) + Len(w)) : a[i] = IF i <= Len(b) THEN b[i] ELSE w[i - Len(b)]
  <2>1. /\ b \o w \in Seq(S) /\ Len(b \o w) = Len(b) + Len(w)
        /\ \A i \in 1..(Len(b) + Len(w)) : (b \o w)[i] = IF i <= Len(b) THEN b[i] ELSE w[i - Len(b)]
    BY ConcatProperties
  <2>. QED
    BY <2>1
<1>3. /\ \A i \in 1..Len(b) : b[i] \in S
      /\ \A i \in 1..Len(w) : w[i] \in S
      /\ \A i \in 1..Len(a) : a[i] \in S
  BY ElementOfSeq
<1>4. PICK c \in Seq(S) : c = SubSeq(w, 1, n) /\ Len(c) = n /\ \A i \in 1..n : c[i] = w[i]
  <2>1. \A i \in 1..n : w[i] \in S
    BY <1>1, <1>3
  <2>2. /\ SubSeq(w, 1, n) \in Seq(S) /\ Len(SubSeq(w, 1, n)) = IF 1 <= n THEN n - 1 + 1 ELSE 0
        /\ \A i \in 1..(n - 1 + 1) : SubSeq(w, 1, n)[i] = w[1 + i - 1]
    BY <1>1, <2>1, SubSeqProperties
  <2>3. Len(SubSeq(w, 1, n)) = n /\ \A i \in 1..n : SubSeq(w, 1, n)[i] = w[i]
    BY <1>1, <2>2
  <2>. QED
    BY <2>2, <2>3
<1>5. PICK d \in Seq(S) :
        /\ d = b \o c /\ Len(d) = Len(b) + n
        /\ \A i \in 1..(Len(b) + n) : d[i] = IF i <= Len(b) THEN b[i] ELSE c[i - Len(b)]
  <2>1. /\ b \o c \in Seq(S) /\ Len(b \o c) = Len(b) + Len(c)
        /\ \A i \in 1..(Len(b) + Len(c)) : (b \o c)[i] = IF i <= Len(b) THEN b[i] ELSE c[i - Len(b)]
    BY <1>4, ConcatProperties
  <2>. QED
    BY <1>4, <2>1
<1>6. PICK e \in Seq(S) :
        /\ e = SubSeq(a, 1, Len(b) + n) /\ Len(e) = Len(b) + n
        /\ \A i \in 1..(Len(b) + n) : e[i] = a[i]
  <2>1. \A i \in 1..(Len(b) + n) : a[i] \in S
    BY <1>1, <1>2, <1>3
  <2>2. /\ SubSeq(a, 1, Len(b) + n) \in Seq(S)
        /\ Len(SubSeq(a, 1, Len(b) + n)) = IF 1 <= Len(b) + n THEN (Len(b) + n) - 1 + 1 ELSE 0
        /\ \A i \in 1..((Len(b) + n) - 1 + 1) : SubSeq(a, 1, Len(b) + n)[i] = a[1 + i - 1]
    BY <1>1, <2>1, SubSeqProperties
  <2>3. /\ Len(SubSeq(a, 1, Len(b) + n)) = Len(b) + n
        /\ \A i \in 1..(Len(b) + n) : SubSeq(a, 1, Len(b) + n)[i] = a[i]
    BY <1>1, <2>2
  <2>. QED
    BY <2>2, <2>3
<1>7. d = e
  <2>1. ASSUME NEW i \in 1..(Len(b) + n) PROVE d[i] = e[i]
    <3>1. i \in 1..(Len(b) + Len(w)) /\ (~(i <= Len(b)) => i - Len(b) \in 1..n)
      BY <1>1
    <3>. QED
      BY <1>2, <1>4, <1>5, <1>6, <3>1
  <2>2. Len(d) = Len(e) /\ \A i \in 1..Len(d) : d[i] = e[i]
    BY <1>5, <1>6, <2>1
  <2>. QED
    BY <2>2, SeqEqual
<1>8. SubSeq(w, n + 1, Len(w)) = SubSeq(a, (Len(b) + n) + 1, Len(a))
  <2>1. CASE n = Len(w)
    <3>1. Len(w) < n + 1 /\ Len(a) < (Len(b) + n) + 1 /\ n + 1 \in Int /\ Len(w) \in Int /\ (Len(b) + n) + 1 \in Int /\ Len(a) \in Int
      BY <1>1, <1>2, <2>1
    <3>. QED
      BY <3>1, SubSeqEmpty
  <2>2. CASE n # Len(w)
    <3>1. /\ (Len(b) + n) + 1 \in (Len(b) + 1)..(Len(b) + Len(w))
          /\ Len(b) + Len(w) \in (Len(b) + 1)..(Len(b) + Len(w))
      BY <1>1, <2>2
    <3>2. SubSeq(b \o w, (Len(b) + n) + 1, Len(b) + Len(w))
            = SubSeq(w, ((Len(b) + n) + 1) - Len(b), (Len(b) + Len(w)) - Len(b))
      BY <3>1, SubSeqOfConcat2
    <3>3. ((Len(b) + n) + 1) - Len(b) = n + 1 /\ (Len(b) + Len(w)) - Len(b) = Len(w)
      BY <1>1
    <3>. QED
      BY <1>2, <3>2, <3>3
  <2>. QED
    BY <2>1, <2>2
<1>. QED
  BY <1>2, <1>4, <1>5, <1>6, <1>7, <1>8

\* Reading a chunk.
LEMMA ReadKeeps ==
  ASSUME RelayTypes, Flow, ReadChunk
  PROVE  RelayTypes' /\ Flow'
<1>1. PICK es \in Seq(StreamEvents), rest \in Seq(StreamEvents) : Kept(es, rest)
  BY DEF Flow
<1>2. client = "reading" /\ client' = client /\ conn' = conn /\ UNCHANGED <<sent, ingress, held, body>>
  BY DEF ReadChunk
<1>3. PICK n \in 1..Len(wire) :
        /\ got' = got \o Lines(buffer \o SubSeq(wire, 1, n))
        /\ buffer' = Rest(buffer \o SubSeq(wire, 1, n))
        /\ wire' = SubSeq(wire, n + 1, Len(wire))
  BY DEF ReadChunk
<1>4. buffer \in Seq(HalfLine) /\ wire \in Seq(HalfLine) /\ got \in Seq(StreamEvents)
  BY DEF RelayTypes
<1>5. PICK hs \in Seq(HalfLine) : hs = buffer \o wire
  BY <1>4, ConcatProperties
<1>6. PICK m \in 0..Len(hs) :
        /\ buffer \o SubSeq(wire, 1, n) = SubSeq(hs, 1, m)
        /\ SubSeq(wire, n + 1, Len(wire)) = SubSeq(hs, m + 1, Len(hs))
  <2>1. Len(buffer) + n \in 0..Len(hs)
    BY <1>4, <1>5, ChunkOf
  <2>. QED
    BY <1>4, <1>5, <2>1, ChunkOf
<1>7. WholeOf(hs, es)
  BY <1>1, <1>2, <1>5 DEF Kept
<1>8. PICK q \in 0..Len(es) :
        /\ Lines(SubSeq(hs, 1, m)) = SubSeq(es, 1, q)
        /\ Rest(SubSeq(hs, 1, m)) \in Seq(HalfLine) /\ Len(Rest(SubSeq(hs, 1, m))) <= 1
        /\ WholeOf(Rest(SubSeq(hs, 1, m)) \o SubSeq(hs, m + 1, Len(hs)), SubSeq(es, q + 1, Len(es)))
  BY <1>7, Cutting
<1>9. PICK ls \in Seq(StreamEvents), us \in Seq(StreamEvents) :
        ls = SubSeq(es, 1, q) /\ us = SubSeq(es, q + 1, Len(es)) /\ ls \o us = es
  <2>1. /\ 1 \in 1..(Len(es) + 1) /\ q \in (1 - 1)..Len(es) /\ Len(es) \in q..Len(es)
        /\ q \in Int /\ 1 \in Int /\ q + 1 \in Int /\ Len(es) \in Int
    OBVIOUS
  <2>2. SubSeq(es, 1, q) \o SubSeq(es, q + 1, Len(es)) = es
    BY <2>1, ConcatAdjacentSubSeq, SubSeqFull, ZenonT(60)
  <2>3. \A i \in 1..Len(es) : es[i] \in StreamEvents
    BY ElementOfSeq
  <2>4. (\A i \in 1..q : es[i] \in StreamEvents) /\ (\A i \in (q + 1)..Len(es) : es[i] \in StreamEvents)
    BY <2>1, <2>3
  <2>5. SubSeq(es, 1, q) \in Seq(StreamEvents) /\ SubSeq(es, q + 1, Len(es)) \in Seq(StreamEvents)
    BY <2>1, <2>4, SubSeqProperties
  <2>. QED
    BY <2>2, <2>5
<1>10. got' = got \o ls /\ buffer' \in Seq(HalfLine) /\ Len(buffer') <= 1 /\ WholeOf(buffer' \o wire', us)
       /\ wire' = SubSeq(hs, m + 1, Len(hs))
  BY <1>3, <1>6, <1>8, <1>9
<1>11. wire' \in Seq(HalfLine)
  <2>1. Len(hs) \in Nat /\ m + 1 \in Int /\ \A i \in (m + 1)..Len(hs) : i \in 1..Len(hs)
    OBVIOUS
  <2>2. \A i \in (m + 1)..Len(hs) : hs[i] \in HalfLine
    BY <2>1, ElementOfSeq
  <2>. QED
    BY <1>10, <2>1, <2>2, SubSeqProperties
<1>12. got' \in Seq(StreamEvents)
  BY <1>4, <1>9, <1>10, ConcatProperties
<1>13. got' \o (us \o rest) = sent
  <2>1. us \o rest \in Seq(StreamEvents)
    BY ConcatProperties
  <2>2. (got \o ls) \o (us \o rest) = got \o (ls \o (us \o rest))
    <3>1. ls \in Seq(StreamEvents)
      OBVIOUS
    <3>2. \A c \in Seq(StreamEvents) : (got \o ls) \o c = got \o (ls \o c)
      BY ONLY <1>4, <3>1, JoinsThree, ZenonT(60)
    <3>. QED
      BY <2>1, <3>2
  <2>3. ls \o (us \o rest) = (ls \o us) \o rest
    BY JoinsThree, ZenonT(60)
  <2>. QED
    BY <1>1, <1>9, <1>10, <2>2, <2>3 DEF Kept
<1>14. Kept(us, rest)'
  BY <1>1, <1>2, <1>10, <1>13 DEF Kept
<1>15. RelayTypes'
  BY <1>2, <1>10, <1>11, <1>12 DEF RelayTypes
<1>. QED
  BY <1>14, <1>15 DEF Flow

\* The same of what is on its way.
LEMMA Pieces ==
  ASSUME RelayTypes
  PROVE  /\ \A e \in StreamEvents : body \o (held \o Append(ingress, e)) = Append(body \o (held \o ingress), e)
         /\ \A e \in StreamEvents : \A x \in Seq(StreamEvents) : got \o Append(x, e) = Append(got \o x, e)
         /\ (body \o held) \o ingress = body \o (held \o ingress)
         /\ held \o ingress \in Seq(StreamEvents)
         /\ \A x \in Seq(StreamEvents) : (x \o body) \o (held \o ingress) = x \o (body \o (held \o ingress))
         /\ \A x \in Seq(StreamEvents) : (x \o held) \o ingress = x \o (held \o ingress)
         /\ \A x \in Seq(StreamEvents) : x \o body \in Seq(StreamEvents)
         /\ body # <<>> => \A x \in Seq(StreamEvents) : Append(x, Head(body)) \o Tail(body) = x \o body
         /\ \A l \in Seq(HalfLine) : (buffer \o wire) \o l = buffer \o (wire \o l)
<1>1. /\ got \in Seq(StreamEvents) /\ body \in Seq(StreamEvents)
      /\ held \in Seq(StreamEvents) /\ ingress \in Seq(StreamEvents)
  BY DEF RelayTypes
<1>2. buffer \in Seq(HalfLine) /\ wire \in Seq(HalfLine)
  BY DEF RelayTypes
<1>3. held \o ingress \in Seq(StreamEvents)
  BY <1>1, JoinsTwo
<1>4. ASSUME NEW e \in StreamEvents
      PROVE  body \o (held \o Append(ingress, e)) = Append(body \o (held \o ingress), e)
  <2>1. held \o Append(ingress, e) = Append(held \o ingress, e)
    BY <1>1, JoinsLast
  <2>2. body \o Append(held \o ingress, e) = Append(body \o (held \o ingress), e)
    BY <1>1, <1>3, JoinsLast
  <2>. QED
    BY <2>1, <2>2
<1>5. \A e \in StreamEvents : \A x \in Seq(StreamEvents) : got \o Append(x, e) = Append(got \o x, e)
  BY <1>1, JoinsLast
<1>6. (body \o held) \o ingress = body \o (held \o ingress)
  BY <1>1, JoinsThree, SMTT(40)
<1>7. \A x \in Seq(StreamEvents) : (x \o body) \o (held \o ingress) = x \o (body \o (held \o ingress))
  <2>1. ASSUME NEW x \in Seq(StreamEvents)
        PROVE  (x \o body) \o (held \o ingress) = x \o (body \o (held \o ingress))
    <3>1. x \in Seq(StreamEvents)
      OBVIOUS
    <3>. QED
      BY ONLY <1>1, <1>3, <3>1, JoinsThree, ZenonT(60)
  <2>. QED
    BY <2>1
<1>8. body # <<>> => \A x \in Seq(StreamEvents) : Append(x, Head(body)) \o Tail(body) = x \o body
  BY <1>1, JoinsPassed
<1>9. \A l \in Seq(HalfLine) : (buffer \o wire) \o l = buffer \o (wire \o l)
  BY <1>2, JoinsHalves
<1>10. \A x \in Seq(StreamEvents) : (x \o held) \o ingress = x \o (held \o ingress)
  BY <1>1, JoinsThree, SMTT(40)
<1>11. \A x \in Seq(StreamEvents) : x \o body \in Seq(StreamEvents)
  BY <1>1, JoinsTwo
<1>. QED
  BY <1>3, <1>4, <1>5, <1>6, <1>7, <1>8, <1>9, <1>10, <1>11

\* The turn puts an event behind all the others.
LEMMA SayKeeps ==
  ASSUME RelayTypes, Relaying, Flow, NEW e \in StreamEvents, Send(e), sender = "running",
         UNCHANGED <<relay, got, held, body, wire, buffer, client, conn>>
  PROVE  Flow'
<1>1. PICK es \in Seq(StreamEvents), rest \in Seq(StreamEvents) : Kept(es, rest)
  BY DEF Flow
<1>2. PICK more \in Seq(StreamEvents) : more = Append(rest, e)
  BY AppendProperties
<1>. /\ sent \in Seq(StreamEvents) /\ got \in Seq(StreamEvents) /\ ingress \in Seq(StreamEvents)
     /\ held \in Seq(StreamEvents) /\ body \in Seq(StreamEvents)
  BY DEF RelayTypes
<1>3. sent' = Append(sent, e) /\ (conn = "open" => ingress' = Append(ingress, e)) /\ conn # "closed"
  BY DEF Send, Relaying
<1>4. got \o (es \o more) = sent'
  <2>1. es \o more = Append(es \o rest, e) /\ es \o rest \in Seq(StreamEvents)
    BY <1>2, AppendLast
  <2>2. got \o Append(es \o rest, e) = Append(got \o (es \o rest), e)
    BY <2>1, Pieces
  <2>. QED
    BY <1>1, <1>3, <2>1, <2>2 DEF Kept
<1>5. conn = "open" => more = body \o (held \o ingress')
  <2>1. body \o (held \o Append(ingress, e)) = Append(body \o (held \o ingress), e)
    BY Pieces
  <2>. QED
    BY <1>1, <1>2, <1>3, <2>1 DEF Kept
<1>6. Kept(es, more)'
  BY <1>1, <1>3, <1>4, <1>5 DEF Kept
<1>. QED
  BY <1>6 DEF Flow

\* What is on its way stays in order and whole.
LEMMA FlowKeeps ==
  ASSUME RelayTypes, Relaying, Flow, [RelayNext]_relayVars
  PROVE  Flow'
<1>. /\ sent \in Seq(StreamEvents) /\ got \in Seq(StreamEvents) /\ ingress \in Seq(StreamEvents)
     /\ held \in Seq(StreamEvents) /\ body \in Seq(StreamEvents)
     /\ wire \in Seq(HalfLine) /\ buffer \in Seq(HalfLine) /\ <<>> \in Seq(StreamEvents)
  BY EmptySeq DEF RelayTypes
<1>0. PICK es \in Seq(StreamEvents), rest \in Seq(StreamEvents) : Kept(es, rest)
  BY DEF Flow
<1>1. CASE Provisional \/ EndTurn
  <2>1. \A type \in {"delta", "done", "error"} : NextEvent(type) \in StreamEvents
    BY DEF NextEvent, StreamEvents
  <2>. QED
    BY <1>1, <2>1, SayKeeps DEF Provisional, EndTurn
<1>2. CASE RelayReceives
  <2>1. /\ ingress # <<>> /\ held = <<>> /\ held' = <<Head(ingress)>> /\ ingress' = Tail(ingress)
        /\ UNCHANGED <<sent, got, body, wire, buffer, conn, client>>
    BY <1>2 DEF RelayReceives, Relaying
  <2>2. held' \o ingress' = ingress /\ held \o ingress = ingress
    BY <2>1, PassOn, ConcatEmptySeq
  <2>3. Kept(es, rest)'
    BY <1>0, <2>1, <2>2 DEF Kept
  <2>. QED
    BY <2>3 DEF Flow
<1>3. CASE RelaySends
  <2>1. body' = body \o held /\ held' = <<>> /\ UNCHANGED <<sent, got, ingress, wire, buffer, conn, client>>
    BY <1>3 DEF RelaySends
  <2>2. (body \o held) \o (<<>> \o ingress) = body \o (held \o ingress)
    <3>1. <<>> \o ingress = ingress
      BY ConcatEmptySeq
    <3>2. (body \o held) \o ingress = body \o (held \o ingress)
      BY Pieces
    <3>. QED
      BY <3>1, <3>2
  <2>3. Kept(es, rest)'
    BY <1>0, <2>1, <2>2 DEF Kept
  <2>. QED
    BY <2>3 DEF Flow
<1>4. CASE WriteLine
  <2>1. /\ conn = "open" /\ body # <<>> /\ wire' = wire \o Line(Head(body)) /\ body' = Tail(body)
        /\ UNCHANGED <<sent, got, ingress, held, buffer, conn, client>>
    BY <1>4 DEF WriteLine
  <2>2. PICK e \in StreamEvents, tail \in Seq(StreamEvents), fs \in Seq(StreamEvents) :
          e = Head(body) /\ tail = Tail(body) /\ fs = Append(es, e)
    BY <2>1, PassOn
  <2>3. PICK more \in Seq(StreamEvents) : more = tail \o (held \o ingress)
    BY ConcatProperties
  <2>4. got \o (fs \o more) = sent
    <3>1. held \o ingress \in Seq(StreamEvents)
      BY Pieces
    <3>2. fs \o tail = es \o body
      <4>1. Append(es, Head(body)) \o Tail(body) = es \o body
        BY <2>1, Pieces
      <4>. QED
        BY <2>2, <4>1
    <3>3. fs \o (tail \o (held \o ingress)) = (fs \o tail) \o (held \o ingress)
      <4>1. fs \in Seq(StreamEvents) /\ tail \in Seq(StreamEvents)
        OBVIOUS
      <4>2. (fs \o tail) \o (held \o ingress) = fs \o (tail \o (held \o ingress))
        BY ONLY <3>1, <4>1, JoinsThree, ZenonT(60)
      <4>. QED
        BY <4>2
    <3>4. es \o (body \o (held \o ingress)) = (es \o body) \o (held \o ingress)
      BY Pieces
    <3>. QED
      BY <1>0, <2>1, <2>3, <3>2, <3>3, <3>4 DEF Kept
  <2>5. client # "failed" => WholeOf(buffer \o wire', fs)
    <3>. SUFFICES ASSUME client # "failed" PROVE WholeOf(buffer \o wire', fs)
      OBVIOUS
    <3>1. PICK hs \in Seq(HalfLine) : hs = buffer \o wire
      BY ConcatProperties
    <3>2. WholeOf(hs, es)
      BY <1>0, <3>1 DEF Kept
    <3>3. WholeOf(hs \o Line(e), fs) /\ Line(e) \in Seq(HalfLine)
      BY <2>2, <3>2, OneMoreLine
    <3>4. hs \o Line(e) = buffer \o (wire \o Line(e))
      <4>1. PICK l \in Seq(HalfLine) : l = Line(e)
        BY <3>3
      <4>2. (buffer \o wire) \o l = buffer \o (wire \o l)
        BY Pieces
      <4>. QED
        BY <3>1, <4>1, <4>2
    <3>. QED
      BY <2>1, <2>2, <3>3, <3>4
  <2>6. Kept(fs, more)'
    BY <2>1, <2>2, <2>3, <2>4, <2>5 DEF Kept
  <2>. QED
    BY <2>6 DEF Flow
<1>5. CASE CloseBody
  <2>1. /\ conn = "open" /\ conn' = "closed" /\ body = <<>> /\ held = <<>> /\ ingress = <<>>
        /\ UNCHANGED <<sent, got, wire, buffer, client>>
    BY <1>5 DEF CloseBody, Relaying
  <2>2. rest = <<>>
    <3>1. rest = <<>> \o (<<>> \o <<>>)
      BY <1>0, <2>1 DEF Kept
    <3>2. <<>> \o <<>> = <<>>
      BY ConcatEmptySeq
    <3>. QED
      BY <3>1, <3>2
  <2>3. Kept(es, rest)'
    BY <1>0, <2>1, <2>2 DEF Kept
  <2>. QED
    BY <2>3 DEF Flow
<1>6. CASE BreakConnection \/ ServerDies
  <2>1. conn' = "broken" /\ UNCHANGED <<sent, got, wire, buffer, client>>
    BY <1>6 DEF BreakConnection, ServerDies
  <2>2. Kept(es, rest)'
    BY <1>0, <2>1 DEF Kept
  <2>. QED
    BY <2>2 DEF Flow
<1>7. CASE ReadFails
  <2>1. conn = "broken" /\ client' = "failed" /\ UNCHANGED <<sent, got, conn>>
    BY <1>7 DEF ReadFails
  <2>2. Kept(es, rest)'
    BY <1>0, <2>1 DEF Kept
  <2>. QED
    BY <2>2 DEF Flow
<1>8. CASE RelayEnds \/ ReadEnd \/ Leave \/ Stall \/ UNCHANGED relayVars
  <2>1. /\ UNCHANGED <<sent, got, ingress, held, body, wire, buffer, conn>>
        /\ client' # "failed" => client # "failed"
    BY <1>8 DEF RelayEnds, ReadEnd, Leave, Stall, relayVars
  <2>2. Kept(es, rest)'
    BY <1>0, <2>1 DEF Kept
  <2>. QED
    BY <2>2 DEF Flow
<1>. QED
  BY <1>1, <1>2, <1>3, <1>4, <1>5, <1>6, <1>7, <1>8, ReadKeeps DEF RelayNext, TurnStep, RelayStep, BodyStep, ClientStep

\* The relay and the body end after the turn.
LEMMA RelayingStep ==
  ASSUME Relaying, [RelayNext]_relayVars
  PROVE  Relaying'
<1>1. CASE TurnStep
  BY <1>1 DEF TurnStep, Provisional, EndTurn, Send, Relaying
<1>2. CASE RelayStep
  BY <1>2 DEF RelayStep, RelayReceives, RelaySends, RelayEnds, Relaying
<1>3. CASE BodyStep \/ ClientStep
  BY <1>3 DEF BodyStep, WriteLine, CloseBody, ClientStep, ReadChunk, ReadEnd, ReadFails, Relaying
<1>4. CASE BreakConnection \/ ServerDies
  BY <1>4 DEF BreakConnection, ServerDies, Relaying
<1>5. CASE Leave \/ Stall \/ UNCHANGED relayVars
  BY <1>5 DEF Leave, Stall, relayVars, Relaying
<1>. QED
  BY <1>1, <1>2, <1>3, <1>4, <1>5 DEF RelayNext

\* Only the last event says how the turn ended.
LEMMA SpokenStep ==
  ASSUME RelayTypes, Spoken, [RelayNext]_relayVars
  PROVE  Spoken'
<1>1. ASSUME NEW type \in {"delta", "done", "error"}, sender = "running", Send(NextEvent(type)),
             IF type = "delta" THEN sender' = sender ELSE sender' = "ended"
      PROVE  Spoken'
  <2>1. NextEvent(type) \in StreamEvents /\ NextEvent(type).type = type
    BY DEF RelayTypes, NextEvent, StreamEvents
  <2>2. PICK e \in StreamEvents : e = NextEvent(type) /\ e.type = type
    BY <2>1
  <2>3. sent \in Seq(StreamEvents) /\ Len(sent) \in Nat /\ sent' = Append(sent, e)
    BY <1>1, <2>2 DEF RelayTypes, Send
  <2>4. /\ Len(sent') = Len(sent) + 1 /\ sent'[Len(sent) + 1] = e
        /\ \A i \in 1..Len(sent) : sent'[i] = sent[i]
    BY <2>3, AppendProperties
  <2>5. \A i \in 1..Len(sent) : sent'[i].type = "delta"
    BY <1>1, <2>4 DEF Spoken
  <2>6. \A i \in 1..(Len(sent) + 1) : i \in 1..Len(sent) \/ i = Len(sent) + 1
    BY <2>3
  <2>7. CASE type = "delta"
    BY <1>1, <2>2, <2>3, <2>4, <2>5, <2>6, <2>7 DEF Spoken
  <2>8. CASE type # "delta"
    <3>1. Len(sent') > 0 /\ sent'[Len(sent')].type \in {"done", "error"}
      BY <2>2, <2>3, <2>4, <2>8
    <3>2. \A i \in 1..Len(sent') : i < Len(sent') => sent'[i].type = "delta"
      BY <2>3, <2>4, <2>5, <2>6
    <3>. QED
      BY <1>1, <2>8, <3>1, <3>2 DEF Spoken
  <2>. QED
    BY <2>7, <2>8
<1>2. CASE Provisional
  BY <1>1, <1>2 DEF Provisional
<1>3. CASE EndTurn
  BY <1>1, <1>3 DEF EndTurn
<1>4. CASE ServerDies
  BY <1>4 DEF ServerDies, Spoken
<1>5. CASE UNCHANGED <<sender, sent>>
  BY <1>5 DEF Spoken
<1>. QED
  BY <1>2, <1>3, <1>4, <1>5 DEF RelayNext, TurnStep, RelayStep, RelayReceives, RelaySends, RelayEnds,
       BodyStep, WriteLine, CloseBody, ClientStep, ReadChunk, ReadEnd, ReadFails, BreakConnection, Leave, Stall, relayVars

\* The client says what the turn said, when it has read all of it.
LEMMA VerdictStep ==
  ASSUME RelayInv, [RelayNext]_relayVars
  PROVE  HonestVerdict' /\ FailedLate'
<1>. RelayTypes /\ Relaying /\ Spoken /\ Flow /\ FailedLate /\ HonestVerdict
  BY DEF RelayInv
<1>1. CASE ReadEnd
  <2>1. conn = "closed" /\ wire = <<>> /\ client = "reading" /\ client' = Verdict
        /\ UNCHANGED <<sender, sent, got, conn>>
    BY <1>1 DEF ReadEnd
  <2>2. sender = "ended"
    BY <2>1 DEF Relaying
  <2>3. PICK es \in Seq(StreamEvents), rest \in Seq(StreamEvents) : Kept(es, rest)
    BY DEF Flow
  <2>4. es = <<>>
    <3>1. buffer \o wire = buffer
      BY <2>1, ConcatEmptySeq DEF RelayTypes
    <3>2. Len(buffer) = 2 * Len(es) /\ Len(buffer) <= 1 /\ Len(es) \in Nat
      BY <2>1, <2>3, <3>1 DEF Kept, WholeOf, RelayTypes
    <3>3. Len(es) = 0
      BY <3>2
    <3>. QED
      BY <3>3, EmptySeq
  <2>5. got = sent
    <3>1. got \o (<<>> \o <<>>) = sent
      BY <2>1, <2>3, <2>4 DEF Kept
    <3>2. <<>> \o <<>> = <<>> /\ got \o <<>> = got
      BY ConcatEmptySeq, EmptySeq DEF RelayTypes
    <3>. QED
      BY <3>1, <3>2
  <2>6. /\ Len(sent) \in Nat /\ Len(sent) > 0 /\ Len(sent) \in 1..Len(sent) /\ DOMAIN got = 1..Len(sent)
        /\ sent[Len(sent)].type \in {"done", "error"}
        /\ \A i \in 1..Len(sent) : i # Len(sent) => sent[i].type = "delta"
    BY <2>2, <2>5 DEF Spoken, RelayTypes
  <2>7. \A type \in {"done", "error"} : Said(type) <=> sent[Len(sent)].type = type
    <3>1. \A type : Said(type) <=> \E i \in 1..Len(sent) : sent[i].type = type
      BY <2>5, <2>6, ZenonT(60) DEF Said, Range
    <3>. QED
      BY <2>6, <3>1, SMTT(40)
  <2>8. client' = IF sent[Len(sent)].type = "done" THEN "ok" ELSE "failed"
    BY <2>1, <2>6, <2>7, SMTT(40) DEF Verdict
  <2>9. HonestVerdict'
    BY <2>1, <2>2, <2>5, <2>6, <2>8 DEF HonestVerdict, Last
  <2>. QED
    BY <2>1, <2>9 DEF FailedLate
<1>2. CASE ReadFails
  BY <1>2 DEF ReadFails, HonestVerdict, FailedLate
<1>3. CASE ReadChunk \/ Leave \/ Stall
  BY <1>3 DEF ReadChunk, Leave, Stall, HonestVerdict, FailedLate
<1>4. CASE TurnStep
  <2>1. sender = "running" /\ UNCHANGED <<client, conn, got>>
    BY <1>4 DEF TurnStep, Provisional, EndTurn
  <2>2. conn \in {"open", "broken"}
    BY <2>1 DEF Relaying
  <2>. QED
    BY <2>1, <2>2 DEF HonestVerdict, FailedLate
<1>5. CASE RelayStep \/ BodyStep \/ UNCHANGED relayVars
  BY <1>5 DEF RelayStep, RelayReceives, RelaySends, RelayEnds, BodyStep, WriteLine, CloseBody, relayVars, HonestVerdict, FailedLate
<1>6. CASE BreakConnection \/ ServerDies
  BY <1>6 DEF BreakConnection, ServerDies, HonestVerdict, FailedLate
<1>. QED
  BY <1>1, <1>2, <1>3, <1>4, <1>5, <1>6 DEF RelayNext, ClientStep

\* The invariant of the relay.
LEMMA RelayKeeps == RelaySpec => []RelayInv
<1>1. RelayInit => RelayInv
  <2> SUFFICES ASSUME RelayInit PROVE RelayInv
    OBVIOUS
  <2>1. /\ sent = <<>> /\ got = <<>> /\ ingress = <<>> /\ held = <<>> /\ body = <<>> /\ wire = <<>> /\ buffer = <<>>
        /\ sender = "running" /\ relay = "receiving" /\ conn = "open" /\ client = "reading"
    BY DEF RelayInit
  <2>2. <<>> \in Seq(StreamEvents) /\ <<>> \in Seq(HalfLine) /\ Len(<<>>) = 0
    BY EmptySeq
  <2>3. RelayTypes /\ Relaying /\ Spoken /\ FailedLate /\ HonestVerdict
    BY <2>1, <2>2 DEF RelayTypes, Relaying, Spoken, FailedLate, HonestVerdict
  <2>4. PICK es \in Seq(StreamEvents) : es = <<>>
    BY <2>2
  <2>5. es \o es = es /\ WholeOf(<<>> \o <<>>, es)
    <3>1. es \o es = es /\ Len(es) = 0 /\ <<>> \o <<>> = es
      BY <2>2, <2>4, ConcatEmptySeq
    <3>. QED
      BY <2>4, <3>1 DEF WholeOf
  <2>6. Kept(es, es)
    BY <2>1, <2>4, <2>5 DEF Kept
  <2>. QED
    BY <2>3, <2>6 DEF RelayInv, Flow
<1>2. RelayInv /\ [RelayNext]_relayVars => RelayInv'
  <2> SUFFICES ASSUME RelayInv, [RelayNext]_relayVars PROVE RelayInv'
    OBVIOUS
  <2>1. RelayTypes /\ Relaying /\ Spoken /\ Flow
    BY DEF RelayInv
  <2>2. RelayTypes'
    BY <2>1, RelayTypesStep, ReadKeeps
  <2>3. Relaying' /\ Spoken' /\ Flow'
    BY <2>1, RelayingStep, SpokenStep, FlowKeeps
  <2>4. HonestVerdict' /\ FailedLate'
    BY VerdictStep
  <2>. QED
    BY <2>2, <2>3, <2>4 DEF RelayInv
<1>. QED
  BY <1>1, <1>2, PTL DEF RelaySpec

\* While the connection is up, what is on its way is what is not acted on.
LEMMA InFlightIs ==
  ASSUME RelayInv, conn = "open",
         NEW es \in Seq(StreamEvents), NEW rest \in Seq(StreamEvents), Kept(es, rest)
  PROVE  InFlight = es \o rest
<1>1. Lines(buffer \o wire) = es
  <2>1. PICK hs \in Seq(HalfLine) : hs = buffer \o wire
    BY ConcatProperties DEF RelayInv, RelayTypes
  <2>2. WholeOf(hs, es)
    BY <2>1 DEF RelayInv, FailedLate, Kept
  <2>. QED
    BY <2>1, <2>2, AllLines
<1>2. /\ es \o body \in Seq(StreamEvents)
      /\ \A x \in Seq(StreamEvents) : (x \o held) \o ingress = x \o (held \o ingress)
      /\ (es \o body) \o (held \o ingress) = es \o (body \o (held \o ingress))
  BY Pieces DEF RelayInv
<1>3. ((es \o body) \o held) \o ingress = es \o (body \o (held \o ingress))
  BY ONLY <1>2
<1>4. rest = body \o (held \o ingress)
  BY DEF Kept
<1>. QED
  BY <1>1, <1>2, <1>3, <1>4 DEF InFlight

\* Whatever the pace of relay, body and client and wherever chunks end, the client acts on the
\* events of the turn, each once and in order, and none is lost while the connection lasts
\* (chat_stream of ira-server, streamChat of api.ts), for any depth of the queue.
THEOREM EventsAreConserved == RelaySpec => []Conservation
<1>1. RelayInv => Conservation
  <2> SUFFICES ASSUME RelayInv PROVE Conservation
    OBVIOUS
  <2>1. PICK es \in Seq(StreamEvents), rest \in Seq(StreamEvents) : Kept(es, rest)
    BY DEF RelayInv, Flow
  <2>2. PICK g, s, x \in Seq(StreamEvents) : g = got /\ s = sent /\ x = es \o rest /\ g \o x = s
    <3>1. es \o rest \in Seq(StreamEvents)
      BY ConcatProperties
    <3>. QED
      BY <2>1, <3>1 DEF RelayInv, RelayTypes, Kept
  <2>3. IsPrefix(got, sent)
    <3>1. /\ Len(g) \in Nat /\ Len(s) = Len(g) + Len(x) /\ Len(x) \in Nat
          /\ \A i \in 1..(Len(g) + Len(x)) : s[i] = IF i <= Len(g) THEN g[i] ELSE x[i - Len(g)]
      BY <2>2, ConcatProperties
    <3>2. SubSeq(s, 1, Len(g)) = g
      <4>1. CASE Len(g) = 0
        <5>1. g = <<>>
          BY <4>1, EmptySeq
        <5>2. SubSeq(s, 1, Len(g)) = <<>>
          BY <4>1, SubSeqEmpty
        <5>. QED
          BY <5>1, <5>2
      <4>2. CASE Len(g) # 0
        <5>1. 1 \in 1..Len(g) /\ Len(g) \in 1..Len(g)
          BY <3>1, <4>2
        <5>2. SubSeq(g \o x, 1, Len(g)) = SubSeq(g, 1, Len(g))
          BY <5>1, SubSeqOfConcat1
        <5>. QED
          BY <2>2, <5>2, SubSeqFull
      <4>. QED
        BY <4>1, <4>2
    <3>3. SubSeq(g, 1, Len(g)) = g /\ Len(g) <= Len(s)
      BY <3>1, SubSeqFull
    <3>. QED
      BY <2>2, <3>2, <3>3 DEF IsPrefix
  <2>4. ASSUME conn = "open" PROVE got \o InFlight = sent
    <3>1. InFlight = es \o rest
      BY <2>1, <2>4, InFlightIs
    <3>. QED
      BY <2>2, <3>1
  <2>. QED
    BY <2>3, <2>4 DEF Conservation
<1>. QED
  BY <1>1, RelayKeeps, PTL

\* The page trusts a reply exactly when the turn said it was done and all of it was read
\* (streamChat of api.ts); otherwise the turn failed or the connection was lost.
THEOREM VerdictIsHonest == RelaySpec => []HonestVerdict
<1>1. RelayInv => HonestVerdict
  BY DEF RelayInv
<1>. QED
  BY <1>1, RelayKeeps, PTL
=============================================================================
