------------------------------ MODULE ToolLoop ------------------------------
(***************************************************************************)
(* One chat turn with tools: ira-tools/src/chat.rs (run and run_stream).   *)
(*                                                                         *)
(* The loop sends the conversation to the provider, runs the tools the     *)
(* response asks for, appends their results and asks again, at most        *)
(* MaxRounds times.  run_stream sends events to a sink while the provider  *)
(* answers; run is the same loop without a sink.                           *)
(*                                                                         *)
(* Abstracted: the texts, the arguments and the results of tools.  A       *)
(* fragment is known by the round that produced it, a call by the round    *)
(* and the place it was requested at.                                      *)
(***************************************************************************)
EXTENDS Naturals, Sequences, FiniteSets

CONSTANTS
  Tools,        \* names a registry may hold
  McpTools,     \* those whose provider is an MCP server
  MemoryTools,  \* remember_fact and forget_memory
  Unknown,      \* a name the model invents
  MaxRounds,    \* MAX_ROUNDS (8 in the code)
  MaxCalls,     \* bound: tool calls in one response
  MaxDeltas     \* bound: fragments in one response

ASSUME ToolLoopAssumption ==
  /\ McpTools \subseteq Tools
  /\ MemoryTools \subseteq Tools
  /\ MemoryTools \cap McpTools = {}
  /\ Unknown \notin Tools
  /\ MaxRounds \in Nat \ {0}
  /\ MaxCalls \in Nat
  /\ MaxDeltas \in Nat

VARIABLES
  turn,      \* what the caller passes: the registry, the way it is run
  pc,        \* "start", "asking", "calling" or "done"
  round,     \* index of the loop iteration
  messages,  \* req.messages without the system prompt
  sys,       \* the system prompt: "absent", "plain" or "named" (names a tool)
  emitted,   \* this round's response has produced text
  deltas,    \* fragments this response has produced
  calls,     \* resp.tool_calls
  cursor,    \* the call to run next, 1-based
  events,    \* what the sink has received
  result     \* "none", "ok", "failed" or "tool_loop"

vars == <<turn, pc, round, messages, sys, emitted, deltas, calls, cursor, events, result>>

----------------------------------------------------------------------------
Turn == [registry : SUBSET Tools,   \* tools.names()
         webSearch : BOOLEAN,       \* the request carries a provider-side tool
         streaming : BOOLEAN]       \* run_stream rather than run

Names == Tools \cup {Unknown}

Call == [round : Nat, place : Nat, tool : Names]

NoCall == [round |-> 0, place |-> 0, tool |-> Unknown]

Roles == {"user", "assistant", "assistant_tools", "tool"}

Message == [role : Roles, calls : Seq(Call), call : Call]

UserMessage == [role |-> "user", calls |-> <<>>, call |-> NoCall]

AssistantTools(cs) == [role |-> "assistant_tools", calls |-> cs, call |-> NoCall]

ToolMessage(c) == [role |-> "tool", calls |-> <<>>, call |-> c]

Event == [type : {"delta", "reset", "mcp_used", "memory"}, round : Nat, place : Nat]

EventOf(type, place) == [type |-> type, round |-> round, place |-> place]

\* Events sent by one step, in order; run has no sink.
Emit(evs) == events' = IF turn.streaming THEN events \o evs ELSE events

\* The loop is skipped when neither the registry nor the request has a tool.
Passthrough == turn.registry = {} /\ ~turn.webSearch

\* The calls of a response to the current round: any names, in any order.
Responses ==
  {[k \in DOMAIN ns |-> [round |-> round, place |-> k, tool |-> ns[k]]] :
     ns \in UNION {[1..n -> Names] : n \in 0..MaxCalls}}

\* hint_system names the tools in the system prompt, once.
Hinted == IF turn.registry = {} THEN sys ELSE "named"

----------------------------------------------------------------------------
Init ==
  /\ turn \in Turn
  /\ pc = "start"
  /\ round = 0
  /\ messages = <<UserMessage>>
  /\ sys \in {"absent", "plain", "named"}
  /\ emitted = FALSE
  /\ deltas = 0
  /\ calls = <<>>
  /\ cursor = 1
  /\ events = <<>>
  /\ result = "none"

\* The entry of the loop: tools are added to the request and named in the prompt.
Start ==
  /\ pc = "start"
  /\ pc' = "asking"
  /\ sys' = IF Passthrough THEN sys ELSE Hinted
  /\ UNCHANGED <<turn, round, messages, emitted, deltas, calls, cursor, events, result>>

\* The provider streams a fragment.  Without tools every fragment is forwarded;
\* in the loop only a non-empty one is, and it marks the round as emitted.
Delta ==
  /\ pc = "asking"
  /\ turn.streaming
  /\ deltas < MaxDeltas
  /\ deltas' = deltas + 1
  /\ \E empty \in BOOLEAN :
       /\ Emit(IF empty /\ ~Passthrough THEN <<>> ELSE <<EventOf("delta", 0)>>)
       /\ emitted' = (emitted \/ (~empty /\ ~Passthrough))
  /\ UNCHANGED <<turn, pc, round, messages, sys, calls, cursor, result>>

\* The provider fails: the turn is aborted and nothing is retracted here.
ProviderFails ==
  /\ pc = "asking"
  /\ pc' = "done"
  /\ result' = "failed"
  /\ UNCHANGED <<turn, round, messages, sys, emitted, deltas, calls, cursor, events>>

\* A response without tool calls (or any response when there are no tools) is
\* the answer.
Answer ==
  /\ pc = "asking"
  /\ pc' = "done"
  /\ result' = "ok"
  /\ UNCHANGED <<turn, round, messages, sys, emitted, deltas, calls, cursor, events>>

\* Mutant: the marker is forgotten.
ResetForgotten == <<>>

\* What retracts provisional text when the model turns out to want tools.
ResetMarker == IF emitted THEN <<EventOf("reset", 0)>> ELSE <<>>

\* A response that asks for tools.
RequestTools ==
  /\ pc = "asking"
  /\ ~Passthrough
  /\ \E cs \in Responses \ {<<>>} :
       /\ calls' = cs
       /\ messages' = Append(messages, AssistantTools(cs))
  /\ Emit(ResetMarker)
  /\ cursor' = 1
  /\ pc' = "calling"
  /\ UNCHANGED <<turn, round, sys, emitted, deltas, result>>

\* What a call returns: text, a note about stored facts (memory tools only) or
\* an error.  A name outside the registry is an error too; none aborts the turn.
Outcomes(tool) ==
  (IF tool \in turn.registry THEN {"text", "error"} ELSE {"error"})
    \cup (IF tool \in turn.registry \cap MemoryTools THEN {"noted"} ELSE {})

\* Mutant: a failed tool leaves no message behind.
ResultIfAny(c, out) == IF out = "error" THEN <<>> ELSE <<ToolMessage(c)>>

\* The message a call leaves in the conversation, whatever its outcome.
Result(c, out) == <<ToolMessage(c)>>

\* An MCP tool is announced before it is called.
Announce(c) ==
  IF c.tool \in turn.registry \cap McpTools
    THEN <<EventOf("mcp_used", cursor)>> ELSE <<>>

\* memory_note: a stored fact was saved or forgotten.
MemoryNote(out) == IF out = "noted" THEN <<EventOf("memory", cursor)>> ELSE <<>>

\* The next requested tool runs and its result joins the conversation.
CallTool ==
  /\ pc = "calling"
  /\ cursor <= Len(calls)
  /\ LET c == calls[cursor] IN
       \E out \in Outcomes(c.tool) :
         /\ Emit(Announce(c) \o MemoryNote(out))
         /\ messages' = messages \o Result(c, out)
  /\ cursor' = cursor + 1
  /\ UNCHANGED <<turn, pc, round, sys, emitted, deltas, calls, result>>

MoreRounds == round + 1 < MaxRounds

\* Every call has its result: ask again, with nothing emitted yet.
AskAgain ==
  /\ pc = "calling"
  /\ cursor > Len(calls)
  /\ MoreRounds
  /\ round' = round + 1
  /\ pc' = "asking"
  /\ emitted' = FALSE
  /\ deltas' = 0
  /\ UNCHANGED <<turn, messages, sys, calls, cursor, events, result>>

\* All the allowed responses asked for tools.
GiveUp ==
  /\ pc = "calling"
  /\ cursor > Len(calls)
  /\ ~MoreRounds
  /\ pc' = "done"
  /\ result' = "tool_loop"
  /\ UNCHANGED <<turn, round, messages, sys, emitted, deltas, calls, cursor, events>>

Next ==
  \/ Start \/ Delta \/ ProviderFails \/ Answer \/ RequestTools
  \/ CallTool \/ AskAgain \/ GiveUp

Spec == Init /\ [][Next]_vars

----------------------------------------------------------------------------
\* Type invariant.
TypeOK ==
  /\ turn \in Turn
  /\ pc \in {"start", "asking", "calling", "done"}
  /\ round \in 0..(MaxRounds - 1)
  /\ messages \in Seq(Message)
  /\ sys \in {"absent", "plain", "named"}
  /\ emitted \in BOOLEAN
  /\ deltas \in 0..MaxDeltas
  /\ calls \in Seq(Call)
  /\ cursor \in 1..(Len(calls) + 1)
  /\ events \in Seq(Event)
  /\ result \in {"none", "ok", "failed", "tool_loop"}

Asks(i) == messages[i].role = "assistant_tools"

\* The k-th message after a request is the result of its k-th call, as far as
\* the conversation goes.
Answered(i) ==
  \A k \in 1..Len(messages[i].calls) :
    i + k <= Len(messages) => messages[i + k] = ToolMessage(messages[i].calls[k])

\* Only the request whose calls are running may still miss results.
Complete(i) ==
  \/ i + Len(messages[i].calls) <= Len(messages)
  \/ pc = "calling" /\ i = Len(messages) - cursor + 1

\* Each request for tools is followed by the results of exactly its calls, in
\* their order, and none is missing when the provider is asked again: providers
\* refuse a history where a call has no result (lib doc of run: "Executes tool
\* calls in order and preserves their IDs in follow-up history").
PairedHistory ==
  \A i \in 1..Len(messages) : Asks(i) => Answered(i) /\ Complete(i)

----------------------------------------------------------------------------
\* What the surface shows: the fragments received since the last reset.
Survives(i) ==
  events[i].type = "delta" /\ \A j \in (i + 1)..Len(events) : events[j].type # "reset"

Shown ==
  {[place |-> i, attempt |-> events[i].round] : i \in {i \in DOMAIN events : Survives(i)}}

Outcome ==
  IF pc # "done" THEN "open" ELSE IF result = "ok" THEN "ok" ELSE "failed"

Reply == INSTANCE ReplyStream
           WITH shown <- Shown, attempt <- round, outcome <- Outcome

\* The stream of events implements ReplyStream: text of a response that turned
\* out to ask for tools is discarded before the next response adds to it.
ImplementsReply == Reply!ReplySpec

=============================================================================
