---------------------------- MODULE StreamRelay ----------------------------
(***************************************************************************)
(* How the events of one streamed turn reach the browser: the handler      *)
(* chat_stream of ira-server/src/lib.rs and streamChat of                  *)
(* desktop/src/api.ts.                                                     *)
(*                                                                         *)
(* The turn puts events in an unbounded queue (ingress); a relay task      *)
(* moves them to a bounded one (body); the response body turns each into a *)
(* line; the client reads chunks that may end in the middle of a line.     *)
(* When the connection goes, the body is dropped and with it the relay,    *)
(* but not the turn.                                                       *)
(*                                                                         *)
(* Abstracted: the payload of events, and where in a line a chunk may end: *)
(* a line has a head and a tail, the tail holds the newline.               *)
(***************************************************************************)
EXTENDS Naturals, Sequences, SequencesExt

CONSTANTS
  Depth,      \* capacity of the body channel (32 in the code)
  MaxFragments   \* bound: provisional events of the turn

ASSUME StreamRelayAssumption ==
  /\ Depth \in Nat \ {0}
  /\ MaxFragments \in Nat

VARIABLES
  sender,     \* "running", "ended" (the sink is dropped) or "dead" (with its process)
  sent,     \* what the turn gave its sink
  ingress,  \* the unbounded queue
  relay,    \* "receiving", "sending", or "gone"
  held,     \* the event being sent, as a sequence of at most one
  body,     \* the bounded queue
  conn,     \* "open", "closed" (the body ended) or "broken"
  wire,     \* half lines on their way
  client,   \* "reading", "stalled", "ok", "failed" or "left"
  buffer,   \* half lines the client keeps for the next chunk
  got       \* the events the client has acted on

relayVars == <<sender, sent, ingress, relay, held, body, conn, wire, client, buffer, got>>

StreamEvents == [type : {"delta", "done", "error"}, seq : Nat]

\* The next event of the turn.
NextEvent(type) == [type |-> type, seq |-> Len(sent)]

HalfLine == [event : StreamEvents, part : {"head", "tail"}]

Line(e) == <<[event |-> e, part |-> "head"], [event |-> e, part |-> "tail"]>>

----------------------------------------------------------------------------
RelayInit ==
  /\ sender = "running"
  /\ sent = <<>>
  /\ ingress = <<>>
  /\ relay = "receiving"
  /\ held = <<>>
  /\ body = <<>>
  /\ conn = "open"
  /\ wire = <<>>
  /\ client = "reading"
  /\ buffer = <<>>
  /\ got = <<>>

\* sink(event): never waits, and is silent when the relay is gone.
Send(e) ==
  /\ sent' = Append(sent, e)
  /\ ingress' = IF relay = "gone" THEN ingress ELSE Append(ingress, e)

Provisional ==
  /\ sender = "running"
  /\ Len(sent) < MaxFragments
  /\ Send(NextEvent("delta"))
  /\ UNCHANGED <<sender, relay, held, body, conn, wire, client, buffer, got>>

\* The turn says how it ended and drops its sink.
EndTurn ==
  /\ sender = "running"
  /\ Send(NextEvent("done")) \/ Send(NextEvent("error"))
  /\ sender' = "ended"
  /\ UNCHANGED <<relay, held, body, conn, wire, client, buffer, got>>

----------------------------------------------------------------------------
RelayReceives ==
  /\ relay = "receiving"
  /\ ingress # <<>>
  /\ held' = <<Head(ingress)>>
  /\ ingress' = Tail(ingress)
  /\ relay' = "sending"
  /\ UNCHANGED <<sender, sent, body, conn, wire, client, buffer, got>>

\* body_tx.send waits for room.
RelaySends ==
  /\ relay = "sending"
  /\ Len(body) < Depth
  /\ body' = body \o held
  /\ held' = <<>>
  /\ relay' = "receiving"
  /\ UNCHANGED <<sender, sent, ingress, conn, wire, client, buffer, got>>

\* Mutant: the relay stops with the turn and forgets what is queued.
RelayEndsEarly ==
  /\ relay = "receiving"
  /\ sender = "ended"
  /\ relay' = "gone"
  /\ ingress' = <<>>
  /\ UNCHANGED <<sender, sent, held, body, conn, wire, client, buffer, got>>

\* The sink is dropped and everything was relayed: the body channel closes.
RelayEnds ==
  /\ relay = "receiving"
  /\ sender = "ended"
  /\ ingress = <<>>
  /\ relay' = "gone"
  /\ UNCHANGED <<sender, sent, ingress, held, body, conn, wire, client, buffer, got>>

\* The response body writes the next event as one line; nothing asks it for more when the
\* client no longer reads and the connection is full.
WriteLine ==
  /\ conn = "open"
  /\ client # "stalled"
  /\ body # <<>>
  /\ wire' = wire \o Line(Head(body))
  /\ body' = Tail(body)
  /\ UNCHANGED <<sender, sent, ingress, relay, held, conn, client, buffer, got>>

\* The channel is closed and empty: the body ends.
CloseBody ==
  /\ conn = "open"
  /\ relay = "gone"
  /\ body = <<>>
  /\ conn' = "closed"
  /\ UNCHANGED <<sender, sent, ingress, relay, held, body, wire, client, buffer, got>>

\* The connection goes: the body is dropped, which aborts the relay.
BreakConnection ==
  /\ conn = "open"
  /\ conn' = "broken"
  /\ relay' = "gone"
  /\ ingress' = <<>>
  /\ held' = <<>>
  /\ body' = <<>>
  /\ UNCHANGED <<sender, sent, wire, client, buffer, got>>

\* The process dies with the turn.
ServerDies ==
  /\ sender = "running"
  /\ sender' = "dead"
  /\ conn' = "broken"
  /\ relay' = "gone"
  /\ ingress' = <<>>
  /\ held' = <<>>
  /\ body' = <<>>
  /\ UNCHANGED <<sent, wire, client, buffer, got>>

----------------------------------------------------------------------------
\* Mutant: each chunk is parsed on its own.
RestForgotten(halves) == <<>>

\* What follows the last newline stays for the next chunk.
Rest(halves) ==
  IF halves # <<>> /\ Last(halves).part = "head" THEN <<Last(halves)>> ELSE <<>>

\* The complete lines of the buffered text, two halves each, behind what is left of a line
\* whose head was lost.
Lines(halves) ==
  LET lost == IF halves # <<>> /\ halves[1].part = "tail" THEN 1 ELSE 0
  IN  [k \in 1..((Len(halves) - lost) \div 2) |-> halves[lost + 2 * k].event]

\* reader.read(): a chunk of any length.
ReadChunk ==
  /\ client = "reading"
  /\ \E n \in 1..Len(wire) :
       LET halves == buffer \o SubSeq(wire, 1, n) IN
         /\ got' = got \o Lines(halves)
         /\ buffer' = Rest(halves)
         /\ wire' = SubSeq(wire, n + 1, Len(wire))
  /\ UNCHANGED <<sender, sent, ingress, relay, held, body, conn, client>>

\* The client has acted on an event of this type.
Said(type) == \E e \in Range(got) : e.type = type

\* An error event fails the call, and so does a stream without "done".
Verdict == IF ~Said("error") /\ Said("done") THEN "ok" ELSE "failed"

\* The stream ends after its last byte.
ReadEnd ==
  /\ client = "reading"
  /\ conn = "closed"
  /\ wire = <<>>
  /\ client' = Verdict
  /\ UNCHANGED <<sender, sent, ingress, relay, held, body, conn, wire, buffer, got>>

\* read() rejects; bytes on their way are lost.
ReadFails ==
  /\ client = "reading"
  /\ conn = "broken"
  /\ client' = "failed"
  /\ wire' = <<>>
  /\ UNCHANGED <<sender, sent, ingress, relay, held, body, conn, buffer, got>>

\* The page goes away; the server finds out when it breaks the connection.
Leave ==
  /\ client = "reading"
  /\ client' = "left"
  /\ UNCHANGED <<sender, sent, ingress, relay, held, body, conn, wire, buffer, got>>

\* The client keeps the connection and stops reading, for good: the connection is full.
Stall ==
  /\ client = "reading"
  /\ conn = "open"
  /\ client' = "stalled"
  /\ UNCHANGED <<sender, sent, ingress, relay, held, body, conn, wire, buffer, got>>

----------------------------------------------------------------------------
TurnStep == Provisional \/ EndTurn

RelayStep == RelayReceives \/ RelaySends \/ RelayEnds

BodyStep == WriteLine \/ CloseBody

ClientStep == ReadChunk \/ ReadEnd \/ ReadFails

RelayNext ==
  \/ TurnStep \/ RelayStep \/ BodyStep \/ ClientStep
  \/ BreakConnection \/ ServerDies \/ Leave \/ Stall

RelaySpec == RelayInit /\ [][RelayNext]_relayVars

----------------------------------------------------------------------------
\* What has not reached the client yet, in order; complete lines only.
InFlight == Lines(buffer \o wire) \o body \o held \o ingress

\* Whatever the pace of the relay and of the client and wherever chunks end, the
\* events a client acts on are the ones the turn sent, each once and in order; while
\* the connection lasts none is lost.
Conservation ==
  /\ IsPrefix(got, sent)
  /\ conn = "open" => got \o InFlight = sent

\* The client trusts a reply exactly when the turn said it was done, all of it was
\* received, and nothing was lost on the way.
HonestVerdict ==
  /\ client = "ok" => sender = "ended" /\ got = sent /\ Last(sent).type = "done"
  /\ client = "failed" => conn = "broken" \/ Last(sent).type = "error"

=============================================================================
