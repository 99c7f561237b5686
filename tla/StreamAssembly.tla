--------------------------- MODULE StreamAssembly ---------------------------
(***************************************************************************)
(* What a provider answers and what the turn receives of it (ira-llm:      *)
(* stream.rs Lines and Sse, and the parsers of the OpenAI-compatible,      *)
(* Claude, Ollama and Codex protocols).  A provider sends a reply as       *)
(* events, the events as lines, and the network cuts the lines anywhere;   *)
(* the parser puts lines, events, text and tool calls together again.      *)
(*                                                                         *)
(* Abstracted: a text or the arguments of a call are numbered pieces, an   *)
(* event's JSON is two halves, model names and reasoning items are left    *)
(* out.  External: the provider, which sends what its protocol says.       *)
(***************************************************************************)
EXTENDS Naturals, Sequences, SequencesExt

CONSTANTS
  Tools,      \* names of tools
  MaxTexts,   \* bound: pieces of text in a reply
  MaxToolCalls,   \* bound: tool calls in a reply
  MaxArgs,    \* bound: pieces of the arguments of a call
  MaxWire     \* bound: tokens on their way when the provider sends an event

ASSUME AsmAssumption == {MaxTexts, MaxToolCalls, MaxArgs} \subseteq Nat

VARIABLES
  protocol,
  crlf,      \* lines end in CR LF
  plan,      \* the reply the provider means: [texts, calls: a sequence of [name, known, args]]
  emitted,   \* what it has sent of it: [texts, args: pieces per call begun, finished, closed]
  wire,      \* the tokens on their way
  parser,    \* [line, data, text, told, calls, complete, failed]
  outcome,   \* "open", or how the request ended: "ok", "incomplete", "empty", "error"
  broken     \* history: the connection was cut, or the provider reported an error

asmVars == <<protocol, crlf, plan, emitted, wire, parser, outcome, broken>>

Protocols == {"openai", "claude", "ollama", "codex"}
SseNames == {"claude", "codex"}   \* those that name each event on a line of its own

Upto(n) == [i \in 1..n |-> i]
EmptyObject == <<0>>

\* An id the provider gave, or call_{index}_{name}.
Given(i) == [by |-> "server", at |-> i, name |-> "none"]
Invented(i, name) == [by |-> "client", at |-> i, name |-> name]

PlannedCalls == UNION {[1..n -> [name : Tools, known : BOOLEAN, args : 0..MaxArgs]] : n \in 0..MaxToolCalls}

\* Only compatible servers leave ids out on their own; Ollama has none, and whole arguments.
Sensible(p, q) ==
  /\ q.texts > 0 \/ q.calls # <<>>
  /\ \A i \in DOMAIN q.calls : /\ p \in {"claude", "codex"} => q.calls[i].known
                               /\ p = "ollama" => ~q.calls[i].known
                               /\ p \in {"ollama", "codex"} => q.calls[i].args = 1

Fresh == [line |-> <<>>, data |-> <<>>, text |-> <<>>, told |-> <<>>, calls |-> <<>>,
          complete |-> FALSE, failed |-> FALSE]

AsmInit ==
  /\ protocol \in Protocols
  /\ crlf \in BOOLEAN
  /\ plan \in {q \in [texts : 0..MaxTexts, calls : PlannedCalls] : Sensible(protocol, q)}
  /\ emitted = [texts |-> 0, args |-> <<>>, finished |-> FALSE, closed |-> FALSE]
  /\ wire = <<>> /\ parser = Fresh /\ outcome = "open" /\ broken = FALSE

----------------------------------------------------------------------------
\* External: the provider.  A token is half the data of an event, the line with its name,
\* or the end of a line.

Event(type, at, n) == [type |-> type, at |-> at, n |-> n]
Half(k, e) == [k |-> k, event |-> e]
Nowhere == Event("none", 0, 0)
NL == Half("nl", Nowhere)
CR == Half("cr", Nowhere)
EndOfLine == IF crlf THEN <<CR, NL>> ELSE <<NL>>

Framed(e) ==
  (IF protocol \in SseNames THEN <<Half("name", Nowhere)>> \o EndOfLine ELSE <<>>)
  \o <<Half("head", e), Half("tail", e)>> \o EndOfLine
  \o (IF protocol = "ollama" THEN <<>> ELSE EndOfLine)

Begun == Len(emitted.args)
AllSent ==
  /\ emitted.texts = plan.texts /\ Begun = Len(plan.calls)
  /\ \A i \in 1..Begun : emitted.args[i] = plan.calls[i].args

Sending == outcome = "open" /\ ~emitted.closed /\ Len(wire) <= MaxWire
Put(e) == wire' = wire \o Framed(e)

SendText ==
  /\ Sending /\ emitted.texts < plan.texts /\ ~emitted.finished
  /\ emitted' = [emitted EXCEPT !.texts = @ + 1]
  /\ Put(Event("text", 0, emitted.texts + 1))
  /\ UNCHANGED <<protocol, crlf, plan, parser, outcome, broken>>

\* Ollama lists whole calls in one message or in several, Codex sends whole items, the
\* others begin a call with its id and name.
SendCall ==
  /\ Sending /\ Begun < Len(plan.calls)
  /\ \E n \in 1..(Len(plan.calls) - Begun) :
       /\ n > 1 => protocol = "ollama"
       /\ emitted' = [emitted EXCEPT !.args = @ \o [i \in 1..n |-> IF protocol \in {"ollama", "codex"} THEN 1 ELSE 0]]
       /\ Put(Event("call", Begun + 1, n))
  /\ UNCHANGED <<protocol, crlf, plan, parser, outcome, broken>>

\* Claude finishes a block before it begins another one.
SendArgs ==
  /\ Sending
  /\ \E i \in 1..Begun :
       /\ emitted.args[i] < plan.calls[i].args
       /\ protocol = "claude" => i = Begun
       /\ emitted' = [emitted EXCEPT !.args[i] = @ + 1]
       /\ Put(Event("args", i, emitted.args[i] + 1))
  /\ UNCHANGED <<protocol, crlf, plan, parser, outcome, broken>>

\* finish_reason, message_stop, done: true, or response.completed with or without its output.
\* Codex may leave it to its output to say everything.
\* The blank line after the last event may be missing, and [DONE] may follow.
SendFinish ==
  /\ Sending /\ ~emitted.finished
  /\ \E full \in 0..1, closed \in BOOLEAN, less \in 0..2 :
       /\ AllSent \/ (protocol = "codex" /\ full = 1 /\ emitted.texts \in {0, plan.texts})
       /\ full = 1 => protocol = "codex"
       /\ less > 0 => closed
       /\ less = 2 => protocol # "ollama"
       /\ emitted' = [emitted EXCEPT !.finished = TRUE, !.closed = closed]
       /\ wire' = wire \o SubSeq(Framed(Event("finish", 0, full)), 1, Len(Framed(Nowhere)) - less * Len(EndOfLine))
  /\ UNCHANGED <<protocol, crlf, plan, parser, outcome, broken>>

SendDone ==
  /\ Sending /\ emitted.finished /\ protocol \in {"openai", "codex"}
  /\ emitted' = [emitted EXCEPT !.closed = TRUE]
  /\ Put(Event("[DONE]", 0, 0))
  /\ UNCHANGED <<protocol, crlf, plan, parser, outcome, broken>>

SendError ==
  /\ Sending /\ ~emitted.finished
  /\ emitted' = [emitted EXCEPT !.closed = TRUE]
  /\ Put(Event("error", 0, 0))
  /\ broken' = TRUE
  /\ UNCHANGED <<protocol, crlf, plan, parser, outcome>>

----------------------------------------------------------------------------
\* The parsers' events.

Says(p, pieces) == [p EXCEPT !.text = @ \o pieces, !.told = @ \o pieces]

\* openai_compatible: fragments are added to the call at their index.
OpenAiEvent(p, e) ==
  LET grown == [i \in 1..(IF e.at > Len(p.calls) THEN e.at ELSE Len(p.calls)) |->
                  IF i <= Len(p.calls) THEN p.calls[i] ELSE [id |-> "none", name |-> "none", args |-> <<>>]]
  IN CASE e.type = "text" -> Says(p, <<e.n>>)
       [] e.type = "call" ->
            [p EXCEPT !.calls = [grown EXCEPT ![e.at].name = plan.calls[e.at].name,
                                              ![e.at].id = IF plan.calls[e.at].known THEN "given" ELSE "none"]]
       [] e.type = "args" -> [p EXCEPT !.calls = [grown EXCEPT ![e.at].args = Append(@, e.n)]]
       [] e.type \in {"finish", "[DONE]"} -> [p EXCEPT !.complete = TRUE]
       [] OTHER -> [p EXCEPT !.failed = TRUE]

\* claude: a block begins the call, partial_json is added to the call of its block.
ClaudeEvent(p, e) ==
  CASE e.type = "text" -> Says(p, <<e.n>>)
    [] e.type = "call" ->
         [p EXCEPT !.calls = Append(@, [id |-> "given", name |-> plan.calls[e.at].name, args |-> <<>>])]
    [] e.type = "args" -> [p EXCEPT !.calls[e.at].args = Append(@, e.n)]
    [] e.type = "finish" -> [p EXCEPT !.complete = TRUE]
    [] OTHER -> [p EXCEPT !.failed = TRUE]

\* ollama: a call is known by its place in its message and its name; the same id again
\* replaces it.
OllamaCall(calls, c) ==
  IF \E i \in DOMAIN calls : calls[i].id = c.id
    THEN [i \in DOMAIN calls |-> IF calls[i].id = c.id THEN c ELSE calls[i]]
    ELSE Append(calls, c)

\* The calls of one message, from the planned call at on.
OllamaCalls(calls, at, n) ==
  LET put[i \in 0..n] ==
        IF i = 0 THEN calls
        ELSE LET name == plan.calls[at + i - 1].name
             IN OllamaCall(put[i - 1], [id |-> Invented(i - 1, name), name |-> name, args |-> <<at + i - 1>>])
  IN put[n]

OllamaEvent(p, e) ==
  CASE e.type = "text" -> Says(p, <<e.n>>)
    [] e.type = "call" -> [p EXCEPT !.calls = OllamaCalls(@, e.at, e.n)]
    [] e.type = "finish" -> [p EXCEPT !.complete = TRUE]
    [] OTHER -> [p EXCEPT !.failed = TRUE]

\* codex: an item is a whole call; what response.completed repeats is not added again.
CodexCall(calls, i) ==
  IF \E j \in DOMAIN calls : calls[j].id = Given(i) THEN calls
  ELSE Append(calls, [id |-> Given(i), name |-> plan.calls[i].name, args |-> <<i>>])

CodexCalls(calls, n) ==
  LET put[i \in 0..n] == IF i = 0 THEN calls ELSE CodexCall(put[i - 1], i) IN put[n]

CodexEvent(p, e) ==
  CASE e.type = "text" -> Says(p, <<e.n>>)
    [] e.type = "call" -> [p EXCEPT !.calls = CodexCall(@, e.at)]
    [] e.type = "finish" ->
         LET done == [p EXCEPT !.complete = TRUE]
             told == IF p.text = <<>> THEN Says(done, Upto(plan.texts)) ELSE done
         IN IF e.n = 0 THEN done
            ELSE [told EXCEPT !.calls = CodexCalls(@, Len(plan.calls))]
    [] e.type = "[DONE]" -> p
    [] OTHER -> [p EXCEPT !.failed = TRUE]

Understood(p, e) ==
  CASE protocol = "openai" -> OpenAiEvent(p, e)
    [] protocol = "claude" -> ClaudeEvent(p, e)
    [] protocol = "ollama" -> OllamaEvent(p, e)
    [] OTHER -> CodexEvent(p, e)

Stripped(line) == IF line # <<>> /\ Last(line) = CR THEN Front(line) ELSE line

\* An event whose JSON is cut is an error.  A CR behind it is white space, but not behind
\* [DONE].
Take(p, data) ==
  IF Len(Stripped(data)) # 2 \/ (Len(data) = 3 /\ data[1].event.type = "[DONE]") THEN [p EXCEPT !.failed = TRUE]
  ELSE Understood(p, data[1].event)

----------------------------------------------------------------------------
\* stream.rs: Lines cuts the bytes at line ends, Sse joins the data lines of an event.

Line(p, line) ==
  IF protocol = "ollama" THEN IF line = <<>> THEN p ELSE Take(p, line)
  ELSE IF line = <<>> THEN IF p.data = <<>> THEN p ELSE Take([p EXCEPT !.data = <<>>], p.data)
  ELSE IF line[1].k \in {"name", "cr"} THEN p
  ELSE [p EXCEPT !.data = @ \o line]

Token(p, t) ==
  IF p.failed THEN p
  ELSE IF t = NL THEN Line([p EXCEPT !.line = <<>>], Stripped(p.line))
  ELSE [p EXCEPT !.line = Append(@, t)]

\* The parser behind each token of a sequence.
Steps(p, tokens) ==
  LET at[i \in 0..Len(tokens)] == IF i = 0 THEN p ELSE Token(at[i - 1], tokens[i]) IN at

\* push: a chunk of any length.
Chunk ==
  /\ outcome = "open" /\ wire # <<>>
  /\ \E n \in 1..Len(wire) :
       /\ parser' = Steps(parser, wire)[n]
       /\ wire' = SubSeq(wire, n + 1, Len(wire))
  /\ outcome' = IF parser'.failed THEN "error" ELSE outcome
  /\ UNCHANGED <<protocol, crlf, plan, emitted, broken>>

\* What is left in the buffers when the stream ends.  The last line keeps its CR.
Emptied(p) ==
  LET q == IF p.line = <<>> THEN p ELSE Line([p EXCEPT !.line = <<>>], p.line)
  IN IF q.failed \/ q.data = <<>> THEN q ELSE Take([q EXCEPT !.data = <<>>], q.data)

\* Mutant: a stream that ended is complete.
EndedAny(p) == IF p.failed THEN "error" ELSE IF p.text = <<>> /\ p.calls = <<>> THEN "empty" ELSE "ok"

Ended(p) ==
  IF p.failed THEN "error"
  ELSE IF ~p.complete THEN "incomplete"
  ELSE IF p.text = <<>> /\ p.calls = <<>> THEN "empty" ELSE "ok"

\* finish: calls that got no id or no arguments.
Completed(calls) ==
  IF protocol \in {"ollama", "codex"} THEN calls
  ELSE [i \in DOMAIN calls |->
          [id |-> IF calls[i].id = "given" THEN Given(i) ELSE Invented(i - 1, calls[i].name),
           name |-> calls[i].name,
           args |-> IF calls[i].args = <<>> THEN EmptyObject ELSE calls[i].args]]

\* The stream ends: where the provider ended it, or before.
End ==
  /\ outcome = "open"
  /\ broken' = (broken \/ wire # <<>> \/ ~emitted.finished)
  /\ wire' = <<>>
  /\ LET p == Emptied(parser) IN
     /\ outcome' = Ended(p)
     /\ parser' = [p EXCEPT !.calls = Completed(@)]
  /\ UNCHANGED <<protocol, crlf, plan, emitted>>

\* A call as the turn should get it.
Meant(i) ==
  [name |-> plan.calls[i].name,
   args |-> IF protocol \in {"ollama", "codex"} THEN <<i>>
            ELSE IF plan.calls[i].args = 0 THEN EmptyObject ELSE Upto(plan.calls[i].args)]

\* The answer in one body: nothing was streamed.
Unstreamed ==
  outcome = "open" /\ emitted.texts = 0 /\ Begun = 0 /\ ~emitted.finished /\ ~emitted.closed

InOneBody(n, calls) == parser' = [Fresh EXCEPT !.text = Upto(n), !.told = @ \o Upto(n), !.calls = calls]

BodyCall(i) ==
  [id |-> IF plan.calls[i].known THEN Given(i) ELSE Invented(i - 1, plan.calls[i].name),
   name |-> plan.calls[i].name, args |-> Meant(i).args]

BodyCalls(n) == [i \in 1..n |-> BodyCall(i)]

\* parse_response.  Codex is streamed all the same: when there is no text, the calls of
\* response.completed are added to those of the items, which it repeats.
AnswerWhole ==
  /\ Unstreamed
  /\ LET calls == BodyCalls(Len(plan.calls)) IN
     \/ InOneBody(plan.texts, calls)
     \/ protocol = "codex" /\ plan.texts = 0 /\ InOneBody(0, calls \o calls)
  /\ outcome' = "ok"
  /\ UNCHANGED <<protocol, crlf, plan, emitted, wire, broken>>

\* The body of Codex ends early, within an event or between two.  Nothing asks for
\* response.completed: what there is until then is the reply.
AnswerCut ==
  /\ Unstreamed /\ protocol = "codex"
  /\ \/ outcome' = "error" /\ UNCHANGED parser
     \/ \E n \in 0..plan.texts, m \in 0..Len(plan.calls) :
          /\ InOneBody(n, BodyCalls(m))
          /\ outcome' = IF n = 0 /\ m = 0 THEN "empty" ELSE "ok"
  /\ broken' = TRUE
  /\ UNCHANGED <<protocol, crlf, plan, emitted, wire>>

AsmNext ==
  \/ SendText \/ SendCall \/ SendArgs \/ SendFinish \/ SendDone \/ SendError
  \/ Chunk \/ End \/ AnswerWhole \/ AnswerCut

AsmSpec == AsmInit /\ [][AsmNext]_asmVars

----------------------------------------------------------------------------
Whole ==
  /\ parser.text = Upto(plan.texts) /\ parser.told = parser.text
  /\ Len(parser.calls) = Len(plan.calls)
  /\ \A i \in DOMAIN plan.calls :
       /\ parser.calls[i].name = Meant(i).name /\ parser.calls[i].args = Meant(i).args
       /\ plan.calls[i].known => parser.calls[i].id = Given(i)
       /\ \A j \in DOMAIN plan.calls : parser.calls[i].id = parser.calls[j].id => i = j

\* Three gaps of the code: Ollama may send calls for one tool in messages of their own, and
\* Codex, when its answer is read as one body, repeats its calls behind no text, and takes a
\* body that ends early for the answer.
AnsweredWhole == outcome = "ok" /\ ~emitted.finished
NamedAlike == \E i, j \in DOMAIN plan.calls : i # j /\ plan.calls[i].name = plan.calls[j].name
KnownGap == (protocol = "ollama" /\ NamedAlike) \/ (protocol = "codex" /\ AnsweredWhole /\ (plan.texts = 0 \/ broken))

\* Wherever the network cuts the stream, an answer that is accepted is the one the provider
\* meant, its text told once, its calls in order, each with an id of its own; and an answer
\* that arrived whole is accepted.
AcceptedIsMeant ==
  /\ outcome = "ok" => Whole \/ KnownGap
  /\ outcome \notin {"open", "ok"} => broken

\* "Streams provider text fragments to `sink` while accumulating the complete response."
WholeReply == outcome = "ok" /\ emitted.finished => Whole
=============================================================================
