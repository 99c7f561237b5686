---------------------------- MODULE StreamProofs -----------------------------
(***************************************************************************)
(* An accepted answer is the one the provider meant, for any plan of a     *)
(* reply, any bounds and any way the network cuts the stream.              *)
(*                                                                         *)
(* The argument: what is on its way (Reads) leads the parser, token by     *)
(* token and over safe states only, to one that tells what the provider    *)
(* has sent so far (Telling).  A state is safe if a stream that ends in it *)
(* is refused or is the whole reply.  Sending appends the tokens of one    *)
(* event to the way, which lead a parser that is between two events over   *)
(* safe states to one that has understood it; taking a chunk goes along    *)
(* the way; and the end of the stream, early or not, finds the parser in a *)
(* safe state.  What the recursive functions of the parsers compute for    *)
(* sequences of any length uses that the naturals are well-founded.        *)
(***************************************************************************)
EXTENDS StreamAssembly, SequenceTheorems, WellFoundedInduction, TLAPS

----------------------------------------------------------------------------
\* Counting.

\* A set that has zero, and with a number the next one, has all the numbers up to n.
LEMMA CountsUp ==
  ASSUME NEW n \in Nat, NEW S, 0 \in S, \A i \in 0..(n - 1) : i \in S => i + 1 \in S
  PROVE  \A i \in 0..n : i \in S
<1>. DEFINE rest == {i \in 0..n : i \notin S}
<1>. SUFFICES ASSUME rest # {} PROVE FALSE
  OBVIOUS
<1>1. rest \subseteq Nat
  OBVIOUS
<1>2. PICK x \in rest : \A y \in rest : ~ (<<y, x>> \in OpToRel(<, Nat))
  BY <1>1, NatLessThanWellFounded, WFMin
<1>3. x \in 0..n /\ x \notin S /\ x # 0
  OBVIOUS
<1>4. x - 1 \in 0..(n - 1) /\ x - 1 \in Nat /\ x \in Nat
  BY <1>3
<1>5. x - 1 \notin S
  BY <1>3, <1>4
<1>6. x - 1 \in rest
  BY <1>4, <1>5
<1>7. ~ (x - 1 < x)
  BY <1>1, <1>2, <1>4, <1>6 DEF OpToRel
<1>. QED
  BY <1>4, <1>7

----------------------------------------------------------------------------
\* What a parser makes of a sequence of tokens.

\* The events of a provider, and the tokens they are cut into.
Events ==
  [type : {"text", "call", "args", "finish", "[DONE]", "error", "none"}, at : Nat, n : Nat]

Tokens == [k : {"name", "head", "tail", "nl", "cr"}, event : Events]

\* h is the parser p behind each of the tokens ts.
IsReading(h, p, ts) ==
  h = [i \in 0..Len(ts) |-> IF i = 0 THEN p ELSE Token(h[i - 1], ts[i])]

\* There is one such function.
LEMMA StepsAre ==
  ASSUME NEW p, NEW ts \in Seq(Tokens), NEW h, IsReading(h, p, ts)
  PROVE  Steps(p, ts) = h
<1>. DEFINE g == Steps(p, ts)
            S == {i \in 0..Len(ts) : g[i] = h[i]}
<1>1. IsReading(g, p, ts)
  BY Zenon DEF Steps, IsReading
<1>. HIDE DEF g
<1>2. Len(ts) \in Nat
  OBVIOUS
<1>3. 0 \in 0..Len(ts) /\ \A i \in 0..(Len(ts) - 1) : i + 1 \in 0..Len(ts) /\ i + 1 # 0 /\ (i + 1) - 1 = i
  BY <1>2
<1>4. 0 \in S
  <2>1. g[0] = p /\ h[0] = p
    BY <1>1, <1>3, Zenon DEF IsReading
  <2>. QED
    BY <2>1, <1>3
<1>5. ASSUME NEW i \in 0..(Len(ts) - 1), i \in S
      PROVE  i + 1 \in S
  <2>1. g[i + 1] = Token(g[(i + 1) - 1], ts[i + 1]) /\ h[i + 1] = Token(h[(i + 1) - 1], ts[i + 1])
    BY <1>1, <1>3, Zenon DEF IsReading
  <2>. QED
    BY <2>1, <1>3, <1>5
<1>6. \A i \in 0..Len(ts) : i \in S
  <2>. HIDE DEF S
  <2>. QED
    BY <1>2, <1>4, <1>5, CountsUp
<1>7. \A i \in 0..Len(ts) : g[i] = h[i]
  BY <1>6
<1>8. g = [i \in 0..Len(ts) |-> g[i]] /\ h = [i \in 0..Len(ts) |-> h[i]]
  BY <1>1 DEF IsReading
<1>9. g = h
  BY <1>7, <1>8, Zenon
<1>. QED
  BY <1>9 DEF g

\* How many pieces of arguments each planned call has.
PlannedArgs == [i \in DOMAIN plan.calls |-> plan.calls[i].args]

\* A call that has been begun and has n pieces of its arguments, a call of Codex, one of Ollama.
BegunCall(i, n) ==
  [id |-> IF plan.calls[i].known THEN "given" ELSE "none", name |-> plan.calls[i].name, args |-> Upto(n)]
ItemCall(i) == [id |-> Given(i), name |-> plan.calls[i].name, args |-> <<i>>]
ListedCall(m, i) ==
  [id |-> Invented(m, plan.calls[i].name), name |-> plan.calls[i].name, args |-> <<i>>]

\* The calls of a parser.
CallIds == {"given", "none"} \cup [by : {"server", "client"}, at : Nat, name : Tools \cup {"none"}]
CallRecords == [id : CallIds, name : Tools, args : Seq(Nat)]

\* The first n calls of Codex.
CodexItems(n) == [i \in 1..n |-> ItemCall(i)]

\* The first k calls of Ollama.  One of a name that comes twice may be lost.
Lists(cs, k) ==
  /\ cs \in Seq(CallRecords)
  /\ k > 0 => cs # <<>>
  /\ NamedAlike \/ Len(cs) = k
  /\ NamedAlike \/ \A i \in 1..k : \E m \in Nat : cs[i] = ListedCall(m, i)

\* The calls that a parser has put together of the pieces args.
Carries(cs, args) ==
  /\ protocol \in {"openai", "claude"} => cs = [i \in 1..Len(args) |-> BegunCall(i, args[i])]
  /\ protocol = "codex" => cs = CodexItems(Len(args))
  /\ protocol = "ollama" => Lists(cs, Len(args))

\* The record of a parser.
IsState(t) ==
  t = [line |-> t.line, data |-> t.data, text |-> t.text, told |-> t.told, calls |-> t.calls,
       complete |-> t.complete, failed |-> t.failed]

\* The parser has the whole reply.
Final(t) ==
  /\ IsState(t) /\ t.text = Upto(plan.texts) /\ t.told = Upto(plan.texts) /\ Carries(t.calls, PlannedArgs)

\* A stream that ends here, and is accepted, says the whole reply; a parser fails only on a stream
\* that is broken.
Safe(s, b) ==
  /\ s.failed => b
  /\ ~s.failed /\ Emptied(s).complete /\ ~Emptied(s).failed => Final(Emptied(s))

\* From p the tokens ts lead to q, over safe states.
Reads(p, ts, q, b) ==
  \E h : IsReading(h, p, ts) /\ h[Len(ts)] = q /\ \A i \in 0..Len(ts) : Safe(h[i], b)

\* The length of a sequence of tokens.
LEMMA TokensLen ==
  ASSUME NEW ts \in Seq(Tokens)
  PROVE  Len(ts) \in Nat /\ 0 \in 0..Len(ts) /\ Len(ts) \in 0..Len(ts)
OBVIOUS

\* No token.
LEMMA ReadsNothing ==
  ASSUME NEW p, NEW b, Safe(p, b)
  PROVE  Reads(p, <<>>, p, b)
<1>. DEFINE h == [i \in 0..0 |-> p]
<1>1. Len(<<>>) = 0 /\ 0..0 = {0}
  OBVIOUS
<1>2. h = [i \in 0..Len(<<>>) |-> IF i = 0 THEN p ELSE Token(h[i - 1], <<>>[i])]
  BY <1>1
<1>. QED
  BY <1>1, <1>2 DEF Reads, IsReading

\* One token.
LEMMA ReadsOne ==
  ASSUME NEW p, NEW b, NEW t, Safe(p, b), Safe(Token(p, t), b)
  PROVE  Reads(p, <<t>>, Token(p, t), b)
<1>. DEFINE h == [i \in 0..1 |-> IF i = 0 THEN p ELSE Token(p, t)]
<1>1. Len(<<t>>) = 1 /\ 0..1 = {0, 1} /\ <<t>>[1] = t /\ 1 - 1 = 0
  OBVIOUS
<1>2. h[0] = p /\ h[1] = Token(p, t)
  OBVIOUS
<1>3. h = [i \in 0..Len(<<t>>) |-> IF i = 0 THEN p ELSE Token(h[i - 1], <<t>>[i])]
  BY <1>1, <1>2
<1>4. \A i \in 0..1 : Safe(h[i], b)
  BY <1>1, <1>2
<1>. HIDE DEF h
<1>. QED
  BY <1>1, <1>2, <1>3, <1>4 DEF Reads, IsReading

\* One sequence after another.
LEMMA ReadsOn ==
  ASSUME NEW p, NEW q, NEW r, NEW b, NEW ts \in Seq(Tokens), NEW us \in Seq(Tokens),
         Reads(p, ts, q, b), Reads(q, us, r, b)
  PROVE  Reads(p, ts \o us, r, b)
<1>1. PICK g : IsReading(g, p, ts) /\ g[Len(ts)] = q /\ \A i \in 0..Len(ts) : Safe(g[i], b)
  BY DEF Reads
<1>2. PICK h : IsReading(h, q, us) /\ h[Len(us)] = r /\ \A i \in 0..Len(us) : Safe(h[i], b)
  BY DEF Reads
<1>. DEFINE n == Len(ts)
            m == Len(us)
            f == [i \in 0..(n + m) |-> IF i <= n THEN g[i] ELSE h[i - n]]
<1>3. n \in Nat /\ m \in Nat
  OBVIOUS
<1>4. /\ Len(ts \o us) = n + m
      /\ \A i \in 1..n : (ts \o us)[i] = ts[i]
      /\ \A i \in 1..m : (ts \o us)[n + i] = us[i]
  BY <1>3
<1>5. h[0] = q /\ \A i \in 1..m : h[i] = Token(h[i - 1], us[i])
  BY <1>2, <1>3, SMTT(40) DEF IsReading
<1>6. g[0] = p /\ \A i \in 1..n : g[i] = Token(g[i - 1], ts[i])
  BY <1>1, <1>3 DEF IsReading
<1>7. /\ \A i \in 0..n : f[i] = g[i]
      /\ \A i \in 0..m : f[n + i] = h[i]
  <2>1. ASSUME NEW i \in 0..n PROVE f[i] = g[i]
    BY <1>3
  <2>2. ASSUME NEW i \in 0..m PROVE f[n + i] = h[i]
    <3>1. CASE i = 0
      BY <1>3, <1>1, <1>5, <3>1
    <3>2. CASE i # 0
      <4>1. ~(n + i <= n) /\ (n + i) - n = i /\ n + i \in 0..(n + m)
        BY <1>3, <3>2
      <4>. QED
        BY <4>1
    <3>. QED
      BY <3>1, <3>2
  <2>. QED
    BY <2>1, <2>2
<1>8. ASSUME NEW i \in 0..(n + m)
      PROVE  f[i] = (IF i = 0 THEN p ELSE Token(f[i - 1], (ts \o us)[i])) /\ Safe(f[i], b)
  <2>1. CASE i = 0
    BY <2>1, <1>3, <1>7, <1>6, <1>1
  <2>2. CASE i \in 1..n
    <3>1. i - 1 \in 0..n /\ i \in 0..n /\ i # 0
      BY <2>2, <1>3
    <3>. HIDE DEF f
    <3>. QED
      BY <3>1, <2>2, <1>1, <1>4, <1>6, <1>7
  <2>3. CASE i > n
    <3>. DEFINE j == i - n
    <3>1. j \in 1..m /\ j - 1 \in 0..m /\ j \in 0..m /\ i = n + j /\ i - 1 = n + (j - 1) /\ i # 0
      BY <2>3, <1>3
    <3>. HIDE DEF f, j
    <3>2. f[i] = h[j] /\ f[i - 1] = h[j - 1] /\ (ts \o us)[i] = us[j]
      BY <3>1, <1>4, <1>7
    <3>. QED
      BY <3>1, <3>2, <1>2, <1>5
  <2>. QED
    BY <2>1, <2>2, <2>3, <1>3
<1>9. f[n + m] = r
  BY <1>2, <1>3, <1>7
<1>10. f = [i \in 0..(n + m) |-> f[i]]
  OBVIOUS
<1>. HIDE DEF f
<1>11. f = [i \in 0..(n + m) |-> IF i = 0 THEN p ELSE Token(f[i - 1], (ts \o us)[i])]
  BY <1>8, <1>10, Zenon
<1>12. IsReading(f, p, ts \o us)
  BY <1>4, <1>11, Zenon DEF IsReading
<1>13. f[Len(ts \o us)] = r /\ \A i \in 0..Len(ts \o us) : Safe(f[i], b)
  BY <1>4, <1>8, <1>9, Zenon
<1>. QED
  BY <1>12, <1>13, Zenon DEF Reads

\* The first of the tokens, and the others after them.
LEMMA ReadsPart ==
  ASSUME NEW p, NEW q, NEW b, NEW ts \in Seq(Tokens), NEW n \in 1..Len(ts), Reads(p, ts, q, b)
  PROVE  /\ Safe(Steps(p, ts)[n], b)
         /\ Reads(Steps(p, ts)[n], SubSeq(ts, n + 1, Len(ts)), q, b)
<1>1. PICK g : IsReading(g, p, ts) /\ g[Len(ts)] = q /\ \A i \in 0..Len(ts) : Safe(g[i], b)
  BY DEF Reads
<1>2. Steps(p, ts) = g
  BY <1>1, StepsAre
<1>. DEFINE us == SubSeq(ts, n + 1, Len(ts))
            m == Len(ts) - n
            f == [i \in 0..m |-> g[n + i]]
<1>3. Len(ts) \in Nat /\ n \in Nat /\ m \in Nat /\ n + m = Len(ts) /\ n \in 0..Len(ts)
  OBVIOUS
<1>4. Len(us) = m /\ \A i \in 1..m : us[i] = ts[n + i]
  <2>1. \A i \in (n + 1)..Len(ts) : ts[i] \in Tokens
    BY <1>3, ElementOfSeq
  <2>2. /\ Len(us) = IF n + 1 <= Len(ts) THEN Len(ts) - (n + 1) + 1 ELSE 0
        /\ \A i \in 1..(Len(ts) - (n + 1) + 1) : us[i] = ts[(n + 1) + i - 1]
    <3>1. n + 1 \in Int /\ Len(ts) \in Int
      BY <1>3
    <3>. QED
      BY <3>1, <2>1, SubSeqProperties
  <2>3. Len(ts) - (n + 1) + 1 = m /\ \A i \in 1..m : (n + 1) + i - 1 = n + i
    BY <1>3
  <2>. HIDE DEF us
  <2>4. Len(us) = m
    <3>1. Len(us) = (IF n + 1 <= Len(ts) THEN Len(ts) - (n + 1) + 1 ELSE 0)
      BY <2>2, Zenon
    <3>2. n <= Len(ts) /\ Len(ts) \in Nat /\ n \in Nat
      BY <1>3
    <3>. QED
      BY <3>1, <3>2
  <2>5. \A i \in 1..m : us[i] = ts[n + i]
    BY <2>2, <2>3
  <2>. QED
    BY <2>4, <2>5
<1>5. \A i \in 1..Len(ts) : g[i] = Token(g[i - 1], ts[i])
  BY <1>1, <1>3 DEF IsReading
<1>6. ASSUME NEW i \in 0..m
      PROVE  f[i] = (IF i = 0 THEN g[n] ELSE Token(f[i - 1], us[i])) /\ Safe(f[i], b)
  <2>1. n + i \in 0..Len(ts) /\ f[i] = g[n + i]
    BY <1>3
  <2>2. CASE i = 0
    BY <2>1, <2>2, <1>1, <1>3
  <2>3. CASE i # 0
    <3>1. i \in 1..m /\ i - 1 \in 0..m /\ n + i \in 1..Len(ts) /\ n + (i - 1) = (n + i) - 1
      BY <2>3, <1>3
    <3>2. f[i - 1] = g[(n + i) - 1]
      BY <3>1
    <3>. QED
      BY <2>1, <2>3, <3>1, <3>2, <1>1, <1>4, <1>5
  <2>. QED
    BY <2>2, <2>3
<1>7. f = [i \in 0..m |-> f[i]]
  OBVIOUS
<1>8. f[m] = q
  BY <1>1, <1>3
<1>. HIDE DEF f, us
<1>9. f = [i \in 0..m |-> IF i = 0 THEN g[n] ELSE Token(f[i - 1], us[i])]
  BY <1>6, <1>7, Zenon
<1>10. Reads(g[n], us, q, b)
  BY <1>4, <1>6, <1>8, <1>9 DEF Reads, IsReading
<1>. QED
  BY <1>1, <1>2, <1>3, <1>10 DEF us

\* The reply that is meant, its protocol and its line ends stay.
SameReply == UNCHANGED <<protocol, crlf, plan>>

\* While the reply stays the same, an event means the same in the next state,
LEMMA UnderstoodKept ==
  ASSUME NEW p, NEW e, SameReply
  PROVE  Understood(p, e)' = Understood(p, e)
<1>1. ASSUME NEW cs, NEW at, NEW n
      PROVE  OllamaCalls(cs, at, n)' = OllamaCalls(cs, at, n)
  BY Zenon DEF SameReply, OllamaCalls
<1>2. ASSUME NEW cs, NEW n
      PROVE  CodexCalls(cs, n)' = CodexCalls(cs, n) /\ CodexCall(cs, n)' = CodexCall(cs, n)
  <2>1. CodexCalls(cs, n)' = CodexCalls(cs, n)
    BY Zenon DEF SameReply, CodexCalls, CodexCall
  <2>2. CodexCall(cs, n)' = CodexCall(cs, n)
    BY Zenon DEF SameReply, CodexCall
  <2>. QED
    BY <2>1, <2>2
<1>3. OllamaEvent(p, e)' = OllamaEvent(p, e)
  BY <1>1, Zenon DEF OllamaEvent
<1>4. CodexEvent(p, e)' = CodexEvent(p, e)
  BY <1>2, Zenon DEF CodexEvent, SameReply
<1>5. OpenAiEvent(p, e)' = OpenAiEvent(p, e)
  BY Zenon DEF OpenAiEvent, SameReply
<1>6. ClaudeEvent(p, e)' = ClaudeEvent(p, e)
  BY Zenon DEF ClaudeEvent, SameReply
<1>. QED
  BY <1>3, <1>4, <1>5, <1>6, Zenon DEF Understood, SameReply

\* so does a token and the end of the stream,
LEMMA TokenKept ==
  ASSUME NEW p, NEW t, SameReply
  PROVE  Token(p, t)' = Token(p, t) /\ Emptied(p)' = Emptied(p)
<1>1. \A q, data : Take(q, data)' = Take(q, data)
  BY UnderstoodKept, Zenon DEF Take
<1>2. \A q, line : Line(q, line)' = Line(q, line)
  BY <1>1, Zenon DEF Line, SameReply
<1>. QED
  BY <1>1, <1>2, Zenon DEF Token, Emptied

\* the calls that are carried are the same,
LEMMA CarriesKept ==
  ASSUME NEW cs, NEW args, SameReply
  PROVE  Carries(cs, args)' = Carries(cs, args) /\ PlannedArgs' = PlannedArgs
BY Zenon DEF Carries, CodexItems, Lists, BegunCall, ItemCall, ListedCall, NamedAlike, PlannedArgs, SameReply

\* and what is read is read in the next state too.
LEMMA ReadsKept ==
  ASSUME NEW p, NEW ts, NEW q, NEW b, SameReply, Reads(p, ts, q, b)
  PROVE  Reads(p, ts, q, b)'
<1>1. \A t : Final(t)' = Final(t)
  BY CarriesKept, Zenon DEF Final, SameReply
<1>2. ASSUME NEW s PROVE Safe(s, b)' = Safe(s, b)
  <2>1. Emptied(s)' = Emptied(s)
    BY TokenKept
  <2>. QED
    BY <1>1, <2>1 DEF Safe
<1>t. \A s, t : Token(s, t)' = Token(s, t)
  BY TokenKept
<1>3. ASSUME NEW h PROVE IsReading(h, p, ts)' = IsReading(h, p, ts)
  BY <1>t, SMT DEF IsReading
<1>. QED
  BY <1>2, <1>3, Zenon DEF Reads

----------------------------------------------------------------------------
\* An event of the provider, read token by token.

\* A parser between two events, and the same one with l in its line and d in its event.
Clean(p) == IsState(p) /\ p.line = <<>> /\ p.data = <<>> /\ ~p.failed
Amid(p, l, d) ==
  [line |-> l, data |-> d, text |-> p.text, told |-> p.told, calls |-> p.calls,
   complete |-> p.complete, failed |-> p.failed]

\* Short sequences.
LEMMA Short ==
  ASSUME NEW S, NEW a \in S
  PROVE  <<a>> \in Seq(S) /\ Append(<<>>, a) = <<a>>
<1>1. <<>> \in Seq(S) /\ <<a>> \in Seq(S)
  OBVIOUS
<1>2. Len(<<>>) = 0 /\ Len(<<a>>) = 1
  OBVIOUS
<1>3. Append(<<>>, a) \in Seq(S) /\ Len(Append(<<>>, a)) = 1 /\ \A i \in 1..1 : Append(<<>>, a)[i] = <<a>>[i]
  BY <1>1, <1>2, AppendProperties
<1>. QED
  BY <1>1, <1>2, <1>3, SeqEqual

\* A second token behind a first,
LEMMA ShortPair ==
  ASSUME NEW S, NEW a \in S, NEW c \in S
  PROVE  <<a, c>> \in Seq(S) /\ Append(<<a>>, c) = <<a, c>> /\ <<a>> \o <<c>> = <<a, c>>
<1>1. <<a>> \in Seq(S) /\ <<a, c>> \in Seq(S)
  OBVIOUS
<1>2. Len(<<a>>) = 1 /\ Len(<<a, c>>) = 2
  OBVIOUS
<1>3. /\ Append(<<a>>, c) \in Seq(S) /\ Len(Append(<<a>>, c)) = 2
      /\ Append(<<a>>, c)[1] = a /\ Append(<<a>>, c)[2] = c
  BY <1>1, <1>2, AppendProperties
<1>4. \A i \in 1..2 : Append(<<a>>, c)[i] = <<a, c>>[i]
  BY <1>3
<1>5. Append(<<a>>, c) = <<a, c>>
  BY <1>1, <1>2, <1>3, <1>4, SeqEqual
<1>6. <<a>> \o <<c>> = <<a, c>>
  BY <1>1, <1>5, AppendIsConcat
<1>. QED
  BY <1>1, <1>5, <1>6

\* and a third.
LEMMA ShortThree ==
  ASSUME NEW S, NEW a \in S, NEW c \in S, NEW d \in S
  PROVE  Append(<<a, c>>, d) = <<a, c, d>>
<1>1. <<a, c>> \in Seq(S) /\ <<a, c, d>> \in Seq(S)
  OBVIOUS
<1>2. Len(<<a, c>>) = 2 /\ Len(<<a, c, d>>) = 3
  OBVIOUS
<1>3. /\ Append(<<a, c>>, d) \in Seq(S) /\ Len(Append(<<a, c>>, d)) = 3
      /\ Append(<<a, c>>, d)[1] = a /\ Append(<<a, c>>, d)[2] = c /\ Append(<<a, c>>, d)[3] = d
  BY <1>1, <1>2, AppendProperties
<1>4. \A i \in 1..3 : Append(<<a, c>>, d)[i] = <<a, c, d>>[i]
  BY <1>3
<1>. QED
  BY <1>1, <1>2, <1>3, <1>4, SeqEqual

\* The kinds of token.
LEMMA TokenKinds ==
  ASSUME NEW e \in Events
  PROVE  /\ Half("head", e) \in Tokens /\ Half("tail", e) \in Tokens /\ CR \in Tokens /\ NL \in Tokens
         /\ Half("name", Nowhere) \in Tokens
         /\ Half("head", e) # NL /\ Half("tail", e) # NL /\ CR # NL /\ Half("name", Nowhere) # NL
         /\ Half("head", e) # CR /\ Half("tail", e) # CR /\ Half("name", Nowhere) # CR
         /\ Half("head", e).k = "head" /\ Half("head", e).event = e
         /\ Half("name", Nowhere).k = "name" /\ CR.k = "cr"
<1>1. Nowhere \in Events
  BY DEF Nowhere, Event, Events
<1>2. \A k, x : Half(k, x).k = k /\ Half(k, x).event = x
  BY DEF Half
<1>3. \A k \in {"name", "head", "tail", "nl", "cr"}, x \in Events : Half(k, x) \in Tokens
  BY DEF Half, Tokens, Events
<1>4. NL.k = "nl" /\ CR.k = "cr"
  BY <1>2 DEF NL, CR
<1>5. CR \in Tokens /\ NL \in Tokens
  BY <1>1, <1>3 DEF NL, CR
<1>. QED
  BY <1>1, <1>2, <1>3, <1>4, <1>5

\* A line without the CR at its end.
LEMMA Strips ==
  ASSUME NEW a, NEW c, a # CR, c # CR
  PROVE  /\ Stripped(<<>>) = <<>> /\ Stripped(<<CR>>) = <<>>
         /\ Stripped(<<a>>) = <<a>> /\ Stripped(<<a, CR>>) = <<a>>
         /\ Stripped(<<a, c>>) = <<a, c>> /\ Stripped(<<a, c, CR>>) = <<a, c>>
<1>1. /\ Len(<<CR>>) = 1 /\ Len(<<a>>) = 1 /\ Len(<<a, CR>>) = 2 /\ Len(<<a, c>>) = 2 /\ Len(<<a, c, CR>>) = 3
      /\ <<a>>[1] = a /\ <<CR>>[1] = CR /\ <<a, CR>>[2] = CR /\ <<a, c>>[2] = c /\ <<a, c, CR>>[3] = CR
      /\ <<CR>> # <<>> /\ <<a>> # <<>> /\ <<a, CR>> # <<>> /\ <<a, c>> # <<>> /\ <<a, c, CR>> # <<>>
      /\ 1 - 1 = 0 /\ 2 - 1 = 1 /\ 3 - 1 = 2
  OBVIOUS
<1>2. SubSeq(<<CR>>, 1, 0) = <<>> /\ SubSeq(<<a, CR>>, 1, 1) = <<a>> /\ SubSeq(<<a, c, CR>>, 1, 2) = <<a, c>>
  <2>. DEFINE S == {a, c, CR}
              s == SubSeq(<<a, c, CR>>, 1, 2)
              t == SubSeq(<<a, CR>>, 1, 1)
  <2>1. SubSeq(<<CR>>, 1, 0) = <<>>
    OBVIOUS
  <2>2. s \in Seq(S) /\ Len(s) = 2 /\ s[1] = a /\ s[2] = c
    <3>1. \A i \in 1..2 : <<a, c, CR>>[i] \in S
      OBVIOUS
    <3>2. /\ s \in Seq(S)
          /\ Len(s) = IF 1 <= 2 THEN 2 - 1 + 1 ELSE 0
          /\ \A i \in 1..(2 - 1 + 1) : s[i] = <<a, c, CR>>[1 + i - 1]
      BY <3>1, SubSeqProperties
    <3>. HIDE DEF s, S
    <3>3. s[1] = <<a, c, CR>>[1] /\ s[2] = <<a, c, CR>>[2]
      BY <3>2
    <3>. QED
      BY <3>2, <3>3
  <2>3. t \in Seq(S) /\ Len(t) = 1 /\ t[1] = a
    <3>1. \A i \in 1..1 : <<a, CR>>[i] \in S
      OBVIOUS
    <3>2. /\ t \in Seq(S)
          /\ Len(t) = IF 1 <= 1 THEN 1 - 1 + 1 ELSE 0
          /\ \A i \in 1..(1 - 1 + 1) : t[i] = <<a, CR>>[1 + i - 1]
      BY <3>1, SubSeqProperties
    <3>. HIDE DEF t, S
    <3>3. t[1] = <<a, CR>>[1]
      BY <3>2
    <3>. QED
      BY <3>2, <3>3
  <2>4. <<a, c>> \in Seq(S) /\ <<a>> \in Seq(S) /\ Len(<<a, c>>) = 2 /\ Len(<<a>>) = 1
        /\ <<a, c>>[1] = a /\ <<a, c>>[2] = c /\ <<a>>[1] = a
    OBVIOUS
  <2>. HIDE DEF s, t, S
  <2>5. (\A i \in 1..2 : s[i] = <<a, c>>[i]) /\ \A i \in 1..1 : t[i] = <<a>>[i]
    BY <2>2, <2>3, <2>4
  <2>6. s = <<a, c>> /\ t = <<a>>
    BY <2>2, <2>3, <2>4, <2>5, SeqEqual
  <2>. QED
    BY <2>1, <2>6 DEF s, t
<1>. QED
  BY <1>1, <1>2, Zenon DEF Stripped, Last, Front

\* The parts of a parser amid an event.
LEMMA AmidParts ==
  ASSUME NEW p, NEW l, NEW d, NEW x
  PROVE  /\ p.failed \/ ~Amid(p, l, d).failed
         /\ Amid(p, l, d).line = l /\ Amid(p, l, d).data = d
         /\ [Amid(p, l, d) EXCEPT !.line = x] = Amid(p, x, d)
         /\ [Amid(p, l, d) EXCEPT !.data = x] = Amid(p, l, x)
<1>1. PICK r : r = Amid(p, l, d)
  OBVIOUS
<1>2. (p.failed \/ ~r.failed) /\ r.line = l /\ r.data = d
  BY <1>1 DEF Amid
<1>3. [r EXCEPT !.line = x] = Amid(p, x, d)
  BY <1>1 DEF Amid
<1>4. [r EXCEPT !.data = x] = Amid(p, l, x)
  BY <1>1 DEF Amid
<1>. QED
  BY <1>1, <1>2, <1>3, <1>4, Zenon

\* What the parser does amid an event.
LEMMA AmidNewline ==
  ASSUME NEW p, ~p.failed, NEW l, NEW d
  PROVE  Token(Amid(p, l, d), NL) = Line(Amid(p, <<>>, d), Stripped(l))
<1>1. ~Amid(p, l, d).failed /\ Amid(p, l, d).line = l
  BY AmidParts
<1>2. [Amid(p, l, d) EXCEPT !.line = <<>>] = Amid(p, <<>>, d)
  BY AmidParts
<1>. QED
  BY <1>1, <1>2, Zenon DEF Token

\* A token that does not end a line goes to the line.
LEMMA AmidToken ==
  ASSUME NEW p, ~p.failed, NEW l, NEW d, NEW t, t # NL, NEW x, Append(l, t) = x
  PROVE  Token(Amid(p, l, d), t) = Amid(p, x, d)
<1>1. ~Amid(p, l, d).failed /\ Amid(p, l, d).line = l
  BY AmidParts
<1>2. \A y : [Amid(p, l, d) EXCEPT !.line = y] = Amid(p, y, d)
  BY AmidParts
<1>3. [Amid(p, l, d) EXCEPT !.line = x] = Amid(p, x, d)
  BY <1>2, Zenon
<1>. QED
  BY <1>1, <1>3, Zenon DEF Token

\* What the end of the stream makes of a line and an event that are half read.
LEMMA AmidEmptied ==
  ASSUME NEW p, ~p.failed, NEW l, NEW d
  PROVE  /\ l = <<>> /\ d = <<>> => Emptied(Amid(p, l, d)) = Amid(p, l, d)
         /\ l = <<>> /\ d # <<>> => Emptied(Amid(p, l, d)) = Take(Amid(p, <<>>, <<>>), d)
         /\ \A x : l # <<>> /\ Line(Amid(p, <<>>, d), l) = Amid(p, <<>>, x) /\ x # <<>> =>
                     Emptied(Amid(p, l, d)) = Take(Amid(p, <<>>, <<>>), x)
         /\ l # <<>> /\ Line(Amid(p, <<>>, d), l) = Amid(p, <<>>, <<>>) => Emptied(Amid(p, l, d)) = Amid(p, <<>>, <<>>)
         /\ l # <<>> /\ Line(Amid(p, <<>>, d), l).failed => Emptied(Amid(p, l, d)) = Line(Amid(p, <<>>, d), l)
         /\ l # <<>> /\ Line(Amid(p, <<>>, d), l).data = <<>> => Emptied(Amid(p, l, d)) = Line(Amid(p, <<>>, d), l)
<1>1. ASSUME NEW x, NEW y
      PROVE  /\ ~Amid(p, x, y).failed /\ Amid(p, x, y).line = x /\ Amid(p, x, y).data = y
             /\ [Amid(p, x, y) EXCEPT !.line = <<>>] = Amid(p, <<>>, y)
             /\ [Amid(p, x, y) EXCEPT !.data = <<>>] = Amid(p, x, <<>>)
  BY AmidParts
<1>2. CASE l = <<>>
  <2>1. PICK a : a = Amid(p, l, d)
    OBVIOUS
  <2>2. ~a.failed /\ a.line = l /\ a.data = d /\ [a EXCEPT !.data = <<>>] = Amid(p, <<>>, <<>>)
    BY <1>1, <1>2, <2>1
  <2>3. Emptied(a) = IF d = <<>> THEN a ELSE Take(Amid(p, <<>>, <<>>), d)
    BY <1>2, <2>2, Zenon DEF Emptied
  <2>. QED
    BY <1>2, <2>1, <2>3, Zenon
<1>3. CASE l # <<>>
  <2>1. PICK q : q = Line(Amid(p, <<>>, d), l)
    OBVIOUS
  <2>2. Emptied(Amid(p, l, d)) = IF q.failed \/ q.data = <<>> THEN q ELSE Take([q EXCEPT !.data = <<>>], q.data)
    <3>1. [Amid(p, l, d) EXCEPT !.line = <<>>] = Amid(p, <<>>, d) /\ Amid(p, l, d).line = l
      BY <1>1
    <3>. QED
      BY <1>3, <2>1, <3>1, Zenon DEF Emptied
  <2>3. ASSUME NEW x, q = Amid(p, <<>>, x), x # <<>>
        PROVE  Emptied(Amid(p, l, d)) = Take(Amid(p, <<>>, <<>>), x)
    <3>1. ~q.failed /\ q.data = x /\ [q EXCEPT !.data = <<>>] = Amid(p, <<>>, <<>>)
      BY <1>1, <2>3
    <3>. QED
      BY <2>2, <2>3, <3>1, Zenon
  <2>4. q = Amid(p, <<>>, <<>>) => Emptied(Amid(p, l, d)) = Amid(p, <<>>, <<>>)
    <3>1. Amid(p, <<>>, <<>>).data = <<>>
      BY <1>1
    <3>. QED
      BY <2>2, <3>1, Zenon
  <2>5. q.failed => Emptied(Amid(p, l, d)) = q
    BY <2>2, Zenon
  <2>6. q.data = <<>> => Emptied(Amid(p, l, d)) = q
    BY <2>2, Zenon
  <2>. QED
    BY <1>3, <2>1, <2>3, <2>4, <2>5, <2>6, Zenon
<1>. QED
  BY <1>2, <1>3

\* A line that ends.
LEMMA AmidLine ==
  ASSUME NEW p, ~p.failed, NEW l, NEW d
  PROVE  /\ protocol = "ollama" /\ l # <<>> => Line(Amid(p, <<>>, d), l) = Take(Amid(p, <<>>, d), l)
         /\ protocol # "ollama" /\ l = <<>> /\ d # <<>> => Line(Amid(p, <<>>, d), l) = Take(Amid(p, <<>>, <<>>), d)
         /\ protocol # "ollama" /\ l # <<>> /\ l[1].k \in {"name", "cr"} => Line(Amid(p, <<>>, d), l) = Amid(p, <<>>, d)
         /\ protocol # "ollama" /\ l # <<>> /\ l[1].k \notin {"name", "cr"} =>
              Line(Amid(p, <<>>, d), l) = Amid(p, <<>>, d \o l)
<1>1. PICK a : a = Amid(p, <<>>, d)
  OBVIOUS
<1>2. a.data = d /\ [a EXCEPT !.data = <<>>] = Amid(p, <<>>, <<>>)
  BY <1>1, AmidParts
<1>3. [a EXCEPT !.data = d \o l] = Amid(p, <<>>, d \o l)
  <2>1. PICK x : x = d \o l
    OBVIOUS
  <2>2. [Amid(p, <<>>, d) EXCEPT !.data = x] = Amid(p, <<>>, x)
    BY AmidParts
  <2>. QED
    BY <1>1, <2>1, <2>2
<1>4. Line(a, l) =
        IF protocol = "ollama" THEN IF l = <<>> THEN a ELSE Take(a, l)
        ELSE IF l = <<>> THEN IF d = <<>> THEN a ELSE Take(Amid(p, <<>>, <<>>), d)
        ELSE IF l[1].k \in {"name", "cr"} THEN a ELSE Amid(p, <<>>, d \o l)
  BY <1>2, <1>3, Zenon DEF Line
<1>. QED
  BY <1>1, <1>4, Zenon

\* The data of an event.
LEMMA TakesEvent ==
  ASSUME NEW p, ~p.failed, NEW e \in Events
  PROVE  /\ Take(Amid(p, <<>>, <<>>), <<Half("head", e), Half("tail", e)>>) = Understood(Amid(p, <<>>, <<>>), e)
         /\ Take(Amid(p, <<>>, <<>>), <<Half("head", e)>>).failed
         /\ LET q == Take(Amid(p, <<>>, <<>>), <<Half("head", e), Half("tail", e), CR>>)
            IN q.failed \/ q = Understood(Amid(p, <<>>, <<>>), e)
<1>. DEFINE a == Half("head", e)
            c == Half("tail", e)
            z == Amid(p, <<>>, <<>>)
<1>1. a # CR /\ c # CR /\ a.event = e
  BY TokenKinds
<1>2. [z EXCEPT !.failed = TRUE].failed
  BY DEF Amid
<1>. HIDE DEF a, c, z
<1>3. Stripped(<<a, c>>) = <<a, c>> /\ Stripped(<<a>>) = <<a>> /\ Stripped(<<a, c, CR>>) = <<a, c>>
  BY <1>1, Strips
<1>4. Len(<<a, c>>) = 2 /\ Len(<<a>>) # 2 /\ Len(<<a, c>>) # 3 /\ <<a, c>>[1] = a /\ <<a, c, CR>>[1] = a
  OBVIOUS
<1>5. Take(z, <<a, c>>) = Understood(z, e)
  BY <1>1, <1>3, <1>4, Zenon DEF Take
<1>6. Take(z, <<a>>).failed
  BY <1>2, <1>3, <1>4, Zenon DEF Take
<1>7. Take(z, <<a, c, CR>>).failed \/ Take(z, <<a, c, CR>>) = Understood(z, e)
  BY <1>1, <1>2, <1>3, <1>4, Zenon DEF Take
<1>. QED
  BY <1>5, <1>6, <1>7 DEF a, c, z

\* A parser between two events has nothing left to say.
LEMMA CleanIs ==
  ASSUME NEW p, Clean(p)
  PROVE  ~p.failed /\ Amid(p, <<>>, <<>>) = p /\ Emptied(p) = p
<1>1. ~p.failed /\ Amid(p, <<>>, <<>>) = p
  BY DEF Clean, IsState, Amid
<1>2. Emptied(Amid(p, <<>>, <<>>)) = Amid(p, <<>>, <<>>)
  BY <1>1, AmidEmptied
<1>. QED
  BY <1>1, <1>2

\* If the stream ends amid an event, the event was not there, or was whole, or is an error.
Turns(p, s, r) == Emptied(s).failed \/ Emptied(s) = p \/ Emptied(s) = r

\* A parser in the middle of an event is safe when the parsers before and behind it are.
LEMMA TurnsSafe ==
  ASSUME NEW p, Clean(p), NEW r, r.failed \/ Clean(r), NEW l, NEW d, NEW b, Safe(p, b), Safe(r, b),
         Turns(p, Amid(p, l, d), r)
  PROVE  Safe(Amid(p, l, d), b)
<1>1. ~p.failed /\ Emptied(p) = p /\ ~Amid(p, l, d).failed
  BY CleanIs, AmidParts
<1>2. r.failed \/ Emptied(r) = r
  BY CleanIs
<1>. QED
  BY <1>1, <1>2, Zenon DEF Safe, Turns

\* The line of an event, wherever it ends.
LEMMA EndsInLine ==
  ASSUME NEW p, Clean(p), NEW e \in Events, NEW r, r = Understood(p, e), r.failed \/ Clean(r)
  PROVE  /\ Turns(p, Amid(p, <<Half("head", e)>>, <<>>), r)
         /\ Emptied(Amid(p, <<Half("head", e), Half("tail", e)>>, <<>>)) = r
         /\ Turns(p, Amid(p, <<Half("head", e), Half("tail", e), CR>>, <<>>), r)
<1>. DEFINE h == Half("head", e)
            t == Half("tail", e)
<1>1. ~p.failed /\ Amid(p, <<>>, <<>>) = p
  BY CleanIs
<1>2. Take(p, <<h, t>>) = r /\ Take(p, <<h>>).failed /\ (Take(p, <<h, t, CR>>).failed \/ Take(p, <<h, t, CR>>) = r)
  BY <1>1, TakesEvent
<1>3. r.failed \/ r.data = <<>>
  BY DEF Clean
<1>4. h.k \notin {"name", "cr"}
  BY TokenKinds
<1>5. <<h>>[1] = h /\ <<h, t>>[1] = h /\ <<h, t, CR>>[1] = h /\ <<h>> # <<>> /\ <<h, t>> # <<>> /\ <<h, t, CR>> # <<>>
  OBVIOUS
<1>6. <<>> \o <<h>> = <<h>> /\ <<>> \o <<h, t>> = <<h, t>> /\ <<>> \o <<h, t, CR>> = <<h, t, CR>>
  OBVIOUS
<1>. HIDE DEF h, t
<1>7. CASE protocol = "ollama"
  <2>1. ASSUME NEW l, l # <<>>
        PROVE  Take(p, l).failed \/ Take(p, l).data = <<>> => Emptied(Amid(p, l, <<>>)) = Take(p, l)
    <3>1. Line(p, l) = Take(p, l)
      BY <1>1, <1>7, <2>1, AmidLine
    <3>. QED
      BY <1>1, <2>1, <3>1, AmidEmptied
  <2>2. Emptied(Amid(p, <<h>>, <<>>)).failed
    BY <1>2, <1>5, <2>1
  <2>3. Emptied(Amid(p, <<h, t>>, <<>>)) = r
    BY <1>2, <1>3, <1>5, <2>1
  <2>4. Turns(p, Amid(p, <<h, t, CR>>, <<>>), r)
    BY <1>2, <1>3, <1>5, <2>1 DEF Turns
  <2>. QED
    BY <2>2, <2>3, <2>4 DEF Turns, h, t
<1>8. CASE protocol # "ollama"
  <2>1. ASSUME NEW l, l # <<>>, l[1].k \notin {"name", "cr"}, <<>> \o l = l
        PROVE  Emptied(Amid(p, l, <<>>)) = Take(p, l)
    <3>0. Line(Amid(p, <<>>, <<>>), l) = Amid(p, <<>>, <<>> \o l)
      <4>1. PICK d : d = <<>>
        OBVIOUS
      <4>2. Line(Amid(p, <<>>, d), l) = Amid(p, <<>>, d \o l)
        BY <1>1, <1>8, <2>1, AmidLine
      <4>. QED
        BY <4>1, <4>2, Zenon
    <3>1. Line(Amid(p, <<>>, <<>>), l) = Amid(p, <<>>, l)
      BY <2>1, <3>0, Zenon
    <3>. QED
      BY <1>1, <2>1, <3>1, AmidEmptied
  <2>2. Emptied(Amid(p, <<h>>, <<>>)).failed
    BY <1>2, <1>4, <1>5, <1>6, <2>1
  <2>3. Emptied(Amid(p, <<h, t>>, <<>>)) = r
    BY <1>2, <1>4, <1>5, <1>6, <2>1
  <2>4. Turns(p, Amid(p, <<h, t, CR>>, <<>>), r)
    BY <1>2, <1>4, <1>5, <1>6, <2>1 DEF Turns
  <2>. QED
    BY <2>2, <2>3, <2>4 DEF Turns, h, t
<1>. QED
  BY <1>7, <1>8

\* The line before it, with its name, and the blank line behind it.
LEMMA EndsAround ==
  ASSUME NEW p, Clean(p), NEW e \in Events, NEW r, r = Understood(p, e), protocol # "ollama"
  PROVE  /\ Emptied(Amid(p, <<Half("name", Nowhere)>>, <<>>)) = p
         /\ Emptied(Amid(p, <<Half("name", Nowhere), CR>>, <<>>)) = p
         /\ Emptied(Amid(p, <<>>, <<Half("head", e), Half("tail", e)>>)) = r
         /\ Emptied(Amid(p, <<CR>>, <<Half("head", e), Half("tail", e)>>)) = r
<1>. DEFINE d == <<Half("head", e), Half("tail", e)>>
            m == Half("name", Nowhere)
<1>1. ~p.failed /\ Amid(p, <<>>, <<>>) = p
  BY CleanIs
<1>2. Take(p, d) = r /\ d # <<>>
  BY <1>1, TakesEvent
<1>3. m.k \in {"name", "cr"} /\ CR.k \in {"name", "cr"}
  BY TokenKinds
<1>4. <<m>>[1] = m /\ <<m, CR>>[1] = m /\ <<CR>>[1] = CR /\ <<m>> # <<>> /\ <<m, CR>> # <<>> /\ <<CR>> # <<>>
  OBVIOUS
<1>. HIDE DEF d, m
<1>5. ASSUME NEW l, NEW x, l # <<>>, l[1].k \in {"name", "cr"}
      PROVE  Line(Amid(p, <<>>, x), l) = Amid(p, <<>>, x)
  BY <1>1, <1>5, AmidLine
<1>6. Emptied(Amid(p, <<m>>, <<>>)) = p /\ Emptied(Amid(p, <<m, CR>>, <<>>)) = p
  <2>1. Line(Amid(p, <<>>, <<>>), <<m>>) = Amid(p, <<>>, <<>>) /\ Line(Amid(p, <<>>, <<>>), <<m, CR>>) = Amid(p, <<>>, <<>>)
    BY <1>3, <1>4, <1>5
  <2>. QED
    BY <1>1, <1>4, <2>1, AmidEmptied
<1>7. Emptied(Amid(p, <<>>, d)) = r
  BY <1>1, <1>2, AmidEmptied
<1>8. Emptied(Amid(p, <<CR>>, d)) = r
  <2>1. Line(Amid(p, <<>>, d), <<CR>>) = Amid(p, <<>>, d)
    BY <1>3, <1>4, <1>5
  <2>. QED
    BY <1>1, <1>2, <1>4, <2>1, AmidEmptied
<1>. QED
  BY <1>6, <1>7, <1>8 DEF d, m

\* The end of a line.
LEMMA ReadsEnd ==
  ASSUME NEW p, ~p.failed, crlf \in BOOLEAN, NEW l, NEW d, NEW x, NEW r, NEW b,
         x = Append(l, CR), Stripped(x) = Stripped(l), r = Line(Amid(p, <<>>, d), Stripped(l)),
         Safe(Amid(p, l, d), b), Safe(Amid(p, x, d), b), Safe(r, b)
  PROVE  Reads(Amid(p, l, d), EndOfLine, r, b)
<1>1. Token(Amid(p, l, d), NL) = r /\ Token(Amid(p, x, d), NL) = r
  BY AmidNewline, Zenon
<1>2. CR # NL /\ CR \in Tokens /\ NL \in Tokens
  <2>1. Nowhere \in Events
    BY DEF Nowhere, Event, Events
  <2>. QED
    BY <2>1, TokenKinds
<1>3. Token(Amid(p, l, d), CR) = Amid(p, x, d)
  <2>1. Append(l, CR) = x
    OBVIOUS
  <2>2. \A y : Append(l, CR) = y => Token(Amid(p, l, d), CR) = Amid(p, y, d)
    BY <1>2, AmidToken
  <2>. QED
    BY <2>1, <2>2, Zenon
<1>4. Reads(Amid(p, l, d), <<NL>>, r, b)
  BY <1>1, ReadsOne
<1>5. Reads(Amid(p, l, d), <<CR, NL>>, r, b)
  <2>1. Reads(Amid(p, l, d), <<CR>>, Amid(p, x, d), b)
    BY <1>3, ReadsOne
  <2>2. Reads(Amid(p, x, d), <<NL>>, r, b)
    BY <1>1, ReadsOne
  <2>3. <<CR>> \in Seq(Tokens) /\ <<NL>> \in Seq(Tokens) /\ <<CR>> \o <<NL>> = <<CR, NL>>
    BY <1>2, Short, ShortPair
  <2>4. Reads(Amid(p, l, d), <<CR>> \o <<NL>>, r, b)
    BY <2>1, <2>2, <2>3, ReadsOn
  <2>. QED
    BY <2>3, <2>4
<1>. QED
  BY <1>4, <1>5 DEF EndOfLine

\* The data of an event.
LEMMA ReadsData ==
  ASSUME NEW p, Clean(p), NEW e \in Events, NEW r, r = Understood(p, e), r.failed \/ Clean(r),
         NEW b, Safe(p, b), Safe(r, b)
  PROVE  /\ Reads(p, <<Half("head", e), Half("tail", e)>>, Amid(p, <<Half("head", e), Half("tail", e)>>, <<>>), b)
         /\ Safe(Amid(p, <<Half("head", e), Half("tail", e)>>, <<>>), b)
         /\ Safe(Amid(p, <<Half("head", e), Half("tail", e), CR>>, <<>>), b)
<1>. DEFINE h == Half("head", e)
            t == Half("tail", e)
<1>1. ~p.failed /\ Amid(p, <<>>, <<>>) = p
  BY CleanIs
<1>2. /\ Turns(p, Amid(p, <<h>>, <<>>), r) /\ Turns(p, Amid(p, <<h, t>>, <<>>), r)
      /\ Turns(p, Amid(p, <<h, t, CR>>, <<>>), r)
  BY EndsInLine DEF Turns
<1>3. h # NL /\ t # NL /\ h \in Tokens /\ t \in Tokens
  BY TokenKinds
<1>. HIDE DEF h, t
<1>4. Safe(Amid(p, <<h>>, <<>>), b) /\ Safe(Amid(p, <<h, t>>, <<>>), b) /\ Safe(Amid(p, <<h, t, CR>>, <<>>), b)
  BY <1>2, TurnsSafe
<1>5. Token(p, h) = Amid(p, <<h>>, <<>>)
  <2>1. Append(<<>>, h) = <<h>>
    BY <1>3, Short
  <2>2. \A l, y : Append(l, h) = y => Token(Amid(p, l, <<>>), h) = Amid(p, y, <<>>)
    BY <1>1, <1>3, AmidToken
  <2>. QED
    BY <1>1, <2>1, <2>2, Zenon
<1>6. Token(Amid(p, <<h>>, <<>>), t) = Amid(p, <<h, t>>, <<>>)
  <2>1. Append(<<h>>, t) = <<h, t>>
    BY <1>3, ShortPair
  <2>2. \A l, y : Append(l, t) = y => Token(Amid(p, l, <<>>), t) = Amid(p, y, <<>>)
    BY <1>1, <1>3, AmidToken
  <2>. QED
    BY <2>1, <2>2, Zenon
<1>7. Reads(p, <<h>>, Amid(p, <<h>>, <<>>), b) /\ Reads(Amid(p, <<h>>, <<>>), <<t>>, Amid(p, <<h, t>>, <<>>), b)
  <2>1. Reads(p, <<h>>, Token(p, h), b)
    BY <1>4, <1>5, ReadsOne
  <2>2. Reads(Amid(p, <<h>>, <<>>), <<t>>, Token(Amid(p, <<h>>, <<>>), t), b)
    BY <1>4, <1>6, ReadsOne
  <2>. QED
    BY <1>5, <1>6, <2>1, <2>2, Zenon
<1>8. <<h>> \in Seq(Tokens) /\ <<t>> \in Seq(Tokens) /\ <<h>> \o <<t>> = <<h, t>>
  BY <1>3, Short, ShortPair
<1>9. Reads(p, <<h>> \o <<t>>, Amid(p, <<h, t>>, <<>>), b)
  BY <1>7, <1>8, ReadsOn
<1>. QED
  BY <1>4, <1>8, <1>9, Zenon DEF h, t

\* The line with the name of an event.
LEMMA ReadsName ==
  ASSUME NEW p, Clean(p), crlf \in BOOLEAN, protocol # "ollama", NEW b, Safe(p, b)
  PROVE  Reads(p, <<Half("name", Nowhere)>> \o EndOfLine, p, b)
<1>. DEFINE m == Half("name", Nowhere)
<1>0. Nowhere \in Events
  BY DEF Nowhere, Event, Events
<1>1. ~p.failed /\ Amid(p, <<>>, <<>>) = p /\ Emptied(p) = p
  BY CleanIs
<1>2. m # NL /\ m # CR /\ m \in Tokens /\ CR \in Tokens /\ NL \in Tokens /\ m.k \in {"name", "cr"}
  BY <1>0, TokenKinds
<1>3. Emptied(Amid(p, <<m>>, <<>>)) = p /\ Emptied(Amid(p, <<m, CR>>, <<>>)) = p
  BY <1>0, EndsAround
<1>. HIDE DEF m
<1>4. Safe(Amid(p, <<m>>, <<>>), b) /\ Safe(Amid(p, <<m, CR>>, <<>>), b)
  <2>1. ~Amid(p, <<m>>, <<>>).failed /\ ~Amid(p, <<m, CR>>, <<>>).failed
    BY <1>1, AmidParts
  <2>. QED
    BY <1>1, <1>3, <2>1, Zenon DEF Safe
<1>5. Stripped(<<m>>) = <<m>> /\ Stripped(<<m, CR>>) = <<m>> /\ <<m, CR>> = Append(<<m>>, CR)
  <2>1. Append(<<m>>, CR) = <<m, CR>>
    BY <1>2, ShortPair
  <2>2. \A c : c # CR => Stripped(<<m>>) = <<m>> /\ Stripped(<<m, CR>>) = <<m>>
    BY <1>2, Strips
  <2>3. Stripped(<<m>>) = <<m>> /\ Stripped(<<m, CR>>) = <<m>>
    BY <1>2, <2>2
  <2>. QED
    BY <2>1, <2>3
<1>6. Line(Amid(p, <<>>, <<>>), <<m>>) = p
  <2>1. <<m>> # <<>> /\ <<m>>[1] = m
    OBVIOUS
  <2>2. Line(Amid(p, <<>>, <<>>), <<m>>) = Amid(p, <<>>, <<>>)
    BY <1>1, <1>2, <2>1, AmidLine
  <2>. QED
    BY <1>1, <2>1, <2>2, Zenon
<1>7. Reads(Amid(p, <<m>>, <<>>), EndOfLine, p, b)
  BY <1>1, <1>4, <1>5, <1>6, ReadsEnd
<1>8. Token(p, m) = Amid(p, <<m>>, <<>>)
  <2>1. Append(<<>>, m) = <<m>>
    BY <1>2, Short
  <2>2. \A l, y : Append(l, m) = y => Token(Amid(p, l, <<>>), m) = Amid(p, y, <<>>)
    BY <1>1, <1>2, AmidToken
  <2>. QED
    BY <1>1, <2>1, <2>2, Zenon
<1>9. Reads(p, <<m>>, Amid(p, <<m>>, <<>>), b)
  <2>1. Reads(p, <<m>>, Token(p, m), b)
    BY <1>4, <1>8, ReadsOne
  <2>. QED
    BY <1>8, <2>1, Zenon
<1>10. <<m>> \in Seq(Tokens) /\ EndOfLine \in Seq(Tokens)
  BY <1>2 DEF EndOfLine
<1>11. Reads(p, <<m>> \o EndOfLine, p, b)
  BY <1>7, <1>9, <1>10, ReadsOn
<1>. QED
  BY <1>11 DEF m

\* The tokens of an event as far as its data, as far as the end of its line, and all of them.
UntilData(e) ==
  (IF protocol \in SseNames THEN <<Half("name", Nowhere)>> \o EndOfLine ELSE <<>>)
  \o <<Half("head", e), Half("tail", e)>>
UntilLine(e) == UntilData(e) \o EndOfLine

\* These parts are sequences of tokens, and an event is its lines and a blank one.
LEMMA FramedParts ==
  ASSUME NEW e \in Events
  PROVE  /\ UntilData(e) \in Seq(Tokens) /\ UntilLine(e) \in Seq(Tokens) /\ Framed(e) \in Seq(Tokens)
         /\ EndOfLine \in Seq(Tokens)
         /\ Framed(e) = UntilLine(e) \o (IF protocol = "ollama" THEN <<>> ELSE EndOfLine)
<1>1. Half("head", e) \in Tokens /\ Half("tail", e) \in Tokens /\ CR \in Tokens /\ NL \in Tokens
      /\ Half("name", Nowhere) \in Tokens
  BY TokenKinds
<1>2. EndOfLine \in Seq(Tokens)
  BY <1>1 DEF EndOfLine
<1>3. <<Half("head", e), Half("tail", e)>> \in Seq(Tokens)
  BY <1>1, ShortPair
<1>4. (IF protocol \in SseNames THEN <<Half("name", Nowhere)>> \o EndOfLine ELSE <<>>) \in Seq(Tokens)
  <2>1. <<Half("name", Nowhere)>> \in Seq(Tokens) /\ <<>> \in Seq(Tokens)
    BY <1>1, Short
  <2>2. <<Half("name", Nowhere)>> \o EndOfLine \in Seq(Tokens)
    BY <1>2, <2>1, ConcatProperties
  <2>. QED
    BY <2>1, <2>2
<1>5. UntilData(e) \in Seq(Tokens)
  BY <1>3, <1>4, ConcatProperties DEF UntilData
<1>6. UntilLine(e) \in Seq(Tokens)
  BY <1>2, <1>5, ConcatProperties DEF UntilLine
<1>7. Framed(e) = UntilLine(e) \o (IF protocol = "ollama" THEN <<>> ELSE EndOfLine)
  BY Zenon DEF Framed, UntilLine, UntilData
<1>8. <<>> \in Seq(Tokens)
  OBVIOUS
<1>9. Framed(e) \in Seq(Tokens)
  BY <1>2, <1>6, <1>7, <1>8, ConcatProperties
<1>. QED
  BY <1>2, <1>5, <1>6, <1>7, <1>9

\* A stream that ends after the tokens ts leaves r.
HasRead(p, ts, r, b) == \E s : Reads(p, ts, s, b) /\ Emptied(s) = r

\* A parser reads an event: behind its data the event is already all there.
LEMMA ReadsEvent ==
  ASSUME protocol \in Protocols, crlf \in BOOLEAN,
         NEW p, Clean(p), NEW e \in Events, NEW r, r = Understood(p, e), r.failed \/ Clean(r),
         NEW b, Safe(p, b), Safe(r, b)
  PROVE  /\ Reads(p, Framed(e), r, b)
         /\ HasRead(p, UntilData(e), r, b)
         /\ protocol # "ollama" => HasRead(p, UntilLine(e), r, b)
<1>. DEFINE h == Half("head", e)
            t == Half("tail", e)
            d == <<h, t>>
            s == Amid(p, d, <<>>)
<1>1. ~p.failed /\ Amid(p, <<>>, <<>>) = p
  BY CleanIs
<1>2. h # NL /\ t # NL /\ h # CR /\ t # CR /\ h \in Tokens /\ t \in Tokens /\ CR \in Tokens /\ h.k \notin {"name", "cr"}
  BY TokenKinds
<1>3. Reads(p, d, s, b) /\ Safe(s, b) /\ Safe(Amid(p, <<h, t, CR>>, <<>>), b) /\ Emptied(s) = r
  BY ReadsData, EndsInLine
<1>4. d \in Seq(Tokens) /\ d # <<>> /\ d[1] = h /\ <<>> \o d = d
  BY <1>2
<1>5. /\ Framed(e) = UntilLine(e) \o (IF protocol = "ollama" THEN <<>> ELSE EndOfLine)
      /\ UntilData(e) \in Seq(Tokens) /\ UntilLine(e) \in Seq(Tokens) /\ EndOfLine \in Seq(Tokens)
  BY FramedParts
<1>6. Reads(p, UntilData(e), s, b)
  <2>1. CASE protocol \in SseNames
    <3>1. Reads(p, <<Half("name", Nowhere)>> \o EndOfLine, p, b)
      BY <2>1, ReadsName DEF SseNames
    <3>2. <<Half("name", Nowhere)>> \o EndOfLine \in Seq(Tokens)
      <4>1. <<Half("name", Nowhere)>> \in Seq(Tokens)
        BY TokenKinds, Short
      <4>. QED
        BY <4>1, <1>5, ConcatProperties
    <3>3. Reads(p, (<<Half("name", Nowhere)>> \o EndOfLine) \o d, s, b)
      <4>. HIDE DEF d, s
      <4>1. PICK u : u = <<Half("name", Nowhere)>> \o EndOfLine
        OBVIOUS
      <4>2. u \in Seq(Tokens) /\ Reads(p, u, p, b)
        BY <3>1, <3>2, <4>1, Zenon
      <4>. HIDE <4>1
      <4>3. Reads(p, u \o d, s, b)
        BY <1>3, <1>4, <4>2, ReadsOn
      <4>. QED
        BY <4>1, <4>3, Zenon
    <3>. QED
      BY <2>1, <3>3, Zenon DEF UntilData
  <2>2. CASE protocol \notin SseNames
    <3>1. UntilData(e) = <<>> \o d
      BY <2>2, Zenon DEF UntilData
    <3>. QED
      BY <1>3, <1>4, <3>1, Zenon
  <2>. QED
    BY <2>1, <2>2
<1>7. Stripped(d) = d /\ Stripped(<<h, t, CR>>) = d /\ Append(d, CR) = <<h, t, CR>>
  <2>1. Stripped(d) = d /\ Stripped(<<h, t, CR>>) = d
    BY <1>2, Strips
  <2>2. Append(d, CR) = <<h, t, CR>>
    BY <1>2, ShortThree
  <2>. QED
    BY <2>1, <2>2
<1>8. Take(p, d) = r
  BY <1>1, TakesEvent
<1>9. CASE protocol = "ollama"
  <2>1. Line(Amid(p, <<>>, <<>>), d) = r
    <3>1. \A l, x : l # <<>> => Line(Amid(p, <<>>, x), l) = Take(Amid(p, <<>>, x), l)
      BY <1>1, <1>9, AmidLine
    <3>. QED
      BY <1>1, <1>4, <1>8, <3>1, Zenon
  <2>2. Reads(s, EndOfLine, r, b)
    BY <1>1, <1>3, <1>7, <2>1, ReadsEnd, Zenon
  <2>3. Reads(p, UntilLine(e), r, b)
    BY <1>5, <1>6, <2>2, ReadsOn DEF UntilLine
  <2>4. Framed(e) = UntilLine(e)
    BY <1>5, <1>9, ConcatEmptySeq
  <2>. QED
    BY <1>3, <1>6, <1>9, <2>3, <2>4, Zenon DEF HasRead
<1>10. CASE protocol # "ollama"
  <2>. DEFINE q == Amid(p, <<>>, d)
  <2>1. Line(Amid(p, <<>>, <<>>), d) = q
    <3>1. PICK x : x = <<>>
      OBVIOUS
    <3>2. Line(Amid(p, <<>>, x), d) = Amid(p, <<>>, x \o d)
      BY <1>1, <1>2, <1>4, <1>10, AmidLine
    <3>. QED
      BY <1>4, <3>1, <3>2, Zenon
  <2>2. Emptied(q) = r /\ Emptied(Amid(p, <<CR>>, d)) = r
    BY <1>10, EndsAround
  <2>3. Safe(q, b) /\ Safe(Amid(p, <<CR>>, d), b)
    <3>1. Turns(p, q, r) /\ Turns(p, Amid(p, <<CR>>, d), r)
      BY <2>2, Zenon DEF Turns
    <3>. QED
      BY <3>1, TurnsSafe, Zenon
  <2>4. Reads(s, EndOfLine, q, b)
    BY <1>1, <1>3, <1>7, <2>1, <2>3, ReadsEnd, Zenon
  <2>5. Reads(q, EndOfLine, r, b)
    <3>1. Stripped(<<>>) = <<>> /\ Stripped(<<CR>>) = <<>>
      BY <1>2, Strips
    <3>2. Append(<<>>, CR) = <<CR>>
      BY <1>2, Short
    <3>3. Line(Amid(p, <<>>, d), <<>>) = r
      <4>1. \A l, x : l = <<>> /\ x # <<>> => Line(Amid(p, <<>>, x), l) = Take(Amid(p, <<>>, <<>>), x)
        BY <1>1, <1>10, AmidLine
      <4>. QED
        BY <1>1, <1>4, <1>8, <4>1, Zenon
    <3>. QED
      BY <1>1, <2>3, <3>1, <3>2, <3>3, ReadsEnd, Zenon
  <2>6. Reads(p, UntilLine(e), q, b)
    BY <1>5, <1>6, <2>4, ReadsOn DEF UntilLine
  <2>7. Reads(p, UntilLine(e) \o EndOfLine, r, b)
    BY <1>5, <2>5, <2>6, ReadsOn
  <2>8. Framed(e) = UntilLine(e) \o EndOfLine
    BY <1>5, <1>10, Zenon
  <2>. QED
    BY <1>3, <1>6, <2>2, <2>6, <2>7, <2>8, Zenon DEF HasRead
<1>. QED
  BY <1>9, <1>10

----------------------------------------------------------------------------
\* What an event says.

\* A parser that has a text of so many pieces, the calls args, and the end of the reply if it is done.
Telling(t, texts, args, done) ==
  /\ IsState(t) /\ ~t.failed /\ (t.complete <=> done)
  /\ t.text = Upto(texts) /\ t.told = Upto(texts) /\ Carries(t.calls, args)

\* A parser with some of its parts changed.
Altered(p, te, cs, co, fa) ==
  [line |-> p.line, data |-> p.data, text |-> te, told |-> te, calls |-> cs, complete |-> co, failed |-> fa]

\* The parts of an altered parser.
LEMMA WithParts ==
  ASSUME NEW p, IsState(p), NEW te, NEW cs, NEW co, NEW fa, NEW q, q = Altered(p, te, cs, co, fa)
  PROVE  /\ IsState(q) /\ q.line = p.line /\ q.data = p.data /\ q.text = te /\ q.told = te /\ q.calls = cs
         /\ q.complete = co /\ q.failed = fa
BY DEF IsState, Altered

\* A parser with one part replaced, as an altered one.
LEMMA StateParts ==
  ASSUME NEW p, IsState(p), p.told = p.text, NEW x
  PROVE  /\ [p EXCEPT !.calls = x] = Altered(p, p.text, x, p.complete, p.failed)
         /\ [p EXCEPT !.complete = x] = Altered(p, p.text, p.calls, x, p.failed)
         /\ [p EXCEPT !.failed = x] = Altered(p, p.text, p.calls, p.complete, x)
         /\ [p EXCEPT !.text = x, !.told = x] = Altered(p, x, p.calls, p.complete, p.failed)
         /\ p = Altered(p, p.text, p.calls, p.complete, p.failed)
<1>1. PICK q : q = [p EXCEPT !.calls = x]
  OBVIOUS
<1>2. q = Altered(p, p.text, x, p.complete, p.failed)
  BY <1>1 DEF IsState, Altered
<1>3. [p EXCEPT !.complete = x] = Altered(p, p.text, p.calls, x, p.failed)
  BY DEF IsState, Altered
<1>4. [p EXCEPT !.failed = x] = Altered(p, p.text, p.calls, p.complete, x)
  BY DEF IsState, Altered
<1>5. [p EXCEPT !.text = x, !.told = x] = Altered(p, x, p.calls, p.complete, p.failed)
  <2>1. PICK r : r = [line |-> p.line, data |-> p.data, text |-> x, told |-> p.text, calls |-> p.calls,
                      complete |-> p.complete, failed |-> p.failed]
    OBVIOUS
  <2>2. [p EXCEPT !.text = x] = r
    BY <2>1 DEF IsState
  <2>3. [r EXCEPT !.told = x] = Altered(p, x, p.calls, p.complete, p.failed)
    BY <2>1 DEF Altered
  <2>4. [p EXCEPT !.text = x, !.told = x] = [[p EXCEPT !.text = x] EXCEPT !.told = x]
    OBVIOUS
  <2>. QED
    BY <2>2, <2>3, <2>4, Zenon
<1>6. p = Altered(p, p.text, p.calls, p.complete, p.failed)
  BY DEF IsState, Altered
<1>. QED
  BY <1>1, <1>2, <1>3, <1>4, <1>5, <1>6, Zenon

\* The text grows by its next piece.
LEMMA NextPiece ==
  ASSUME NEW n \in Nat
  PROVE  Upto(n) \in Seq(Nat) /\ Len(Upto(n)) = n /\ Upto(n) \o <<n + 1>> = Upto(n + 1) /\ Append(Upto(n), n + 1) = Upto(n + 1)
<1>1. \A m \in Nat : Upto(m) \in Seq(Nat) /\ Len(Upto(m)) = m /\ \A i \in 1..m : Upto(m)[i] = i
  BY DEF Upto
<1>2. n + 1 \in Nat
  OBVIOUS
<1>3. Append(Upto(n), n + 1) = Upto(n + 1)
  <2>1. PICK s \in Seq(Nat) : s = Upto(n)
    BY <1>1
  <2>2. Len(s) = n /\ \A i \in 1..n : s[i] = i
    BY <1>1, <2>1
  <2>. HIDE <2>1
  <2>3. /\ Append(s, n + 1) \in Seq(Nat) /\ Len(Append(s, n + 1)) = n + 1
        /\ \A i \in 1..n : Append(s, n + 1)[i] = i
        /\ Append(s, n + 1)[n + 1] = n + 1
    BY <1>2, <2>2, AppendProperties
  <2>4. \A i \in 1..(n + 1) : Append(s, n + 1)[i] = Upto(n + 1)[i]
    BY <1>1, <1>2, <2>3, SMTT(40)
  <2>5. Append(s, n + 1) = Upto(n + 1)
    BY <1>1, <1>2, <2>3, <2>4, SeqEqual
  <2>. QED
    BY <2>1, <2>5
<1>4. Append(Upto(n), n + 1) = Upto(n) \o <<n + 1>>
  BY <1>1, <1>2, AppendIsConcat
<1>. QED
  BY <1>1, <1>3, <1>4

\* A call that the provider means to make, and the reply that it means.
PlannedCall == [name : Tools, known : BOOLEAN, args : Nat]
PlanTypes ==
  /\ protocol \in Protocols /\ crlf \in BOOLEAN
  /\ plan \in [texts : Nat, calls : Seq(PlannedCall)] /\ Sensible(protocol, plan)

\* The planned calls.
LEMMA PlanIs ==
  ASSUME PlanTypes
  PROVE  /\ plan.texts \in Nat /\ Len(plan.calls) \in Nat /\ DOMAIN plan.calls = 1..Len(plan.calls)
         /\ Len(PlannedArgs) = Len(plan.calls) /\ PlannedArgs \in Seq(Nat)
         /\ \A i \in DOMAIN plan.calls : PlannedArgs[i] = plan.calls[i].args /\ plan.calls[i].args \in Nat /\ i \in Nat /\ i - 1 \in Nat
<1>1. PICK cs \in Seq(PlannedCall) : cs = plan.calls
  BY DEF PlanTypes
<1>2. \A i \in 1..Len(cs) : cs[i].args \in Nat
  <2>1. \A i \in 1..Len(cs) : cs[i] \in PlannedCall
    OBVIOUS
  <2>. QED
    BY <2>1 DEF PlannedCall
<1>3. PICK ar : ar = [i \in DOMAIN cs |-> cs[i].args]
  OBVIOUS
<1>4. ar = PlannedArgs
  BY <1>1, <1>3, Zenon DEF PlannedArgs
<1>5. ar \in Seq(Nat) /\ Len(ar) = Len(cs) /\ DOMAIN cs = 1..Len(cs) /\ Len(cs) \in Nat /\ \A i \in 1..Len(cs) : ar[i] = cs[i].args
  <2>. HIDE <1>1
  <2>. QED
    BY <1>2, <1>3, SMTT(40)
<1>6. plan.texts \in Nat
  BY DEF PlanTypes
<1>7. \A i \in 1..Len(cs) : i \in Nat /\ i - 1 \in Nat
  OBVIOUS
<1>. HIDE <1>3
<1>. QED
  BY <1>1, <1>2, <1>4, <1>5, <1>6, <1>7, Zenon

\* The names of events.
LEMMA EventIs ==
  ASSUME NEW type \in {"text", "call", "args", "finish", "[DONE]", "error", "none"}, NEW at \in Nat, NEW n \in Nat
  PROVE  /\ Event(type, at, n) \in Events
         /\ Event(type, at, n).type = type /\ Event(type, at, n).at = at /\ Event(type, at, n).n = n
BY DEF Event, Events

\* A piece of text.
LEMMA HearsText ==
  ASSUME PlanTypes, NEW p, Clean(p), NEW texts \in Nat, NEW args, Telling(p, texts, args, FALSE)
  PROVE  /\ Clean(Understood(p, Event("text", 0, texts + 1)))
         /\ Telling(Understood(p, Event("text", 0, texts + 1)), texts + 1, args, FALSE)
<1>1. PICK e \in Events : e = Event("text", 0, texts + 1)
  BY EventIs
<1>2. e.type = "text" /\ e.n = texts + 1
  BY <1>1, EventIs
<1>3. Understood(p, e) = Says(p, <<texts + 1>>)
  <2>1. e.type = "text"
    BY <1>2
  <2>. QED
    BY <1>2, <2>1 DEF Understood, OpenAiEvent, ClaudeEvent, OllamaEvent, CodexEvent
<1>4. PICK x : x = Upto(texts + 1)
  OBVIOUS
<1>5. Says(p, <<texts + 1>>) = [p EXCEPT !.text = x, !.told = x]
  <2>1. Upto(texts) \o <<texts + 1>> = x
    BY <1>4, NextPiece
  <2>2. p.text = Upto(texts) /\ p.told = Upto(texts)
    BY DEF Telling
  <2>. QED
    BY <2>1, <2>2, Zenon DEF Says
<1>6. PICK q : q = Altered(p, x, p.calls, p.complete, p.failed)
  OBVIOUS
<1>7. Understood(p, e) = q
  <2>1. IsState(p) /\ p.told = p.text
    BY DEF Telling
  <2>. QED
    BY <1>3, <1>5, <1>6, <2>1, StateParts, Zenon
<1>8. IsState(q) /\ q.line = <<>> /\ q.data = <<>> /\ q.text = x /\ q.told = x /\ q.calls = p.calls /\ ~q.failed /\ ~q.complete
  <2>1. IsState(p)
    BY DEF Telling
  <2>2. q.line = p.line /\ q.data = p.data /\ q.text = x /\ q.told = x /\ q.calls = p.calls /\ IsState(q)
        /\ q.complete = p.complete /\ q.failed = p.failed
    BY <1>6, <2>1, WithParts
  <2>. QED
    BY <2>2 DEF Clean, Telling
<1>. QED
  BY <1>1, <1>4, <1>7, <1>8 DEF Clean, Telling

\* The provider reports an error.
LEMMA HearsError ==
  ASSUME PlanTypes, NEW p, Clean(p)
  PROVE  Understood(p, Event("error", 0, 0)).failed
<1>1. PICK e \in Events : e = Event("error", 0, 0)
  BY EventIs
<1>2. e.type = "error"
  BY <1>1, EventIs
<1>3. Understood(p, e) = [p EXCEPT !.failed = TRUE]
  BY <1>2 DEF Understood, OpenAiEvent, ClaudeEvent, OllamaEvent, CodexEvent
<1>4. [p EXCEPT !.failed = TRUE].failed
  BY DEF Clean, IsState
<1>. QED
  BY <1>1, <1>3, <1>4

\* [DONE], behind a reply that is whole.
LEMMA HearsDone ==
  ASSUME PlanTypes, NEW p, Clean(p), NEW texts, NEW args, Telling(p, texts, args, TRUE), protocol \in {"openai", "codex"}
  PROVE  /\ Clean(Understood(p, Event("[DONE]", 0, 0)))
         /\ Telling(Understood(p, Event("[DONE]", 0, 0)), texts, args, TRUE)
<1>1. PICK e \in Events : e = Event("[DONE]", 0, 0)
  BY EventIs
<1>2. e.type = "[DONE]"
  BY <1>1, EventIs
<1>3. Understood(p, e) = p \/ Understood(p, e) = [p EXCEPT !.complete = TRUE]
  BY <1>2 DEF Understood, OpenAiEvent, CodexEvent
<1>4. [p EXCEPT !.complete = TRUE] = Altered(p, p.text, p.calls, TRUE, p.failed)
  BY StateParts DEF Telling
<1>5. PICK q : q = Altered(p, p.text, p.calls, TRUE, p.failed)
  OBVIOUS
<1>6. Clean(q) /\ Telling(q, texts, args, TRUE)
  <2>1. IsState(p)
    BY DEF Telling
  <2>2. q.line = p.line /\ q.data = p.data /\ q.text = p.text /\ q.told = p.text /\ q.calls = p.calls /\ IsState(q)
        /\ q.complete /\ q.failed = p.failed
    BY <1>5, <2>1 DEF Altered, IsState
  <2>. QED
    BY <2>2 DEF Clean, Telling
<1>. QED
  BY <1>1, <1>3, <1>4, <1>5, <1>6

\* The last event of a reply that is whole.
LEMMA HearsFinish ==
  ASSUME PlanTypes, NEW p, Clean(p), NEW texts, NEW args, Telling(p, texts, args, FALSE)
  PROVE  /\ Clean(Understood(p, Event("finish", 0, 0)))
         /\ Telling(Understood(p, Event("finish", 0, 0)), texts, args, TRUE)
<1>1. PICK e \in Events : e = Event("finish", 0, 0)
  BY EventIs
<1>2. e.type = "finish" /\ e.n = 0
  BY <1>1, EventIs
<1>3. Understood(p, e) = [p EXCEPT !.complete = TRUE]
  BY <1>2 DEF Understood, OpenAiEvent, ClaudeEvent, OllamaEvent, CodexEvent
<1>4. [p EXCEPT !.complete = TRUE] = Altered(p, p.text, p.calls, TRUE, p.failed)
  BY StateParts DEF Telling
<1>5. PICK q : q = Altered(p, p.text, p.calls, TRUE, p.failed)
  OBVIOUS
<1>6. Clean(q) /\ Telling(q, texts, args, TRUE)
  <2>1. IsState(p)
    BY DEF Telling
  <2>2. q.line = p.line /\ q.data = p.data /\ q.text = p.text /\ q.told = p.text /\ q.calls = p.calls /\ IsState(q)
        /\ q.complete /\ q.failed = p.failed
    BY <1>5, <2>1 DEF Altered, IsState
  <2>. QED
    BY <2>2 DEF Clean, Telling
<1>. QED
  BY <1>1, <1>3, <1>4, <1>5, <1>6

\* The calls are what they should be.
LEMMA CallTypes ==
  ASSUME PlanTypes, NEW i \in 1..Len(plan.calls), NEW n \in Nat, NEW m \in Nat
  PROVE  BegunCall(i, n) \in CallRecords /\ ItemCall(i) \in CallRecords /\ ListedCall(m, i) \in CallRecords
<1>1. plan.calls[i].name \in Tools /\ i \in Nat
  <2>1. plan.calls \in Seq(PlannedCall)
    BY DEF PlanTypes
  <2>2. plan.calls[i] \in PlannedCall /\ Len(plan.calls) \in Nat
    BY <2>1
  <2>. QED
    BY <2>2 DEF PlannedCall
<1>2. Upto(n) \in Seq(Nat) /\ <<i>> \in Seq(Nat)
  BY <1>1, NextPiece, Short
<1>3. Given(i) \in CallIds /\ Invented(m, plan.calls[i].name) \in CallIds
  BY <1>1 DEF Given, Invented, CallIds
<1>4. (IF plan.calls[i].known THEN "given" ELSE "none") \in CallIds
  BY DEF CallIds
<1>. QED
  BY <1>1, <1>2, <1>3, <1>4 DEF BegunCall, ItemCall, ListedCall, CallRecords

\* The calls of a parser are records, as many as have begun unless Ollama lost one.
LEMMA CarriedTypes ==
  ASSUME PlanTypes, NEW args \in Seq(Nat), Len(args) <= Len(plan.calls), NEW cs, Carries(cs, args)
  PROVE  /\ cs \in Seq(CallRecords)
         /\ protocol # "ollama" => Len(cs) = Len(args)
<1>1. Len(args) \in Nat /\ Len(plan.calls) \in Nat
  BY DEF PlanTypes
<1>2. \A i \in 1..Len(args) : i \in 1..Len(plan.calls) /\ args[i] \in Nat
  BY <1>1
<1>3. ASSUME protocol \in {"openai", "claude"}
      PROVE  cs \in Seq(CallRecords) /\ Len(cs) = Len(args)
  <2>1. cs = [i \in 1..Len(args) |-> BegunCall(i, args[i])]
    BY <1>3 DEF Carries
  <2>2. \A i \in 1..Len(args) : BegunCall(i, args[i]) \in CallRecords
    BY <1>2, CallTypes
  <2>. QED
    BY <1>1, <2>1, <2>2
<1>4. ASSUME protocol = "codex"
      PROVE  cs \in Seq(CallRecords) /\ Len(cs) = Len(args)
  <2>1. cs = [i \in 1..Len(args) |-> ItemCall(i)]
    BY <1>4 DEF Carries, CodexItems
  <2>2. \A i \in 1..Len(args) : ItemCall(i) \in CallRecords
    BY <1>2, CallTypes
  <2>. QED
    BY <1>1, <2>1, <2>2
<1>. QED
  BY <1>3, <1>4 DEF Carries, Lists, PlanTypes, Protocols

\* One more call behind those that are there.
LEMMA OneMore ==
  ASSUME NEW S, NEW cs \in Seq(S), NEW c \in S, NEW k \in Nat, Len(cs) = k,
         NEW ds \in [1..(k + 1) -> S], \A i \in 1..k : ds[i] = cs[i], ds[k + 1] = c
  PROVE  Append(cs, c) = ds
<1>1. Append(cs, c) \in Seq(S) /\ Len(Append(cs, c)) = k + 1 /\ Append(cs, c)[k + 1] = c
      /\ \A i \in 1..k : Append(cs, c)[i] = cs[i]
  BY AppendProperties
<1>2. ds \in Seq(S) /\ Len(ds) = k + 1
  OBVIOUS
<1>3. \A i \in 1..(k + 1) : Append(cs, c)[i] = ds[i]
  BY <1>1
<1>. QED
  BY <1>1, <1>2, <1>3, SeqEqual

\* A call of Claude begins.
LEMMA ClaudeCallCarried ==
  ASSUME PlanTypes, protocol = "claude", NEW args \in Seq(Nat), NEW more \in Seq(Nat), NEW cs, Carries(cs, args),
         Len(args) + 1 <= Len(plan.calls), Len(more) = Len(args) + 1,
         \A i \in 1..Len(args) : more[i] = args[i], more[Len(args) + 1] = 0
  PROVE  Carries(Append(cs, [id |-> "given", name |-> plan.calls[Len(args) + 1].name, args |-> <<>>]), more)
<1>1. PICK k \in Nat : k = Len(args)
  OBVIOUS
<1>2. Len(plan.calls) \in Nat /\ k + 1 \in 1..Len(plan.calls)
  BY <1>1 DEF PlanTypes
<1>3. plan.calls[k + 1].known
  BY <1>2 DEF PlanTypes, Sensible
<1>4. Upto(0) = <<>>
  BY DEF Upto
<1>5. [id |-> "given", name |-> plan.calls[k + 1].name, args |-> <<>>] = BegunCall(k + 1, 0)
  BY <1>3, <1>4, Zenon DEF BegunCall
<1>6. cs \in Seq(CallRecords) /\ Len(cs) = k /\ \A i \in 1..k : cs[i] = BegunCall(i, args[i])
  <2>1. cs = [i \in 1..Len(args) |-> BegunCall(i, args[i])]
    BY DEF Carries
  <2>2. cs \in Seq(CallRecords) /\ Len(cs) = k
    BY <1>1, <1>2, CarriedTypes
  <2>. QED
    BY <1>1, <2>1, <2>2
<1>7. PICK ds : ds = [i \in 1..(k + 1) |-> BegunCall(i, more[i])]
  OBVIOUS
<1>8. \A i \in 1..k : ds[i] = cs[i]
  BY <1>1, <1>6, <1>7
<1>9. ds[k + 1] = BegunCall(k + 1, 0)
  BY <1>1, <1>7
<1>10. BegunCall(k + 1, 0) \in CallRecords
  BY <1>2, CallTypes
<1>11. ds \in [1..(k + 1) -> CallRecords]
  <2>1. \A i \in 1..(k + 1) : i \in 1..Len(plan.calls) /\ more[i] \in Nat
    BY <1>1, <1>2
  <2>2. \A i \in 1..(k + 1) : BegunCall(i, more[i]) \in CallRecords
    BY <2>1, CallTypes
  <2>. QED
    BY <2>2, <1>7
<1>. HIDE <1>7
<1>12. Append(cs, BegunCall(k + 1, 0)) = ds
  <2>1. PICK c \in CallRecords : c = BegunCall(k + 1, 0)
    BY <1>10
  <2>2. ds[k + 1] = c
    BY <1>9, <2>1, Zenon
  <2>3. Append(cs, c) = ds
    <3>1. cs \in Seq(CallRecords) /\ Len(cs) = k
      BY <1>6
    <3>. HIDE <2>1, <1>1
    <3>. QED
      BY <3>1, <1>8, <1>11, <2>2, OneMore
  <2>. QED
    BY <2>1, <2>3, Zenon
<1>13. Append(cs, [id |-> "given", name |-> plan.calls[k + 1].name, args |-> <<>>]) = ds
  BY <1>5, <1>12
<1>. QED
  BY <1>1, <1>7, <1>13 DEF Carries

\* A call of a compatible server begins.
Blank == [id |-> "none", name |-> "none", args |-> <<>>]
Grown(cs, n) ==
  [i \in 1..(IF n > Len(cs) THEN n ELSE Len(cs)) |-> IF i <= Len(cs) THEN cs[i] ELSE Blank]

\* A sequence with one more call, and the call that begins.
Longer(cs, k, c) == [i \in 1..(k + 1) |-> IF i <= k THEN cs[i] ELSE c]
NewCall(id, name) == [id |-> id, name |-> name, args |-> <<>>]
Started(cs, n, name, id) == [Grown(cs, n) EXCEPT ![n].name = name, ![n].id = id]

\* The call that begins comes behind all others,
LEMMA GrownByOne ==
  ASSUME NEW cs, NEW k \in Nat, NEW name, NEW id, Len(cs) = k
  PROVE  Started(cs, k + 1, name, id) = Longer(cs, k, NewCall(id, name))
<1>1. PICK g : g = [i \in 1..(k + 1) |-> IF i <= k THEN cs[i] ELSE Blank]
  OBVIOUS
<1>2. Grown(cs, k + 1) = g
  BY <1>1 DEF Grown
<1>3. PICK f : f = [i \in 1..(k + 1) |-> IF i <= k THEN cs[i] ELSE [id |-> "none", name |-> name, args |-> <<>>]]
  OBVIOUS
<1>4. [g EXCEPT ![k + 1].name = name] = f
  <2>1. PICK x : x = Blank
    OBVIOUS
  <2>2. [x EXCEPT !.name = name] = [id |-> "none", name |-> name, args |-> <<>>]
    BY <2>1 DEF Blank
  <2>3. g[k + 1] = x
    BY <1>1, <2>1
  <2>4. PICK y : y = [id |-> "none", name |-> name, args |-> <<>>]
    OBVIOUS
  <2>5. [g EXCEPT ![k + 1].name = name] = [g EXCEPT ![k + 1] = y]
    BY <2>2, <2>3, <2>4, Zenon
  <2>6. f = [i \in 1..(k + 1) |-> IF i <= k THEN cs[i] ELSE y]
    BY <1>3, <2>4, Zenon
  <2>. HIDE <2>4
  <2>7. [g EXCEPT ![k + 1] = y] = f
    BY <1>1, <2>6, SMTT(40)
  <2>. QED
    BY <2>5, <2>7, Zenon
<1>5. [f EXCEPT ![k + 1].id = id] =
        [i \in 1..(k + 1) |-> IF i <= k THEN cs[i] ELSE [id |-> id, name |-> name, args |-> <<>>]]
  <2>1. PICK x : x = [id |-> "none", name |-> name, args |-> <<>>]
    OBVIOUS
  <2>2. [x EXCEPT !.id = id] = [id |-> id, name |-> name, args |-> <<>>]
    BY <2>1
  <2>3. f[k + 1] = x
    BY <1>3, <2>1
  <2>4. PICK y : y = [id |-> id, name |-> name, args |-> <<>>]
    OBVIOUS
  <2>5. [f EXCEPT ![k + 1].id = id] = [f EXCEPT ![k + 1] = y]
    BY <2>2, <2>3, <2>4, Zenon
  <2>6. f = [i \in 1..(k + 1) |-> IF i <= k THEN cs[i] ELSE x]
    BY <1>3, <2>1, Zenon
  <2>. HIDE <2>4, <2>1
  <2>7. [f EXCEPT ![k + 1] = y] = [i \in 1..(k + 1) |-> IF i <= k THEN cs[i] ELSE y]
    BY <2>6
  <2>. QED
    BY <2>4, <2>5, <2>7, Zenon
<1>6. [g EXCEPT ![k + 1].name = name, ![k + 1].id = id] = [[g EXCEPT ![k + 1].name = name] EXCEPT ![k + 1].id = id]
  OBVIOUS
<1>. QED
  BY <1>2, <1>4, <1>5, <1>6, Zenon DEF Started, NewCall, Longer

\* so that the calls are those of the pieces sent.
LEMMA OpenAiCallCarried ==
  ASSUME PlanTypes, protocol = "openai", NEW args \in Seq(Nat), NEW more \in Seq(Nat), NEW cs, Carries(cs, args),
         Len(args) + 1 <= Len(plan.calls), Len(more) = Len(args) + 1,
         \A i \in 1..Len(args) : more[i] = args[i], more[Len(args) + 1] = 0
  PROVE  Carries(Started(cs, Len(args) + 1, plan.calls[Len(args) + 1].name,
                         IF plan.calls[Len(args) + 1].known THEN "given" ELSE "none"), more)
<1>1. PICK k \in Nat : k = Len(args)
  OBVIOUS
<1>2. Upto(0) = <<>>
  BY DEF Upto
<1>3. cs = [i \in 1..k |-> BegunCall(i, args[i])] /\ Len(cs) = k
  <2>1. cs = [i \in 1..Len(args) |-> BegunCall(i, args[i])]
    BY DEF Carries
  <2>2. Len(cs) = k
    BY <1>1, CarriedTypes
  <2>. QED
    BY <1>1, <2>1, <2>2
<1>4. PICK name, id : name = plan.calls[k + 1].name /\ id = IF plan.calls[k + 1].known THEN "given" ELSE "none"
  OBVIOUS
<1>5. PICK ds : ds = Started(cs, k + 1, name, id)
  OBVIOUS
<1>6. ds = [i \in 1..(k + 1) |-> IF i <= k THEN cs[i] ELSE BegunCall(k + 1, 0)]
  <2>1. Len(cs) = k
    BY <1>3
  <2>2. BegunCall(k + 1, 0) = NewCall(id, name)
    BY <1>2, <1>4, Zenon DEF BegunCall, NewCall
  <2>. HIDE <1>4
  <2>3. Started(cs, k + 1, name, id) = Longer(cs, k, NewCall(id, name))
    BY <2>1, GrownByOne
  <2>4. Started(cs, k + 1, name, id) = [i \in 1..(k + 1) |-> IF i <= k THEN cs[i] ELSE BegunCall(k + 1, 0)]
    BY <2>2, <2>3, Zenon DEF Longer
  <2>. QED
    BY <2>4, <1>5, Zenon
<1>8. \A i \in 1..(k + 1) : (IF i <= k THEN cs[i] ELSE BegunCall(k + 1, 0)) = BegunCall(i, more[i])
  <2>1. ASSUME NEW i \in 1..k PROVE cs[i] = BegunCall(i, more[i])
    BY <1>1, <1>3
  <2>2. more[k + 1] = 0
    BY <1>1
  <2>3. ASSUME NEW i \in 1..(k + 1)
        PROVE  (i <= k /\ i \in 1..k) \/ (~(i <= k) /\ i = k + 1)
    OBVIOUS
  <2>. QED
    BY <2>1, <2>2, <2>3, Zenon
<1>9. ds = [i \in 1..(k + 1) |-> BegunCall(i, more[i])]
  BY <1>6, <1>8, Zenon
<1>10. Carries(ds, more)
  BY <1>1, <1>9 DEF Carries
<1>. QED
  BY <1>1, <1>4, <1>5, <1>10, Zenon

\* A piece of the arguments of a call.
LEMMA ArgsCarried ==
  ASSUME PlanTypes, protocol \in {"openai", "claude"}, NEW args \in Seq(Nat), NEW at \in 1..Len(args), NEW cs,
         Carries(cs, args), Len(args) <= Len(plan.calls)
  PROVE  /\ Carries([cs EXCEPT ![at].args = Append(@, args[at] + 1)], [args EXCEPT ![at] = @ + 1])
         /\ Grown(cs, at) = cs
<1>1. PICK k \in Nat : k = Len(args)
  OBVIOUS
<1>2. cs = [i \in 1..k |-> BegunCall(i, args[i])] /\ Len(cs) = k
  <2>1. cs = [i \in 1..Len(args) |-> BegunCall(i, args[i])]
    BY DEF Carries
  <2>2. Len(cs) = k
    BY <1>1, CarriedTypes DEF Protocols
  <2>. QED
    BY <1>1, <2>1, <2>2
<1>3. Grown(cs, at) = cs
  <2>1. at \in 1..k /\ ~(at > k)
    BY <1>1
  <2>2. Grown(cs, at) = [i \in 1..k |-> IF i <= k THEN cs[i] ELSE Blank]
    BY <1>2, <2>1, Zenon DEF Grown
  <2>. QED
    BY <1>2, <2>2
<1>4. PICK more : more = [args EXCEPT ![at] = @ + 1]
  OBVIOUS
<1>5. Len(more) = k /\ more[at] = args[at] + 1 /\ \A i \in 1..k : i # at => more[i] = args[i]
  BY <1>1, <1>4
<1>6. PICK n \in Nat : n = args[at]
  OBVIOUS
<1>7. PICK x : x = BegunCall(at, n)
  OBVIOUS
<1>8. cs[at] = x /\ x.args = Upto(n)
  BY <1>1, <1>2, <1>6, <1>7 DEF BegunCall
<1>9. [x EXCEPT !.args = Upto(n + 1)] = BegunCall(at, n + 1)
  BY <1>7 DEF BegunCall
<1>10. Append(Upto(n), n + 1) = Upto(n + 1)
  BY NextPiece
<1>11. [cs EXCEPT ![at].args = Append(@, args[at] + 1)] = [cs EXCEPT ![at] = BegunCall(at, n + 1)]
  BY <1>6, <1>8, <1>9, <1>10, Zenon
<1>12. [cs EXCEPT ![at] = BegunCall(at, n + 1)] = [i \in 1..k |-> BegunCall(i, more[i])]
  <2>1. PICK c : c = BegunCall(at, n + 1)
    OBVIOUS
  <2>2. c = BegunCall(at, more[at])
    BY <1>5, <1>6, <2>1, Zenon
  <2>. QED
    BY <1>1, <1>2, <1>5, <2>1, <2>2
<1>. QED
  BY <1>1, <1>3, <1>4, <1>5, <1>11, <1>12 DEF Carries

\* The items of Codex.
LEMMA ItemsTypes ==
  ASSUME PlanTypes, NEW k \in Nat, k <= Len(plan.calls)
  PROVE  CodexItems(k) \in Seq(CallRecords) /\ Len(CodexItems(k)) = k /\ \A i \in 1..k : CodexItems(k)[i].id = Given(i)
<1>1. \A i \in 1..k : i \in 1..Len(plan.calls)
  BY DEF PlanTypes
<1>2. \A i \in 1..k : ItemCall(i) \in CallRecords
  BY <1>1, CallTypes
<1>3. \A i \in 1..k : ItemCall(i).id = Given(i)
  BY DEF ItemCall
<1>4. CodexItems(k) \in Seq(CallRecords) /\ Len(CodexItems(k)) = k
  BY <1>2 DEF CodexItems
<1>. QED
  BY <1>3, <1>4 DEF CodexItems

\* An item of Codex is added once.
LEMMA ItemAdded ==
  ASSUME PlanTypes, NEW k \in Nat, k <= Len(plan.calls), NEW i \in 1..(k + 1), i <= Len(plan.calls)
  PROVE  CodexCall(CodexItems(k), i) = CodexItems(IF i <= k THEN k ELSE k + 1)
<1>1. CodexItems(k) \in Seq(CallRecords) /\ Len(CodexItems(k)) = k /\ \A j \in 1..k : CodexItems(k)[j].id = Given(j)
  BY ItemsTypes
<1>2. DOMAIN CodexItems(k) = 1..k
  BY <1>1
<1>3. CASE i <= k
  <2>1. i \in DOMAIN CodexItems(k) /\ CodexItems(k)[i].id = Given(i)
    BY <1>1, <1>2, <1>3
  <2>. QED
    BY <1>3, <2>1, Zenon DEF CodexCall
<1>4. CASE ~(i <= k)
  <2>1. i = k + 1
    BY <1>4
  <2>2. \A j \in 1..k : Given(j) # Given(i)
    BY <2>1 DEF Given
  <2>3. CodexCall(CodexItems(k), i) = Append(CodexItems(k), ItemCall(i))
    BY <1>1, <1>2, <2>2, Zenon DEF CodexCall, ItemCall
  <2>4. ItemCall(k + 1) \in CallRecords /\ k + 1 \in 1..Len(plan.calls)
    BY <2>1, CallTypes
  <2>5. /\ CodexItems(k + 1) \in Seq(CallRecords) /\ Len(CodexItems(k + 1)) = k + 1
    BY <2>4, ItemsTypes
  <2>6. /\ \A j \in 1..k : CodexItems(k + 1)[j] = CodexItems(k)[j]
        /\ CodexItems(k + 1)[k + 1] = ItemCall(k + 1)
    BY DEF CodexItems
  <2>7. CodexItems(k + 1) \in [1..(k + 1) -> CallRecords]
    BY <2>5
  <2>8. Append(CodexItems(k), ItemCall(k + 1)) = CodexItems(k + 1)
    BY <1>1, <2>4, <2>6, <2>7, OneMore
  <2>. QED
    BY <1>4, <2>1, <2>3, <2>8, Zenon
<1>. QED
  BY <1>3, <1>4

\* All of them, those that are there already among them.
LEMMA ItemsAdded ==
  ASSUME PlanTypes, NEW k \in Nat, k <= Len(plan.calls)
  PROVE  CodexCalls(CodexItems(k), Len(plan.calls)) = CodexItems(Len(plan.calls))
<1>. DEFINE n == Len(plan.calls)
            upto(i) == IF i <= k THEN k ELSE i
            f == [i \in 0..n |-> CodexItems(upto(i))]
            put == CHOOSE g : g = [i \in 0..n |-> IF i = 0 THEN CodexItems(k) ELSE CodexCall(g[i - 1], i)]
            S == {i \in 0..n : put[i] = CodexItems(upto(i))}
<1>1. n \in Nat
  BY DEF PlanTypes
<1>2. ASSUME NEW i \in 1..n
      PROVE  CodexCall(CodexItems(upto(i - 1)), i) = CodexItems(upto(i))
  <2>1. upto(i - 1) \in Nat /\ upto(i - 1) <= n /\ i \in 1..(upto(i - 1) + 1) /\ i <= n
        /\ upto(i) = IF i <= upto(i - 1) THEN upto(i - 1) ELSE upto(i - 1) + 1
    BY <1>1
  <2>. QED
    BY <2>1, ItemAdded
<1>3. f = [i \in 0..n |-> IF i = 0 THEN CodexItems(k) ELSE CodexCall(f[i - 1], i)]
  <2>1. ASSUME NEW i \in 0..n
        PROVE  f[i] = IF i = 0 THEN CodexItems(k) ELSE CodexCall(f[i - 1], i)
    <3>1. CASE i = 0
      BY <1>1, <3>1
    <3>2. CASE i # 0
      <4>1. i \in 1..n /\ i - 1 \in 0..n
        BY <1>1, <3>2
      <4>2. f[i - 1] = CodexItems(upto(i - 1)) /\ f[i] = CodexItems(upto(i))
        BY <4>1
      <4>. QED
        BY <1>2, <3>2, <4>1, <4>2, Zenon
    <3>. QED
      BY <3>1, <3>2
  <2>2. f = [i \in 0..n |-> f[i]]
    OBVIOUS
  <2>. HIDE DEF f
  <2>. QED
    BY <2>1, <2>2, Zenon
<1>4. put = [i \in 0..n |-> IF i = 0 THEN CodexItems(k) ELSE CodexCall(put[i - 1], i)]
  <2>. HIDE DEF f
  <2>. QED
    BY <1>3, Zenon
<1>5. CodexCalls(CodexItems(k), n) = put[n]
  BY Zenon DEF CodexCalls
<1>. HIDE DEF put
<1>6. 0 \in S
  BY <1>1, <1>4
<1>7. ASSUME NEW i \in 0..(n - 1), i \in S
      PROVE  i + 1 \in S
  <2>1. i + 1 \in 0..n /\ i + 1 \in 1..n /\ i + 1 # 0 /\ (i + 1) - 1 = i
    BY <1>1
  <2>2. put[i + 1] = CodexCall(put[i], i + 1)
    BY <1>4, <2>1
  <2>3. put[i] = CodexItems(upto(i))
    BY <1>7
  <2>4. CodexCall(CodexItems(upto((i + 1) - 1)), i + 1) = CodexItems(upto(i + 1))
    BY <1>2, <2>1
  <2>5. put[i + 1] = CodexItems(upto(i + 1))
    BY <2>1, <2>2, <2>3, <2>4, Zenon
  <2>. QED
    BY <2>1, <2>5
<1>8. \A i \in 0..n : i \in S
  <2>. HIDE DEF S, n
  <2>. QED
    BY <1>1, <1>6, <1>7, CountsUp
<1>9. upto(n) = n /\ n \in 0..n
  BY <1>1
<1>. QED
  BY <1>5, <1>8, <1>9

\* One more call of Ollama.
LEMMA ListedAdded ==
  ASSUME PlanTypes, NEW k \in Nat, k + 1 <= Len(plan.calls), NEW cs, Lists(cs, k), NEW m \in Nat
  PROVE  Lists(OllamaCall(cs, ListedCall(m, k + 1)), k + 1)
<1>1. PICK c \in CallRecords : c = ListedCall(m, k + 1)
  <2>1. k + 1 \in 1..Len(plan.calls)
    BY DEF PlanTypes
  <2>. QED
    BY <2>1, CallTypes
<1>2. cs \in Seq(CallRecords) /\ DOMAIN cs = 1..Len(cs) /\ Len(cs) \in Nat
  BY DEF Lists
<1>3. CASE \E i \in DOMAIN cs : cs[i].id = c.id
  <2>1. PICK ds : ds = [i \in DOMAIN cs |-> IF cs[i].id = c.id THEN c ELSE cs[i]]
    OBVIOUS
  <2>2. OllamaCall(cs, c) = ds
    BY <1>3, <2>1, Zenon DEF OllamaCall
  <2>3. ds \in Seq(CallRecords) /\ ds # <<>>
    <3>1. \A i \in 1..Len(cs) : (IF cs[i].id = c.id THEN c ELSE cs[i]) \in CallRecords
      BY <1>2
    <3>2. ds \in [1..Len(cs) -> CallRecords]
      BY <1>2, <2>1, <3>1
    <3>3. ds \in Seq(CallRecords) /\ Len(ds) = Len(cs)
      BY <1>2, <3>2
    <3>. QED
      BY <1>2, <1>3, <3>3
  <2>4. NamedAlike
    <3>. SUFFICES ASSUME ~NamedAlike PROVE FALSE
      OBVIOUS
    <3>1. Len(cs) = k /\ \A i \in 1..k : \E x \in Nat : cs[i] = ListedCall(x, i)
      BY DEF Lists
    <3>2. PICK i \in 1..k : cs[i].id = c.id
      BY <1>2, <1>3, <3>1
    <3>3. PICK x \in Nat : cs[i] = ListedCall(x, i)
      BY <3>1
    <3>4. ListedCall(x, i).id.name = plan.calls[i].name /\ ListedCall(m, k + 1).id.name = plan.calls[k + 1].name
      BY DEF ListedCall, Invented
    <3>5. plan.calls[i].name = plan.calls[k + 1].name
      BY <1>1, <3>2, <3>3, <3>4
    <3>6. i \in DOMAIN plan.calls /\ k + 1 \in DOMAIN plan.calls /\ i # k + 1
      BY DEF PlanTypes
    <3>. QED
      BY <3>5, <3>6, Zenon DEF NamedAlike
  <2>. QED
    BY <1>1, <2>2, <2>3, <2>4 DEF Lists
<1>4. CASE ~ \E i \in DOMAIN cs : cs[i].id = c.id
  <2>1. OllamaCall(cs, c) = Append(cs, c)
    BY <1>4, Zenon DEF OllamaCall
  <2>2. PICK ds \in Seq(CallRecords) : ds = Append(cs, c)
    <3>1. Append(cs, c) \in Seq(CallRecords)
      BY <1>2, AppendProperties
    <3>. QED
      BY <3>1
  <2>3. Len(ds) = Len(cs) + 1 /\ ds # <<>> /\ (\A i \in 1..Len(cs) : ds[i] = cs[i]) /\ ds[Len(cs) + 1] = c
    BY <1>2, <2>2, AppendProperties
  <2>4. ASSUME ~NamedAlike, NEW i \in 1..(k + 1)
        PROVE  Len(ds) = k + 1 /\ \E x \in Nat : ds[i] = ListedCall(x, i)
    <3>1. Len(cs) = k /\ \A j \in 1..k : \E x \in Nat : cs[j] = ListedCall(x, j)
      BY <2>4 DEF Lists
    <3>2. CASE i \in 1..k
      BY <2>3, <3>1, <3>2
    <3>3. CASE i = k + 1
      BY <1>1, <2>3, <3>1, <3>3
    <3>. QED
      BY <3>2, <3>3
  <2>5. k + 1 \in 1..(k + 1)
    OBVIOUS
  <2>6. Lists(ds, k + 1)
    BY <2>3, <2>4, <2>5 DEF Lists
  <2>. QED
    BY <1>1, <2>1, <2>2, <2>6, Zenon
<1>. QED
  BY <1>3, <1>4

\* The calls of one message.
LEMMA ListedMore ==
  ASSUME PlanTypes, NEW k \in Nat, NEW n \in Nat, k + n <= Len(plan.calls), NEW cs, Lists(cs, k)
  PROVE  Lists(OllamaCalls(cs, k + 1, n), k + n)
<1>. DEFINE Given1(i) == ListedCall(i - 1, k + 1 + i - 1)
            S == {i \in 0..n : \E f : f = [j \in 0..i |-> IF j = 0 THEN cs ELSE OllamaCall(f[j - 1], Given1(j))]}
            put == CHOOSE f : f = [j \in 0..n |-> IF j = 0 THEN cs ELSE OllamaCall(f[j - 1], Given1(j))]
            T == {i \in 0..n : Lists(put[i], k + i)}
<1>1. 0 \in S
  <2>1. PICK f : f = [j \in 0..0 |-> cs]
    OBVIOUS
  <2>2. f = [j \in 0..0 |-> IF j = 0 THEN cs ELSE OllamaCall(f[j - 1], Given1(j))]
    BY <2>1
  <2>. QED
    BY <2>2
<1>2. ASSUME NEW i \in 0..(n - 1), i \in S
      PROVE  i + 1 \in S
  <2>. HIDE DEF Given1
  <2>1. PICK f : f = [j \in 0..i |-> IF j = 0 THEN cs ELSE OllamaCall(f[j - 1], Given1(j))]
    BY <1>2
  <2>2. PICK g : g = [j \in 0..(i + 1) |-> IF j = i + 1 THEN OllamaCall(f[i], Given1(i + 1)) ELSE f[j]]
    OBVIOUS
  <2>3. ASSUME NEW j \in 0..(i + 1)
        PROVE  g[j] = IF j = 0 THEN cs ELSE OllamaCall(g[j - 1], Given1(j))
    <3>1. CASE j = i + 1
      <4>1. j - 1 = i /\ i \in 0..(i + 1) /\ i # i + 1 /\ j # 0
        BY <3>1
      <4>2. g[i] = f[i]
        BY <2>2, <4>1
      <4>3. g[j] = OllamaCall(f[i], Given1(i + 1))
        BY <2>2, <3>1
      <4>. QED
        BY <3>1, <4>1, <4>2, <4>3, Zenon
    <3>2. CASE j # i + 1
      <4>1. j \in 0..i
        BY <3>2
      <4>2. g[j] = f[j] /\ (j # 0 => j - 1 \in 0..i /\ j - 1 \in 0..(i + 1) /\ j - 1 # i + 1 /\ g[j - 1] = f[j - 1])
        BY <2>2, <4>1
      <4>3. f[j] = IF j = 0 THEN cs ELSE OllamaCall(f[j - 1], Given1(j))
        BY <2>1, <4>1, Zenon
      <4>. QED
        BY <4>2, <4>3, Zenon
    <3>. QED
      BY <3>1, <3>2
  <2>4. g = [j \in 0..(i + 1) |-> g[j]]
    BY <2>2
  <2>5. g = [j \in 0..(i + 1) |-> IF j = 0 THEN cs ELSE OllamaCall(g[j - 1], Given1(j))]
    BY <2>3, <2>4, Zenon
  <2>6. i + 1 \in 0..n
    OBVIOUS
  <2>. QED
    BY <2>5, <2>6
<1>3. \A i \in 0..n : i \in S
  <2>. HIDE DEF S
  <2>. QED
    BY <1>1, <1>2, CountsUp
<1>4. put = [j \in 0..n |-> IF j = 0 THEN cs ELSE OllamaCall(put[j - 1], Given1(j))]
  <2>1. n \in S
    <3>1. n \in 0..n
      OBVIOUS
    <3>. HIDE DEF S
    <3>. QED
      BY <1>3, <3>1
  <2>. HIDE DEF Given1
  <2>. QED
    BY <2>1, Zenon
<1>5. OllamaCalls(cs, k + 1, n) = put[n]
  BY Zenon DEF OllamaCalls, ListedCall
<1>. HIDE DEF put
<1>6. 0 \in T
  BY <1>4
<1>7. ASSUME NEW i \in 0..(n - 1), i \in T
      PROVE  i + 1 \in T
  <2>1. i + 1 \in 0..n /\ i + 1 # 0 /\ (i + 1) - 1 = i /\ k + 1 + (i + 1) - 1 = (k + i) + 1 /\ k + (i + 1) = (k + i) + 1
        /\ i \in Nat /\ k + i \in Nat /\ (k + i) + 1 <= Len(plan.calls)
    BY DEF PlanTypes
  <2>2. put[i + 1] = OllamaCall(put[i], ListedCall(i, (k + i) + 1))
    BY <1>4, <2>1, Zenon
  <2>3. Lists(put[i], k + i)
    BY <1>7
  <2>4. Lists(OllamaCall(put[i], ListedCall(i, (k + i) + 1)), (k + i) + 1)
    BY <2>1, <2>3, ListedAdded
  <2>. QED
    BY <2>1, <2>2, <2>4
<1>8. \A i \in 0..n : i \in T
  <2>. HIDE DEF T
  <2>. QED
    BY <1>6, <1>7, CountsUp
<1>. QED
  BY <1>5, <1>8

\* The calls change.
LEMMA CallsChange ==
  ASSUME NEW p, Clean(p), NEW texts, NEW args, NEW done, Telling(p, texts, args, done), NEW cs, NEW more, Carries(cs, more),
         NEW q, q = [p EXCEPT !.calls = cs]
  PROVE  Clean(q) /\ Telling(q, texts, more, done)
<1>1. IsState(p) /\ p.told = p.text
  BY DEF Telling
<1>2. q = Altered(p, p.text, cs, p.complete, p.failed)
  BY <1>1, StateParts
<1>3. q.line = p.line /\ q.data = p.data /\ q.text = p.text /\ q.told = p.text /\ q.calls = cs /\ IsState(q)
      /\ q.complete = p.complete /\ q.failed = p.failed
  BY <1>1, <1>2, WithParts
<1>. QED
  BY <1>3 DEF Clean, Telling

\* One call begins, or one message lists some calls.
LEMMA HearsCall ==
  ASSUME PlanTypes, NEW p, Clean(p), NEW texts, NEW args \in Seq(Nat), Telling(p, texts, args, FALSE),
         NEW n \in Nat \ {0}, n > 1 => protocol = "ollama", Len(args) + n <= Len(plan.calls),
         NEW more \in Seq(Nat), Len(more) = Len(args) + n,
         \A i \in 1..Len(args) : more[i] = args[i],
         protocol \in {"openai", "claude"} => more[Len(args) + 1] = 0
  PROVE  /\ Clean(Understood(p, Event("call", Len(args) + 1, n)))
         /\ Telling(Understood(p, Event("call", Len(args) + 1, n)), texts, more, FALSE)
<1>1. PICK k \in Nat : k = Len(args)
  OBVIOUS
<1>2. PICK e \in Events : e = Event("call", k + 1, n)
  <2>1. k + 1 \in Nat /\ n \in Nat
    OBVIOUS
  <2>. QED
    BY <2>1, EventIs
<1>3. e.type = "call" /\ e.at = k + 1 /\ e.n = n
  BY <1>2, Zenon DEF Event
<1>4. Carries(p.calls, args)
  BY DEF Telling
<1>5. ASSUME NEW cs, Carries(cs, more), Understood(p, e) = [p EXCEPT !.calls = cs]
      PROVE  Clean(Understood(p, e)) /\ Telling(Understood(p, e), texts, more, FALSE)
  BY <1>5, CallsChange
<1>6. ASSUME protocol = "openai"
      PROVE  Clean(Understood(p, e)) /\ Telling(Understood(p, e), texts, more, FALSE)
  <2>1. n = 1
    BY <1>6
  <2>2. PICK cs : cs = Started(p.calls, k + 1, plan.calls[k + 1].name, IF plan.calls[k + 1].known THEN "given" ELSE "none")
    OBVIOUS
  <2>3. Carries(cs, more)
    BY <1>1, <1>4, <1>6, <2>1, <2>2, OpenAiCallCarried
  <2>4. Understood(p, e) = [p EXCEPT !.calls = cs]
    <3>1. Understood(p, e) = OpenAiEvent(p, e)
      BY <1>6 DEF Understood
    <3>2. e.type # "text"
      BY <1>3
    <3>. QED
      BY <1>3, <2>2, <3>1, <3>2, Zenon DEF OpenAiEvent, Started, Grown, Blank
  <2>. QED
    BY <1>5, <2>3, <2>4, Zenon
<1>7. ASSUME protocol = "claude"
      PROVE  Clean(Understood(p, e)) /\ Telling(Understood(p, e), texts, more, FALSE)
  <2>1. n = 1
    BY <1>7
  <2>2. PICK cs : cs = Append(p.calls, [id |-> "given", name |-> plan.calls[k + 1].name, args |-> <<>>])
    OBVIOUS
  <2>3. Carries(cs, more)
    BY <1>1, <1>4, <1>7, <2>1, <2>2, ClaudeCallCarried
  <2>4. Understood(p, e) = [p EXCEPT !.calls = cs]
    <3>1. Understood(p, e) = ClaudeEvent(p, e)
      BY <1>7 DEF Understood
    <3>2. e.type # "text"
      BY <1>3
    <3>. QED
      BY <1>3, <2>2, <3>1, <3>2, Zenon DEF ClaudeEvent
  <2>. QED
    BY <1>5, <2>3, <2>4, Zenon
<1>8. ASSUME protocol = "ollama"
      PROVE  Clean(Understood(p, e)) /\ Telling(Understood(p, e), texts, more, FALSE)
  <2>1. PICK cs : cs = OllamaCalls(p.calls, k + 1, n)
    OBVIOUS
  <2>2. Lists(p.calls, k)
    BY <1>1, <1>4, <1>8 DEF Carries
  <2>3. Lists(cs, k + n)
    <3>1. n \in Nat /\ k + n <= Len(plan.calls)
      BY <1>1
    <3>. QED
      BY <2>1, <2>2, <3>1, ListedMore
  <2>4. Carries(cs, more)
    BY <1>1, <1>8, <2>3 DEF Carries
  <2>5. Understood(p, e) = [p EXCEPT !.calls = cs]
    <3>1. Understood(p, e) = OllamaEvent(p, e)
      BY <1>8 DEF Understood
    <3>2. e.type # "text"
      BY <1>3
    <3>. QED
      BY <1>3, <2>1, <3>1, <3>2, Zenon DEF OllamaEvent
  <2>. QED
    BY <1>5, <2>4, <2>5, Zenon
<1>9. ASSUME protocol = "codex"
      PROVE  Clean(Understood(p, e)) /\ Telling(Understood(p, e), texts, more, FALSE)
  <2>1. n = 1
    BY <1>9
  <2>2. PICK cs : cs = CodexCall(p.calls, k + 1)
    OBVIOUS
  <2>3. p.calls = CodexItems(k)
    BY <1>1, <1>4, <1>9 DEF Carries
  <2>4. cs = CodexItems(k + 1)
    <3>1. k <= Len(plan.calls) /\ k + 1 \in 1..(k + 1) /\ k + 1 <= Len(plan.calls) /\ ~(k + 1 <= k)
      BY <1>1, <2>1 DEF PlanTypes
    <3>2. CodexCall(CodexItems(k), k + 1) = CodexItems(IF k + 1 <= k THEN k ELSE k + 1)
      BY <3>1, ItemAdded
    <3>. QED
      BY <2>2, <2>3, <3>1, <3>2, Zenon
  <2>5. Carries(cs, more)
    BY <1>1, <1>9, <2>1, <2>4 DEF Carries
  <2>6. Understood(p, e) = [p EXCEPT !.calls = cs]
    <3>1. Understood(p, e) = CodexEvent(p, e)
      BY <1>9 DEF Understood
    <3>2. e.type # "text"
      BY <1>3
    <3>. QED
      BY <1>3, <2>2, <3>1, <3>2, Zenon DEF CodexEvent
  <2>. QED
    BY <1>5, <2>5, <2>6, Zenon
<1>10. Clean(Understood(p, e)) /\ Telling(Understood(p, e), texts, more, FALSE)
  <2>1. protocol \in {"openai", "claude", "ollama", "codex"}
    BY DEF PlanTypes, Protocols
  <2>. QED
    BY <1>6, <1>7, <1>8, <1>9, <2>1, Zenon
<1>. QED
  BY <1>1, <1>2, <1>10

\* Codex sends an item that response.completed has repeated already.
LEMMA HearsRepeat ==
  ASSUME PlanTypes, protocol = "codex", NEW p, Clean(p), NEW texts, NEW args \in Seq(Nat), NEW done,
         Telling(p, texts, args, done), Len(args) <= Len(plan.calls), NEW at \in 1..Len(args)
  PROVE  /\ Clean(Understood(p, Event("call", at, 1)))
         /\ Telling(Understood(p, Event("call", at, 1)), texts, args, done)
<1>1. PICK k \in Nat : k = Len(args)
  OBVIOUS
<1>2. PICK e : e = Event("call", at, 1)
  OBVIOUS
<1>3. e.type = "call" /\ e.at = at
  BY <1>2, Zenon DEF Event
<1>4. Carries(p.calls, args)
  BY DEF Telling
<1>5. p.calls = CodexItems(k)
  BY <1>1, <1>4 DEF Carries
<1>6. CodexCall(p.calls, at) = p.calls
  <2>1. k <= Len(plan.calls) /\ at \in 1..(k + 1) /\ at <= Len(plan.calls) /\ at <= k
    BY <1>1 DEF PlanTypes
  <2>2. CodexCall(CodexItems(k), at) = CodexItems(IF at <= k THEN k ELSE k + 1)
    BY <2>1, ItemAdded
  <2>. QED
    BY <1>5, <2>1, <2>2, Zenon
<1>7. Understood(p, e) = [p EXCEPT !.calls = p.calls]
  <2>1. Understood(p, e) = CodexEvent(p, e)
    BY DEF Understood
  <2>2. e.type # "text"
    BY <1>3
  <2>. QED
    BY <1>3, <1>6, <2>1, <2>2, Zenon DEF CodexEvent
<1>8. Clean(Understood(p, e)) /\ Telling(Understood(p, e), texts, args, done)
  BY <1>4, <1>7, CallsChange
<1>. QED
  BY <1>2, <1>8, Zenon

\* A piece of the arguments of a call.
LEMMA HearsArgs ==
  ASSUME PlanTypes, protocol \in {"openai", "claude"}, NEW p, Clean(p), NEW texts, NEW args \in Seq(Nat),
         Telling(p, texts, args, FALSE), Len(args) <= Len(plan.calls), NEW at \in 1..Len(args)
  PROVE  /\ Clean(Understood(p, Event("args", at, args[at] + 1)))
         /\ Telling(Understood(p, Event("args", at, args[at] + 1)), texts, [args EXCEPT ![at] = @ + 1], FALSE)
<1>1. PICK e : e = Event("args", at, args[at] + 1)
  OBVIOUS
<1>2. e.type = "args" /\ e.at = at /\ e.n = args[at] + 1
  BY <1>1, Zenon DEF Event
<1>3. e.type # "text" /\ e.type # "call"
  BY <1>2
<1>4. Carries(p.calls, args)
  BY DEF Telling
<1>5. PICK cs : cs = [p.calls EXCEPT ![at].args = Append(@, args[at] + 1)]
  OBVIOUS
<1>6. PICK more : more = [args EXCEPT ![at] = @ + 1]
  OBVIOUS
<1>7. Carries(cs, more) /\ Grown(p.calls, at) = p.calls
  BY <1>4, <1>5, <1>6, ArgsCarried
<1>8. CASE protocol = "openai"
  <2>1. OpenAiEvent(p, e) = [p EXCEPT !.calls = [Grown(p.calls, at) EXCEPT ![at].args = Append(@, args[at] + 1)]]
    BY <1>2, <1>3, Zenon DEF OpenAiEvent, Grown, Blank
  <2>2. Understood(p, e) = OpenAiEvent(p, e)
    BY <1>8 DEF Understood
  <2>3. Understood(p, e) = [p EXCEPT !.calls = cs]
    BY <1>5, <1>7, <2>1, <2>2, Zenon
  <2>4. Clean(Understood(p, e)) /\ Telling(Understood(p, e), texts, more, FALSE)
    BY <1>7, <2>3, CallsChange
  <2>. QED
    BY <1>1, <1>6, <2>4, Zenon
<1>9. CASE protocol = "claude"
  <2>1. ClaudeEvent(p, e) = [p EXCEPT !.calls[at].args = Append(@, args[at] + 1)]
    BY <1>2, <1>3, Zenon DEF ClaudeEvent
  <2>2. Understood(p, e) = ClaudeEvent(p, e)
    BY <1>9 DEF Understood
  <2>3. Understood(p, e) = [p EXCEPT !.calls = cs]
    BY <1>5, <2>1, <2>2, Zenon
  <2>4. Clean(Understood(p, e)) /\ Telling(Understood(p, e), texts, more, FALSE)
    BY <1>7, <2>3, CallsChange
  <2>. QED
    BY <1>1, <1>6, <2>4, Zenon
<1>. QED
  BY <1>8, <1>9

\* response.completed with its output says everything.
LEMMA HearsAll ==
  ASSUME PlanTypes, protocol = "codex", NEW p, Clean(p), NEW texts, NEW args \in Seq(Nat),
         Telling(p, texts, args, FALSE), Len(args) <= Len(plan.calls), texts \in {0, plan.texts}
  PROVE  /\ Clean(Understood(p, Event("finish", 0, 1)))
         /\ Telling(Understood(p, Event("finish", 0, 1)), plan.texts, PlannedArgs, TRUE)
<1>1. PICK e : e = Event("finish", 0, 1)
  OBVIOUS
<1>2. e.type = "finish" /\ e.n = 1
  BY <1>1, Zenon DEF Event
<1>3. e.type # "text" /\ e.type # "call" /\ e.n # 0
  BY <1>2
<1>4. IsState(p) /\ p.told = p.text /\ p.text = Upto(texts) /\ Carries(p.calls, args) /\ ~p.complete /\ ~p.failed
  BY DEF Telling
<1>5. PICK x : x = Upto(plan.texts)
  OBVIOUS
<1>6. PICK d : d = [p EXCEPT !.complete = TRUE]
  OBVIOUS
<1>7. /\ IsState(d) /\ d.line = <<>> /\ d.data = <<>> /\ d.text = p.text /\ d.told = p.text /\ d.calls = p.calls
      /\ d.complete /\ ~d.failed
  <2>1. d = Altered(p, p.text, p.calls, TRUE, p.failed)
    BY <1>4, <1>6, StateParts
  <2>. HIDE <1>6
  <2>2. IsState(p) /\ p.line = <<>> /\ p.data = <<>>
    BY DEF Clean
  <2>. QED
    BY <1>4, <2>1, <2>2 DEF Altered, IsState
<1>8. PICK t : t = IF p.text = <<>> THEN Says(d, Upto(plan.texts)) ELSE d
  OBVIOUS
<1>9. /\ IsState(t) /\ t.line = <<>> /\ t.data = <<>> /\ t.text = x /\ t.told = x /\ t.calls = p.calls
      /\ t.complete /\ ~t.failed
  <2>1. plan.texts \in Nat
    BY DEF PlanTypes
  <2>2. CASE p.text = <<>>
    <3>1. <<>> \o x = x
      <4>1. x \in Seq(Nat)
        BY <1>5, <2>1, NextPiece
      <4>. QED
        BY <4>1, ConcatEmptySeq
    <3>2. Says(d, Upto(plan.texts)) = [d EXCEPT !.text = x, !.told = x]
      BY <1>5, <1>7, <2>2, <3>1, Zenon DEF Says
    <3>3. t = Altered(d, x, d.calls, d.complete, d.failed)
      <4>1. d.told = d.text
        BY <1>7
      <4>. QED
        BY <1>7, <1>8, <2>2, <3>2, <4>1, StateParts, Zenon
    <3>4. /\ IsState(t) /\ t.line = d.line /\ t.data = d.data /\ t.text = x /\ t.told = x /\ t.calls = d.calls
          /\ t.complete = d.complete /\ t.failed = d.failed
      <4>. HIDE <1>8
      <4>1. IsState(d)
        BY <1>7
      <4>. QED
        BY <3>3, <4>1, WithParts
    <3>. QED
      BY <1>7, <3>4
  <2>3. CASE p.text # <<>>
    <3>1. t = d
      BY <1>8, <2>3
    <3>2. texts # 0
      BY <1>4, <2>3 DEF Upto
    <3>3. p.text = x
      BY <1>4, <1>5, <3>2
    <3>. QED
      BY <1>7, <3>1, <3>3
  <2>. QED
    BY <2>2, <2>3
<1>10. Understood(p, e) = [t EXCEPT !.calls = CodexCalls(@, Len(plan.calls))]
  <2>1. Understood(p, e) = CodexEvent(p, e)
    BY DEF Understood
  <2>. QED
    BY <1>2, <1>3, <1>6, <1>8, <2>1, Zenon DEF CodexEvent
<1>11. PICK cs : cs = CodexItems(Len(plan.calls))
  OBVIOUS
<1>12. CodexCalls(p.calls, Len(plan.calls)) = cs
  <2>1. PICK k \in Nat : k = Len(args)
    OBVIOUS
  <2>2. p.calls = CodexItems(k) /\ k <= Len(plan.calls)
    BY <1>4, <2>1 DEF Carries
  <2>3. CodexCalls(CodexItems(k), Len(plan.calls)) = CodexItems(Len(plan.calls))
    BY <2>2, ItemsAdded
  <2>. QED
    BY <1>11, <2>2, <2>3, Zenon
<1>13. PICK q : q = [t EXCEPT !.calls = cs]
  OBVIOUS
<1>14. Understood(p, e) = q
  BY <1>9, <1>10, <1>12, <1>13, Zenon
<1>15. /\ IsState(q) /\ q.line = <<>> /\ q.data = <<>> /\ q.text = x /\ q.told = x /\ q.calls = cs
       /\ q.complete /\ ~q.failed
  <2>1. t.told = t.text
    BY <1>9
  <2>. HIDE <1>8
  <2>2. q = Altered(t, t.text, cs, t.complete, t.failed)
    <3>1. [t EXCEPT !.calls = cs] = Altered(t, t.text, cs, t.complete, t.failed)
      BY <1>9, <2>1, StateParts
    <3>. QED
      BY <1>13, <3>1, Zenon
  <2>. HIDE <1>13
  <2>3. /\ IsState(q) /\ q.line = t.line /\ q.data = t.data /\ q.text = t.text /\ q.told = t.text /\ q.calls = cs
        /\ q.complete = t.complete /\ q.failed = t.failed
    <3>1. IsState(t)
      BY <1>9
    <3>. QED
      BY <2>2, <3>1, WithParts
  <2>. QED
    BY <1>9, <2>3
<1>16. Carries(cs, PlannedArgs)
  <2>1. Len(PlannedArgs) = Len(plan.calls)
    BY DEF PlannedArgs, PlanTypes
  <2>. QED
    BY <1>11, <2>1 DEF Carries
<1>17. Clean(q) /\ Telling(q, plan.texts, PlannedArgs, TRUE)
  BY <1>5, <1>15, <1>16 DEF Clean, Telling
<1>. QED
  BY <1>1, <1>14, <1>17, Zenon

\* What comes first in a sequence.
LEMMA FirstPart ==
  ASSUME NEW S, NEW s \in Seq(S), NEW t \in Seq(S), Len(s) >= 1
  PROVE  SubSeq(s \o t, 1, Len(s)) = s
<1>1. 1 \in 1..Len(s) /\ Len(s) \in 1..Len(s)
  OBVIOUS
<1>2. SubSeq(s \o t, 1, Len(s)) = SubSeq(s, 1, Len(s))
  BY <1>1, SubSeqOfConcat1
<1>. QED
  BY <1>2, SubSeqFull

\* The last event, whose blank lines may be missing.
Cut(e, less) == SubSeq(Framed(e), 1, Len(Framed(Nowhere)) - less * Len(EndOfLine))

\* The data of all events are equally long.
LEMMA DataLen ==
  ASSUME NEW e \in Events
  PROVE  Len(UntilData(e)) >= 1 /\ Len(UntilData(e)) = Len(UntilData(Nowhere))
<1>1. PICK n : n = IF protocol \in SseNames THEN <<Half("name", Nowhere)>> \o EndOfLine ELSE <<>>
  OBVIOUS
<1>2. n \in Seq(Tokens)
  <2>1. <<Half("name", Nowhere)>> \in Seq(Tokens)
    BY TokenKinds, Short
  <2>2. EndOfLine \in Seq(Tokens)
    BY FramedParts
  <2>3. <<Half("name", Nowhere)>> \o EndOfLine \in Seq(Tokens)
    BY <2>1, <2>2, ConcatProperties
  <2>4. <<>> \in Seq(Tokens)
    OBVIOUS
  <2>. QED
    BY <1>1, <2>3, <2>4
<1>3. ASSUME NEW x \in Events
      PROVE  Len(UntilData(x)) = Len(n) + 2
  <2>1. PICK d : d = <<Half("head", x), Half("tail", x)>>
    OBVIOUS
  <2>2. d \in Seq(Tokens) /\ Len(d) = 2
    <3>1. Half("head", x) \in Tokens /\ Half("tail", x) \in Tokens
      BY TokenKinds
    <3>. QED
      BY <2>1, <3>1
  <2>3. UntilData(x) = n \o d
    BY <1>1, <2>1, Zenon DEF UntilData
  <2>4. Len(n \o d) = Len(n) + Len(d)
    <3>. HIDE <2>1, <1>1
    <3>. QED
      BY <1>2, <2>2, ConcatProperties
  <2>. QED
    BY <2>2, <2>3, <2>4, Zenon
<1>4. Nowhere \in Events
  BY DEF Nowhere, Event, Events
<1>5. Len(n) \in Nat
  BY <1>2
<1>. HIDE <1>1
<1>. QED
  BY <1>3, <1>4, <1>5

\* What is cut from the end of the last event is a blank line or both of its line ends.
LEMMA CutFramed ==
  ASSUME protocol \in Protocols, NEW e \in Events, NEW less \in 0..2, less = 2 => protocol # "ollama"
  PROVE  /\ less = 0 => Cut(e, less) = Framed(e)
         /\ less # 0 => Cut(e, less) = UntilData(e) \/ (protocol # "ollama" /\ Cut(e, less) = UntilLine(e))
<1>0. Nowhere \in Events
  BY DEF Nowhere, Event, Events
<1>1. PICK d \in Seq(Tokens) : d = UntilData(e)
  BY FramedParts
<1>2. PICK z \in Seq(Tokens) : z = UntilData(Nowhere)
  BY <1>0, FramedParts
<1>3. PICK l \in Seq(Tokens) : l = EndOfLine
  BY FramedParts
<1>4. Len(d) >= 1 /\ Len(z) = Len(d) /\ Len(d) \in Nat /\ Len(l) \in Nat
  <2>1. Len(UntilData(e)) >= 1 /\ Len(UntilData(e)) = Len(UntilData(Nowhere))
    BY DataLen
  <2>. QED
    BY <1>1, <1>2, <2>1
<1>5. UntilLine(e) = d \o l /\ UntilLine(Nowhere) = z \o l
  BY <1>1, <1>2, <1>3, Zenon DEF UntilLine
<1>6. /\ Framed(e) = (d \o l) \o (IF protocol = "ollama" THEN <<>> ELSE l)
      /\ Framed(Nowhere) = (z \o l) \o (IF protocol = "ollama" THEN <<>> ELSE l)
  <2>1. /\ Framed(e) = UntilLine(e) \o (IF protocol = "ollama" THEN <<>> ELSE EndOfLine)
        /\ Framed(Nowhere) = UntilLine(Nowhere) \o (IF protocol = "ollama" THEN <<>> ELSE EndOfLine)
    BY <1>0, FramedParts, Zenon
  <2>. QED
    BY <1>3, <1>5, <2>1, Zenon
<1>. HIDE <1>1, <1>2, <1>3
<1>7. d \o l \in Seq(Tokens) /\ z \o l \in Seq(Tokens) /\ Len(d \o l) = Len(d) + Len(l) /\ Len(z \o l) = Len(d) + Len(l)
  <2>1. \A a, c \in Seq(Tokens) : a \o c \in Seq(Tokens) /\ Len(a \o c) = Len(a) + Len(c)
    BY ConcatProperties
  <2>. QED
    BY <1>4, <2>1
<1>8. CASE protocol = "ollama"
  <2>1. Framed(e) = d \o l /\ Framed(Nowhere) = z \o l
    <3>1. \A a \in Seq(Tokens) : a \o <<>> = a
      BY ConcatEmptySeq
    <3>. QED
      BY <1>6, <1>7, <1>8, <3>1, Zenon
  <2>2. Cut(e, less) = SubSeq(d \o l, 1, (Len(d) + Len(l)) - less * Len(l))
    BY <1>3, <1>7, <2>1, Zenon DEF Cut
  <2>3. CASE less = 0
    <3>1. (Len(d) + Len(l)) - less * Len(l) = Len(d \o l)
      BY <1>4, <1>7, <2>3
    <3>2. SubSeq(d \o l, 1, Len(d \o l)) = d \o l
      BY <1>7, SubSeqFull
    <3>. QED
      BY <2>1, <2>2, <2>3, <3>1, <3>2, Zenon
  <2>4. CASE less = 1
    <3>1. (Len(d) + Len(l)) - less * Len(l) = Len(d)
      BY <1>4, <2>4
    <3>2. SubSeq(d \o l, 1, Len(d)) = d
      BY <1>4, FirstPart
    <3>3. less # 0
      BY <2>4
    <3>. QED
      BY <1>1, <2>2, <3>1, <3>2, <3>3, Zenon
  <2>5. less = 0 \/ less = 1
    BY <1>8
  <2>. QED
    BY <2>3, <2>4, <2>5
<1>9. CASE protocol # "ollama"
  <2>1. Framed(e) = (d \o l) \o l /\ Framed(Nowhere) = (z \o l) \o l
    BY <1>6, <1>9, Zenon
  <2>2. (d \o l) \o l \in Seq(Tokens) /\ Len((d \o l) \o l) = (Len(d) + Len(l)) + Len(l) /\ Len((z \o l) \o l) = (Len(d) + Len(l)) + Len(l)
    <3>1. \A a, c \in Seq(Tokens) : a \o c \in Seq(Tokens) /\ Len(a \o c) = Len(a) + Len(c)
      BY ConcatProperties
    <3>. QED
      BY <1>4, <1>7, <3>1, SMTT(40)
  <2>3. Cut(e, less) = SubSeq((d \o l) \o l, 1, ((Len(d) + Len(l)) + Len(l)) - less * Len(l))
    BY <1>3, <2>1, <2>2, Zenon DEF Cut
  <2>4. CASE less = 0
    <3>1. ((Len(d) + Len(l)) + Len(l)) - less * Len(l) = Len((d \o l) \o l)
      BY <1>4, <2>2, <2>4
    <3>2. SubSeq((d \o l) \o l, 1, Len((d \o l) \o l)) = (d \o l) \o l
      BY <2>2, SubSeqFull
    <3>. QED
      BY <2>1, <2>3, <2>4, <3>1, <3>2, Zenon
  <2>5. CASE less = 1
    <3>1. ((Len(d) + Len(l)) + Len(l)) - less * Len(l) = Len(d \o l)
      BY <1>4, <1>7, <2>5
    <3>2. SubSeq((d \o l) \o l, 1, Len(d \o l)) = d \o l
      <4>1. Len(d \o l) >= 1
        BY <1>4, <1>7
      <4>. QED
        BY <1>7, <4>1, FirstPart
    <3>3. less # 0
      BY <2>5
    <3>. QED
      BY <1>5, <1>9, <2>3, <3>1, <3>2, <3>3, Zenon
  <2>6. CASE less = 2
    <3>1. ((Len(d) + Len(l)) + Len(l)) - less * Len(l) = Len(d)
      BY <1>4, <2>6
    <3>2. (d \o l) \o l = d \o (l \o l) /\ l \o l \in Seq(Tokens)
      BY ConcatAssociative, ConcatProperties
    <3>3. SubSeq(d \o (l \o l), 1, Len(d)) = d
      BY <1>4, <3>2, FirstPart
    <3>4. less # 0
      BY <2>6
    <3>. QED
      BY <1>1, <2>3, <3>1, <3>2, <3>3, <3>4, Zenon
  <2>. QED
    BY <2>4, <2>5, <2>6
<1>. QED
  BY <1>8, <1>9

----------------------------------------------------------------------------
\* What is on its way.

\* What a parser has been told once it has read an event is safe.
LEMMA TellingSafe ==
  ASSUME NEW r, Clean(r), NEW texts, NEW args, NEW done, Telling(r, texts, args, done),
         done => texts = plan.texts /\ args = PlannedArgs, NEW b
  PROVE  Safe(r, b)
<1>1. Emptied(r) = r /\ ~r.failed
  BY CleanIs
<1>2. r.complete => Final(r)
  BY DEF Telling, Final
<1>. QED
  BY <1>1, <1>2 DEF Safe

\* Where a reading begins and ends, and without a token.
LEMMA ReadsBounds ==
  ASSUME NEW p, NEW ts \in Seq(Tokens), NEW q, NEW b, Reads(p, ts, q, b)
  PROVE  Safe(p, b) /\ Safe(q, b) /\ (ts = <<>> => q = p)
<1>1. PICK h : IsReading(h, p, ts) /\ h[Len(ts)] = q /\ \A i \in 0..Len(ts) : Safe(h[i], b)
  BY DEF Reads
<1>2. 0 \in 0..Len(ts) /\ Len(ts) \in 0..Len(ts)
  BY TokensLen
<1>3. h[0] = p
  BY <1>1, <1>2, Zenon DEF IsReading
<1>4. Safe(h[0], b) /\ Safe(h[Len(ts)], b)
  BY <1>1, <1>2
<1>5. ts = <<>> => Len(ts) = 0
  OBVIOUS
<1>. QED
  BY <1>1, <1>3, <1>4, <1>5, Zenon

\* What is safe on a stream that is whole is safe on one that is broken.
LEMMA ReadsBroken ==
  ASSUME NEW p, NEW ts, NEW q, Reads(p, ts, q, FALSE)
  PROVE  Reads(p, ts, q, TRUE)
<1>1. \A s : Safe(s, FALSE) => Safe(s, TRUE)
  BY DEF Safe
<1>. QED
  BY <1>1, Zenon DEF Reads

\* What the provider has said of the reply.
TextsOf(em) == IF em.finished THEN plan.texts ELSE em.texts
ArgsOf(em) == IF em.finished THEN PlannedArgs ELSE em.args

\* The parser p and the tokens w on their way to it.  The parser has not failed yet; what is on its
\* way leads it, over safe states, to what the provider has said, unless the stream is broken.
ReadsOut(p, w, em, br) ==
  /\ ~p.failed
  /\ br => em.closed /\ \E d : Reads(p, w, d, TRUE)
  /\ ~br => \E d, s, te, ar :
                /\ Reads(p, w, d, FALSE)
                /\ ~em.closed => Clean(d)
                /\ s = Emptied(d) /\ te = TextsOf(em) /\ ar = ArgsOf(em) /\ Telling(s, te, ar, em.finished)

\* An event of the reply.
LEMMA Sends ==
  ASSUME PlanTypes, NEW p, NEW w \in Seq(Tokens), NEW em, NEW more, NEW br, ReadsOut(p, w, em, br), ~em.closed,
         NEW e \in Events,
         \A d : Clean(d) /\ Telling(d, TextsOf(em), ArgsOf(em), em.finished) =>
                  Clean(Understood(d, e)) /\ Telling(Understood(d, e), TextsOf(more), ArgsOf(more), more.finished)
  PROVE  ~br /\ ReadsOut(p, w \o Framed(e), more, br)
<1>1. ~br /\ ~p.failed
  BY DEF ReadsOut
<1>2. PICK d : Reads(p, w, d, FALSE) /\ Clean(d) /\ Telling(Emptied(d), TextsOf(em), ArgsOf(em), em.finished)
  BY <1>1, Zenon DEF ReadsOut
<1>3. Emptied(d) = d
  BY <1>2, CleanIs
<1>4. PICK r : r = Understood(d, e)
  OBVIOUS
<1>5. Clean(r) /\ Telling(r, TextsOf(more), ArgsOf(more), more.finished)
  BY <1>2, <1>3, <1>4, Zenon
<1>6. Safe(d, FALSE)
  BY <1>2, ReadsBounds
<1>7. Safe(r, FALSE)
  <2>1. more.finished => TextsOf(more) = plan.texts /\ ArgsOf(more) = PlannedArgs
    BY Zenon DEF TextsOf, ArgsOf
  <2>. HIDE <1>4
  <2>. QED
    BY <1>5, <2>1, TellingSafe
<1>8. Reads(d, Framed(e), r, FALSE)
  <2>1. protocol \in Protocols /\ crlf \in BOOLEAN
    BY DEF PlanTypes
  <2>. QED
    BY <1>2, <1>4, <1>5, <1>6, <1>7, <2>1, ReadsEvent, Zenon
<1>9. Framed(e) \in Seq(Tokens)
  BY FramedParts
<1>10. Reads(p, w \o Framed(e), r, FALSE)
  BY <1>2, <1>8, <1>9, ReadsOn
<1>11. Emptied(r) = r
  BY <1>5, CleanIs
<1>. QED
  BY <1>1, <1>5, <1>10, <1>11, Zenon DEF ReadsOut

\* The last event of the reply, after which the connection may be closed before its blank lines.
LEMMA SendsLast ==
  ASSUME PlanTypes, NEW p, NEW w \in Seq(Tokens), NEW em, NEW more, NEW br, ReadsOut(p, w, em, br), ~em.closed,
         NEW e \in Events, NEW less \in 0..2, less = 2 => protocol # "ollama", less # 0 => more.closed,
         \A d : Clean(d) /\ Telling(d, TextsOf(em), ArgsOf(em), em.finished) =>
                  Clean(Understood(d, e)) /\ Telling(Understood(d, e), TextsOf(more), ArgsOf(more), more.finished)
  PROVE  ~br /\ ReadsOut(p, w \o Cut(e, less), more, br)
<1>0. protocol \in Protocols /\ crlf \in BOOLEAN
  BY DEF PlanTypes
<1>1. ~br /\ ~p.failed
  BY DEF ReadsOut
<1>2. CASE less = 0
  <2>1. Cut(e, less) = Framed(e)
    BY <1>0, <1>2, CutFramed
  <2>2. ReadsOut(p, w \o Framed(e), more, br)
    BY Sends
  <2>. QED
    BY <1>1, <2>1, <2>2, Zenon
<1>3. CASE less # 0
  <2>2. PICK d : Reads(p, w, d, FALSE) /\ Clean(d) /\ Telling(Emptied(d), TextsOf(em), ArgsOf(em), em.finished)
    BY <1>1, Zenon DEF ReadsOut
  <2>3. Emptied(d) = d
    BY <2>2, CleanIs
  <2>4. PICK r : r = Understood(d, e)
    OBVIOUS
  <2>5. Clean(r) /\ Telling(r, TextsOf(more), ArgsOf(more), more.finished)
    BY <2>2, <2>3, <2>4, Zenon
  <2>6. Safe(d, FALSE)
    BY <2>2, ReadsBounds
  <2>7. Safe(r, FALSE)
    <3>1. more.finished => TextsOf(more) = plan.texts /\ ArgsOf(more) = PlannedArgs
      BY Zenon DEF TextsOf, ArgsOf
    <3>. HIDE <2>4
    <3>. QED
      BY <2>5, <3>1, TellingSafe
  <2>8. HasRead(d, UntilData(e), r, FALSE) /\ (protocol # "ollama" => HasRead(d, UntilLine(e), r, FALSE))
    BY <1>0, <2>2, <2>4, <2>5, <2>6, <2>7, ReadsEvent, Zenon
  <2>9. UntilData(e) \in Seq(Tokens) /\ UntilLine(e) \in Seq(Tokens)
    BY FramedParts
  <2>10. Cut(e, less) = UntilData(e) \/ (protocol # "ollama" /\ Cut(e, less) = UntilLine(e))
    BY <1>0, <1>3, CutFramed
  <2>11. PICK c \in Seq(Tokens) : c = Cut(e, less)
    BY <2>9, <2>10
  <2>12. PICK s : Reads(d, c, s, FALSE) /\ Emptied(s) = r
    BY <2>8, <2>10, <2>11, Zenon DEF HasRead
  <2>13. Reads(p, w \o c, s, FALSE)
    BY <2>2, <2>12, ReadsOn
  <2>14. more.closed
    BY <1>3
  <2>. QED
    BY <1>1, <2>5, <2>11, <2>12, <2>13, <2>14, Zenon DEF ReadsOut
<1>. QED
  BY <1>2, <1>3

\* The provider reports an error, and the stream is broken.
LEMMA SendsError ==
  ASSUME PlanTypes, NEW p, NEW w \in Seq(Tokens), NEW em, NEW more, NEW br, ReadsOut(p, w, em, br), ~em.closed, more.closed
  PROVE  ReadsOut(p, w \o Framed(Event("error", 0, 0)), more, TRUE)
<1>0. protocol \in Protocols /\ crlf \in BOOLEAN
  BY DEF PlanTypes
<1>1. ~br /\ ~p.failed
  BY DEF ReadsOut
<1>2. PICK d : Reads(p, w, d, FALSE) /\ Clean(d)
  BY <1>1, Zenon DEF ReadsOut
<1>3. Reads(p, w, d, TRUE)
  BY <1>2, ReadsBroken
<1>4. PICK e \in Events : e = Event("error", 0, 0)
  BY EventIs
<1>5. PICK r : r = Understood(d, e)
  OBVIOUS
<1>6. r.failed
  BY <1>2, <1>4, <1>5, HearsError
<1>7. Safe(d, TRUE) /\ Safe(r, TRUE)
  <2>1. Safe(d, TRUE)
    BY <1>3, ReadsBounds
  <2>2. Safe(r, TRUE)
    BY <1>6, Zenon DEF Safe
  <2>. QED
    BY <2>1, <2>2
<1>8. Reads(d, Framed(e), r, TRUE)
  BY <1>0, <1>2, <1>5, <1>6, <1>7, ReadsEvent, Zenon
<1>9. Framed(e) \in Seq(Tokens)
  BY FramedParts
<1>10. Reads(p, w \o Framed(e), r, TRUE)
  BY <1>3, <1>8, <1>9, ReadsOn
<1>. QED
  BY <1>1, <1>4, <1>10, Zenon DEF ReadsOut

\* The parser takes some of the tokens.
LEMMA TakesChunk ==
  ASSUME NEW p, NEW w \in Seq(Tokens), NEW em, NEW br, ReadsOut(p, w, em, br), NEW n \in 1..Len(w),
         NEW q, q = Steps(p, w)[n]
  PROVE  /\ q.failed => br
         /\ ~q.failed => ReadsOut(q, SubSeq(w, n + 1, Len(w)), em, br)
<1>1. ASSUME NEW d, NEW b, Reads(p, w, d, b)
      PROVE  Safe(q, b) /\ Reads(q, SubSeq(w, n + 1, Len(w)), d, b)
  BY <1>1, ReadsPart
<1>. HIDE DEF Steps
<1>2. CASE br
  <2>1. em.closed /\ \E d : Reads(p, w, d, TRUE)
    BY <1>2, Zenon DEF ReadsOut
  <2>2. \E d : Reads(q, SubSeq(w, n + 1, Len(w)), d, TRUE)
    BY <1>1, <2>1, Zenon
  <2>. QED
    BY <1>2, <2>1, <2>2, Zenon DEF ReadsOut
<1>3. CASE ~br
  <2>1. PICK d : /\ Reads(p, w, d, FALSE)
                 /\ ~em.closed => Clean(d)
                 /\ Telling(Emptied(d), TextsOf(em), ArgsOf(em), em.finished)
    BY <1>3, Zenon DEF ReadsOut
  <2>2. Safe(q, FALSE) /\ Reads(q, SubSeq(w, n + 1, Len(w)), d, FALSE)
    BY <1>1, <2>1, Zenon
  <2>3. ~q.failed
    BY <2>2, Zenon DEF Safe
  <2>. QED
    BY <1>3, <2>1, <2>2, <2>3, Zenon DEF ReadsOut
<1>. QED
  BY <1>2, <1>3

\* What a parser tells of the reply is told in the next state too,
LEMMA TellingKept ==
  ASSUME SameReply, NEW s, NEW te, NEW ar, NEW fi, Telling(s, te, ar, fi)
  PROVE  Telling(s, te, ar, fi)'
<1>1. Carries(s.calls, ar)' = Carries(s.calls, ar)
  <2>1. PICK cs : cs = s.calls
    OBVIOUS
  <2>2. Carries(cs, ar)' = Carries(cs, ar)
    BY CarriesKept
  <2>. QED
    BY <2>1, <2>2
<1>. QED
  BY <1>1, Zenon DEF Telling

\* and so is what is on its way to it.
LEMMA ReadsOutKept ==
  ASSUME SameReply, NEW p, NEW w, NEW em, NEW br, ReadsOut(p, w, em, br)
  PROVE  ReadsOut(p, w, em, br)'
<1>1. ~p.failed
  BY DEF ReadsOut
<1>2. br => em.closed /\ \E d : Reads(p, w, d, TRUE)'
  BY ReadsKept, Zenon DEF ReadsOut
<1>3. ASSUME ~br
      PROVE  \E d, s, te, ar :
               /\ Reads(p, w, d, FALSE)'
               /\ ~em.closed => Clean(d)
               /\ s = Emptied(d)' /\ te = TextsOf(em)' /\ ar = ArgsOf(em)' /\ Telling(s, te, ar, em.finished)'
  <2>1. PICK d, s, te, ar :
               /\ Reads(p, w, d, FALSE)
               /\ ~em.closed => Clean(d)
               /\ s = Emptied(d) /\ te = TextsOf(em) /\ ar = ArgsOf(em) /\ Telling(s, te, ar, em.finished)
    BY <1>3, Zenon DEF ReadsOut
  <2>2. Reads(p, w, d, FALSE)'
    BY <2>1, ReadsKept, Zenon
  <2>3. s = Emptied(d)'
    BY <2>1, TokenKept, Zenon
  <2>4. te = TextsOf(em)'
    BY <2>1, Zenon DEF TextsOf, SameReply
  <2>5. ar = ArgsOf(em)'
    <3>1. PlannedArgs' = PlannedArgs
      BY Zenon DEF PlannedArgs, SameReply
    <3>. QED
      BY <2>1, <3>1, Zenon DEF ArgsOf
  <2>6. Telling(s, te, ar, em.finished)'
    <3>1. PICK fi : fi = em.finished
      OBVIOUS
    <3>2. Telling(s, te, ar, fi)'
      BY <2>1, <3>1, TellingKept, Zenon
    <3>. QED
      BY <3>1, <3>2, Zenon
  <2>. QED
    BY <2>1, <2>2, <2>3, <2>4, <2>5, <2>6, Zenon
<1>. QED
  BY <1>1, <1>2, <1>3, Zenon DEF ReadsOut

\* The parts of the state.
StreamTypes ==
  /\ PlanTypes
  /\ emitted \in [texts : Nat, args : Seq(Nat), finished : BOOLEAN, closed : BOOLEAN]
  /\ wire \in Seq(Tokens) /\ broken \in BOOLEAN
  /\ Begun <= Len(plan.calls)
  /\ protocol \in {"ollama", "codex"} => \A i \in 1..Begun : emitted.args[i] = 1
  /\ emitted.finished => AllSent \/ protocol = "codex"

\* While the request is open, what is on its way leads the parser to what was sent.
StreamReads ==
  outcome = "open" =>
    \E p, w, em, br : p = parser /\ w = wire /\ em = emitted /\ br = broken /\ ReadsOut(p, w, em, br)

\* The invariant.
StreamInv == StreamTypes /\ StreamReads /\ AcceptedIsMeant

\* A step that leaves the reply as it is, in terms of the next state.
LEMMA ReadsNext ==
  ASSUME SameReply, NEW p, NEW w, NEW em, NEW br, ReadsOut(p, w, em, br),
         p = parser', w = wire', em = emitted', br = broken'
  PROVE  StreamReads'
<1>1. ReadsOut(p, w, em, br)'
  BY ReadsOutKept
<1>. QED
  BY <1>1, Zenon DEF StreamReads

\* The end of the reply as a Boolean.
LEMMA TellingDone ==
  ASSUME NEW s, NEW te, NEW ar, NEW fi, NEW gi, Telling(s, te, ar, fi), fi <=> gi
  PROVE  Telling(s, te, ar, gi)
BY Zenon DEF Telling

\* An event before the end of the reply, the last one, and one behind it.
LEMMA SendsMore ==
  ASSUME PlanTypes, NEW p, NEW w \in Seq(Tokens), NEW em, NEW more, NEW br, ReadsOut(p, w, em, br), ~em.closed,
         ~em.finished, ~more.finished, NEW e \in Events,
         \A d : Clean(d) /\ Telling(d, em.texts, em.args, FALSE) =>
                  Clean(Understood(d, e)) /\ Telling(Understood(d, e), more.texts, more.args, FALSE)
  PROVE  ReadsOut(p, w \o Framed(e), more, br)
<1>1. TextsOf(em) = em.texts /\ ArgsOf(em) = em.args /\ TextsOf(more) = more.texts /\ ArgsOf(more) = more.args
  BY Zenon DEF TextsOf, ArgsOf
<1>2. ASSUME NEW d, Clean(d), Telling(d, TextsOf(em), ArgsOf(em), em.finished)
      PROVE  Clean(Understood(d, e)) /\ Telling(Understood(d, e), TextsOf(more), ArgsOf(more), more.finished)
  <2>1. Telling(d, em.texts, em.args, FALSE)
    <3>1. Telling(d, em.texts, em.args, em.finished)
      BY <1>1, <1>2, Zenon
    <3>2. em.finished <=> FALSE
      OBVIOUS
    <3>. QED
      BY <3>1, <3>2, Zenon DEF Telling
  <2>2. Clean(Understood(d, e)) /\ Telling(Understood(d, e), more.texts, more.args, FALSE)
    BY <1>2, <2>1, Zenon
  <2>. QED
    BY <1>1, <2>2, TellingDone, Zenon
<1>. QED
  BY <1>2, Sends

\* The last event: behind it the parser has the whole reply, though its blank lines may be missing.
LEMMA SendsEnd ==
  ASSUME PlanTypes, NEW p, NEW w \in Seq(Tokens), NEW em, NEW more, NEW br, ReadsOut(p, w, em, br), ~em.closed,
         ~em.finished, more.finished, NEW e \in Events,
         NEW less \in 0..2, less = 2 => protocol # "ollama", less # 0 => more.closed,
         \A d : Clean(d) /\ Telling(d, em.texts, em.args, FALSE) =>
                  Clean(Understood(d, e)) /\ Telling(Understood(d, e), plan.texts, PlannedArgs, TRUE)
  PROVE  ReadsOut(p, w \o Cut(e, less), more, br)
<1>1. TextsOf(em) = em.texts /\ ArgsOf(em) = em.args /\ TextsOf(more) = plan.texts /\ ArgsOf(more) = PlannedArgs
  BY Zenon DEF TextsOf, ArgsOf
<1>2. ASSUME NEW d, Clean(d), Telling(d, TextsOf(em), ArgsOf(em), em.finished)
      PROVE  Clean(Understood(d, e)) /\ Telling(Understood(d, e), TextsOf(more), ArgsOf(more), more.finished)
  <2>1. Telling(d, em.texts, em.args, FALSE)
    <3>1. Telling(d, em.texts, em.args, em.finished)
      BY <1>1, <1>2, Zenon
    <3>2. em.finished <=> FALSE
      OBVIOUS
    <3>. QED
      BY <3>1, <3>2, Zenon DEF Telling
  <2>2. Clean(Understood(d, e)) /\ Telling(Understood(d, e), plan.texts, PlannedArgs, TRUE)
    BY <1>2, <2>1, Zenon
  <2>. QED
    BY <1>1, <2>2, TellingDone, Zenon
<1>. QED
  BY <1>2, SendsLast

\* An event behind the last one adds nothing.
LEMMA SendsAfter ==
  ASSUME PlanTypes, NEW p, NEW w \in Seq(Tokens), NEW em, NEW more, NEW br, ReadsOut(p, w, em, br), ~em.closed,
         em.finished, more.finished, NEW e \in Events,
         \A d : Clean(d) /\ Telling(d, plan.texts, PlannedArgs, TRUE) =>
                  Clean(Understood(d, e)) /\ Telling(Understood(d, e), plan.texts, PlannedArgs, TRUE)
  PROVE  ReadsOut(p, w \o Framed(e), more, br)
<1>1. TextsOf(em) = plan.texts /\ ArgsOf(em) = PlannedArgs /\ TextsOf(more) = plan.texts /\ ArgsOf(more) = PlannedArgs
  BY Zenon DEF TextsOf, ArgsOf
<1>2. ASSUME NEW d, Clean(d), Telling(d, TextsOf(em), ArgsOf(em), em.finished)
      PROVE  Clean(Understood(d, e)) /\ Telling(Understood(d, e), TextsOf(more), ArgsOf(more), more.finished)
  <2>1. Telling(d, plan.texts, PlannedArgs, TRUE)
    BY <1>1, <1>2, TellingDone, Zenon
  <2>2. Clean(Understood(d, e)) /\ Telling(Understood(d, e), plan.texts, PlannedArgs, TRUE)
    BY <1>2, <2>1, Zenon
  <2>. QED
    BY <1>1, <2>2, TellingDone, Zenon
<1>. QED
  BY <1>2, Sends

\* The plan stays as it is.
LEMMA PlanKept ==
  ASSUME PlanTypes, SameReply PROVE PlanTypes'
BY Zenon DEF PlanTypes, Sensible, SameReply

\* A piece of text is sent.
LEMMA TextSent ==
  ASSUME StreamInv, SendText PROVE StreamInv'
<1>1. /\ SameReply /\ outcome = "open" /\ outcome' = "open" /\ ~emitted.closed /\ ~emitted.finished
      /\ wire' = wire \o Framed(Event("text", 0, emitted.texts + 1)) /\ parser' = parser /\ broken' = broken
  BY DEF SendText, Sending, Put, SameReply
<1>t. StreamTypes /\ PlanTypes
  BY DEF StreamInv, StreamTypes
<1>2. PICK p, w, em, br : p = parser /\ w = wire /\ em = emitted /\ br = broken /\ ReadsOut(p, w, em, br)
  BY <1>1 DEF StreamInv, StreamReads
<1>3. PICK more : more = [em EXCEPT !.texts = @ + 1]
  OBVIOUS
<1>4. em.texts \in Nat /\ more.texts = em.texts + 1 /\ more.args = em.args /\ ~em.finished /\ ~more.finished /\ ~em.closed
  BY <1>1, <1>2, <1>3, <1>t DEF StreamTypes
<1>5. emitted' = more
  BY <1>2, <1>3, Zenon DEF SendText
<1>6. PICK e \in Events : e = Event("text", 0, em.texts + 1)
  <2>1. em.texts + 1 \in Nat /\ 0 \in Nat
    BY <1>4
  <2>. QED
    BY <2>1, EventIs
<1>7. \A d : Clean(d) /\ Telling(d, em.texts, em.args, FALSE) =>
               Clean(Understood(d, e)) /\ Telling(Understood(d, e), more.texts, more.args, FALSE)
  BY <1>4, <1>6, <1>t, HearsText, Zenon
<1>8. w \in Seq(Tokens) /\ Framed(e) \in Seq(Tokens)
  BY <1>2, <1>t, FramedParts DEF StreamTypes
<1>9. ReadsOut(p, w \o Framed(e), more, br)
  <2>. HIDE <1>3, <1>6, <1>2
  <2>1. ReadsOut(p, w, em, br)
    BY <1>2
  <2>. QED
    BY <1>4, <1>7, <1>8, <1>t, <2>1, SendsMore
<1>10. w \o Framed(e) = wire'
  BY <1>1, <1>2, <1>6, Zenon
<1>11. StreamReads'
  <2>. HIDE <1>3, <1>6
  <2>1. PICK v : v = w \o Framed(e)
    OBVIOUS
  <2>. QED
    BY <1>1, <1>2, <1>5, <1>9, <1>10, <2>1, ReadsNext, Zenon
<1>12. StreamTypes'
  <2>1. PlanTypes'
    BY <1>1, <1>t, PlanKept
  <2>2. wire' \in Seq(Tokens)
    BY <1>8, <1>10, ConcatProperties
  <2>3. emitted' \in [texts : Nat, args : Seq(Nat), finished : BOOLEAN, closed : BOOLEAN]
        /\ emitted'.args = emitted.args /\ ~emitted'.finished
    BY <1>1, <1>t, SMTT(40) DEF StreamTypes, SendText
  <2>. QED
    BY <1>1, <1>t, <2>1, <2>2, <2>3, Zenon DEF StreamTypes, Begun, SameReply
<1>13. AcceptedIsMeant'
  BY <1>1 DEF AcceptedIsMeant
<1>. QED
  BY <1>11, <1>12, <1>13 DEF StreamInv

\* The pieces of the calls that begin.
Begins(n) == [i \in 1..n |-> IF protocol \in {"ollama", "codex"} THEN 1 ELSE 0]

\* The pieces of the calls that begin.
LEMMA BeginsTypes ==
  ASSUME NEW n \in Nat, NEW args \in Seq(Nat), NEW more, more = args \o Begins(n)
  PROVE  /\ more \in Seq(Nat) /\ Len(more) = Len(args) + n
         /\ \A i \in 1..Len(args) : more[i] = args[i]
         /\ \A i \in 1..n : more[Len(args) + i] = IF protocol \in {"ollama", "codex"} THEN 1 ELSE 0
<1>1. PICK one \in {0, 1} : one = IF protocol \in {"ollama", "codex"} THEN 1 ELSE 0
  OBVIOUS
<1>2. PICK new : new = [i \in 1..n |-> one]
  OBVIOUS
<1>3. Begins(n) = new
  BY <1>1, <1>2, Zenon DEF Begins
<1>4. new \in Seq(Nat) /\ Len(new) = n /\ \A i \in 1..n : new[i] = one
  BY <1>2
<1>. HIDE <1>1, <1>2
<1>5. more = args \o new
  BY <1>3, Zenon
<1>6. /\ more \in Seq(Nat) /\ Len(more) = Len(args) + n
      /\ \A i \in 1..(Len(args) + n) : more[i] = IF i <= Len(args) THEN args[i] ELSE new[i - Len(args)]
  BY <1>4, <1>5, ConcatProperties
<1>7. Len(args) \in Nat
  OBVIOUS
<1>. HIDE <1>5
<1>8. \A i \in 1..Len(args) : more[i] = args[i]
  BY <1>6, <1>7
<1>9. ASSUME NEW i \in 1..n PROVE more[Len(args) + i] = one
  <2>1. Len(args) + i \in 1..(Len(args) + n) /\ ~(Len(args) + i <= Len(args)) /\ (Len(args) + i) - Len(args) = i
    BY <1>7
  <2>. QED
    BY <1>4, <1>6, <2>1, Zenon
<1>10. \A i \in 1..n : more[Len(args) + i] = IF protocol \in {"ollama", "codex"} THEN 1 ELSE 0
  BY <1>1, <1>9, Zenon
<1>. QED
  BY <1>6, <1>8, <1>10

\* A call is sent, or several by Ollama.
LEMMA CallSent ==
  ASSUME StreamInv, SendCall PROVE StreamInv'
<1>t. StreamTypes /\ PlanTypes /\ StreamReads
  BY DEF StreamInv, StreamTypes
<1>0. /\ SameReply /\ outcome = "open" /\ outcome' = "open" /\ ~emitted.closed
      /\ parser' = parser /\ broken' = broken /\ Begun < Len(plan.calls)
  BY DEF SendCall, Sending, SameReply
<1>n. PICK n \in 1..(Len(plan.calls) - Begun) :
        /\ n > 1 => protocol = "ollama"
        /\ emitted' = [emitted EXCEPT !.args = @ \o Begins(n)]
        /\ wire' = wire \o Framed(Event("call", Begun + 1, n))
  BY Zenon DEF SendCall, Put, Begins
<1>2. PICK p, w, em, br : p = parser /\ w = wire /\ em = emitted /\ br = broken /\ ReadsOut(p, w, em, br)
  BY <1>0, <1>t DEF StreamReads
<1>3. PICK more : more = [em EXCEPT !.args = @ \o Begins(n)]
  OBVIOUS
<1>4. /\ em \in [texts : Nat, args : Seq(Nat), finished : BOOLEAN, closed : BOOLEAN]
      /\ ~em.closed /\ (em.finished => protocol = "codex" \/ AllSent)
  BY <1>0, <1>2, <1>t DEF StreamTypes
<1>5. PICK a \in Seq(Nat) : a = em.args
  BY <1>4
<1>6. PICK c : c = a \o Begins(n)
  OBVIOUS
<1>7. /\ more.args = c /\ more.texts = em.texts /\ (more.finished <=> em.finished) /\ (more.closed <=> em.closed)
      /\ more = [em EXCEPT !.args = c]
  <2>1. more = [em EXCEPT !.args = c]
    BY <1>3, <1>5, <1>6, Zenon
  <2>. HIDE <1>3, <1>6, <1>2
  <2>. QED
    BY <1>4, <2>1
<1>8. n \in Nat /\ n \in Nat \ {0}
  BY DEF Begun, StreamTypes, PlanTypes
<1>9. /\ c \in Seq(Nat) /\ Len(c) = Len(a) + n
      /\ \A i \in 1..Len(a) : c[i] = a[i]
      /\ \A i \in 1..n : c[Len(a) + i] = IF protocol \in {"ollama", "codex"} THEN 1 ELSE 0
  <2>1. n \in Nat
    BY <1>8
  <2>2. ASSUME NEW x, x = a \o Begins(n)
        PROVE  /\ x \in Seq(Nat) /\ Len(x) = Len(a) + n
               /\ \A i \in 1..Len(a) : x[i] = a[i]
               /\ \A i \in 1..n : x[Len(a) + i] = IF protocol \in {"ollama", "codex"} THEN 1 ELSE 0
    BY <2>1, <2>2, BeginsTypes, ZenonT(60)
  <2>. QED
    BY <1>6, <2>2, Zenon
<1>10. Len(a) = Begun /\ Len(a) \in Nat /\ Len(plan.calls) \in Nat /\ Len(a) + n <= Len(plan.calls)
  <2>1. Len(a) = Begun /\ Len(a) \in Nat
    BY <1>2, <1>5 DEF Begun
  <2>2. Len(plan.calls) \in Nat
    BY <1>t DEF PlanTypes
  <2>. QED
    BY <2>1, <2>2, <1>n
<1>11. PICK e \in Events : e = Event("call", Len(a) + 1, n)
  <2>1. Len(a) + 1 \in Nat /\ n \in Nat
    BY <1>8, <1>10
  <2>. QED
    BY <2>1, EventIs
<1>12. w \in Seq(Tokens) /\ Framed(e) \in Seq(Tokens)
  BY <1>2, <1>t, FramedParts DEF StreamTypes
<1>. HIDE <1>3, <1>5, <1>6, <1>11, <1>2
<1>13. ReadsOut(p, w \o Framed(e), more, br)
  <2>r. ReadsOut(p, w, em, br)
    BY <1>2
  <2>1. CASE ~em.finished
    <3>1. ASSUME NEW d, Clean(d), Telling(d, em.texts, em.args, FALSE)
          PROVE  Clean(Understood(d, e)) /\ Telling(Understood(d, e), more.texts, more.args, FALSE)
      <4>1. Telling(d, em.texts, a, FALSE)
        BY <1>5, <3>1, Zenon
      <4>2. protocol \in {"openai", "claude"} => c[Len(a) + 1] = 0
        BY <1>8, <1>9
      <4>3. /\ Clean(Understood(d, Event("call", Len(a) + 1, n)))
            /\ Telling(Understood(d, Event("call", Len(a) + 1, n)), em.texts, c, FALSE)
        BY <1>t, <1>n, <1>8, <1>9, <1>10, <3>1, <4>1, <4>2, HearsCall
      <4>. QED
        BY <1>7, <1>11, <4>3, Zenon
    <3>2. ~more.finished
      BY <1>7, <2>1
    <3>. QED
      BY <1>4, <1>12, <1>t, <2>1, <2>r, <3>1, <3>2, SendsMore
  <2>2. CASE em.finished
    <3>0. protocol = "codex" /\ n = 1
      <4>1. ~AllSent
        BY <1>0, <1>10 DEF AllSent
      <4>2. protocol = "codex"
        BY <1>4, <2>2, <4>1
      <4>. QED
        BY <1>8, <1>n, <4>2
    <3>p. PICK ar \in Seq(Nat) : ar = PlannedArgs /\ Len(ar) = Len(plan.calls)
      BY <1>t, PlanIs
    <3>1. ASSUME NEW d, Clean(d), Telling(d, plan.texts, PlannedArgs, TRUE)
          PROVE  Clean(Understood(d, e)) /\ Telling(Understood(d, e), plan.texts, PlannedArgs, TRUE)
      <4>0. PICK at : at = Len(a) + 1
        OBVIOUS
      <4>1. at \in 1..Len(ar) /\ Len(ar) <= Len(plan.calls)
        BY <1>8, <1>10, <3>0, <3>p, <4>0
      <4>2. Telling(d, plan.texts, ar, TRUE)
        BY <3>1, <3>p, Zenon
      <4>. HIDE <3>p, <4>0
      <4>3. /\ Clean(Understood(d, Event("call", at, 1)))
            /\ Telling(Understood(d, Event("call", at, 1)), plan.texts, ar, TRUE)
        BY <1>t, <3>0, <3>1, <4>1, <4>2, HearsRepeat
      <4>4. e = Event("call", at, 1)
        BY <1>11, <3>0, <4>0, Zenon
      <4>. QED
        BY <3>p, <4>3, <4>4, Zenon
    <3>2. more.finished
      BY <1>7, <2>2
    <3>. QED
      BY <1>4, <1>12, <1>t, <2>2, <2>r, <3>1, <3>2, SendsAfter
  <2>. QED
    BY <2>1, <2>2
<1>14. w \o Framed(e) = wire' /\ emitted' = more
  BY <1>n, <1>2, <1>3, <1>10, <1>11, Zenon
<1>15. StreamReads'
  <2>1. PICK v : v = w \o Framed(e)
    OBVIOUS
  <2>. QED
    BY <1>0, <1>2, <1>13, <1>14, <2>1, ReadsNext, Zenon
<1>16. StreamTypes'
  <2>1. PlanTypes'
    BY <1>0, <1>t, PlanKept
  <2>2. wire' \in Seq(Tokens)
    BY <1>12, <1>14, ConcatProperties
  <2>3. more \in [texts : Nat, args : Seq(Nat), finished : BOOLEAN, closed : BOOLEAN]
    BY <1>4, <1>7, <1>9
  <2>4. emitted'.args = c /\ (emitted'.finished <=> em.finished)
    BY <1>7, <1>14, Zenon
  <2>5. emitted' \in [texts : Nat, args : Seq(Nat), finished : BOOLEAN, closed : BOOLEAN]
    BY <1>14, <2>3
  <2>6. Begun' = Len(c) /\ Begun' <= Len(plan'.calls)
    <3>1. Begun' = Len(c)
      BY <2>4, Zenon DEF Begun
    <3>2. plan' = plan
      BY <1>0 DEF SameReply
    <3>3. Len(c) <= Len(plan.calls)
      BY <1>9, <1>10
    <3>. QED
      BY <3>1, <3>2, <3>3
  <2>7. protocol \in {"ollama", "codex"} => \A i \in 1..Len(c) : c[i] = 1
    <3>1. ASSUME protocol \in {"ollama", "codex"}, NEW i \in 1..Len(c)
          PROVE  c[i] = 1
      <4>1. \A j \in 1..Len(a) : a[j] = 1
        BY <1>2, <1>5, <1>10, <1>t, <3>1, Zenon DEF StreamTypes
      <4>2. CASE i <= Len(a)
        BY <1>9, <1>10, <4>1, <4>2
      <4>3. CASE ~(i <= Len(a))
        <5>1. i - Len(a) \in 1..n /\ Len(a) + (i - Len(a)) = i
          BY <1>8, <1>9, <1>10, <4>3
        <5>2. c[Len(a) + (i - Len(a))] = 1
          BY <1>9, <3>1, <5>1
        <5>. QED
          BY <5>1, <5>2
      <4>. QED
        BY <4>2, <4>3
    <3>. QED
      BY <3>1
  <2>8. emitted'.finished => protocol = "codex"
    <3>1. ~AllSent
      BY <1>0, <1>10 DEF AllSent
    <3>. QED
      BY <1>4, <2>4, <3>1
  <2>9. broken' \in BOOLEAN
    BY <1>0, <1>t, Zenon DEF StreamTypes
  <2>. QED
    BY <1>0, <2>1, <2>2, <2>4, <2>5, <2>6, <2>7, <2>8, <2>9, Zenon DEF StreamTypes, SameReply
<1>17. AcceptedIsMeant'
  BY <1>0 DEF AcceptedIsMeant
<1>. QED
  BY <1>15, <1>16, <1>17 DEF StreamInv

\* A piece of arguments is sent.
LEMMA ArgsSent ==
  ASSUME StreamInv, SendArgs PROVE StreamInv'
<1>t. StreamTypes /\ PlanTypes /\ StreamReads
  BY DEF StreamInv, StreamTypes
<1>0. /\ SameReply /\ outcome = "open" /\ outcome' = "open" /\ ~emitted.closed
      /\ parser' = parser /\ broken' = broken
  BY DEF SendArgs, Sending, SameReply
<1>n. PICK at \in 1..Begun :
        /\ emitted.args[at] < plan.calls[at].args
        /\ emitted' = [emitted EXCEPT !.args[at] = @ + 1]
        /\ wire' = wire \o Framed(Event("args", at, emitted.args[at] + 1))
  BY Zenon DEF SendArgs, Put
<1>2. PICK p, w, em, br : p = parser /\ w = wire /\ em = emitted /\ br = broken /\ ReadsOut(p, w, em, br)
  BY <1>0, <1>t DEF StreamReads
<1>4. em \in [texts : Nat, args : Seq(Nat), finished : BOOLEAN, closed : BOOLEAN] /\ ~em.closed
  BY <1>0, <1>2, <1>t DEF StreamTypes
<1>5. PICK a \in Seq(Nat) : a = em.args
  BY <1>4
<1>6. Len(a) = Begun /\ Len(a) \in Nat /\ Len(plan.calls) \in Nat /\ Len(a) <= Len(plan.calls) /\ at \in 1..Len(a)
  <2>1. Len(a) = Begun /\ Len(a) \in Nat
    BY <1>2, <1>5 DEF Begun
  <2>2. Len(plan.calls) \in Nat /\ Begun <= Len(plan.calls)
    BY <1>t DEF PlanTypes, StreamTypes
  <2>. QED
    BY <2>1, <2>2
<1>7. protocol \in {"openai", "claude"} /\ ~em.finished
  <2>1. at \in DOMAIN plan.calls
    BY <1>6, <1>t DEF PlanTypes
  <2>2. ASSUME protocol \in {"ollama", "codex"} PROVE FALSE
    <3>1. plan.calls[at].args = 1
      BY <1>t, <2>1, <2>2, Zenon DEF PlanTypes, Sensible
    <3>2. emitted.args[at] = 1
      BY <1>t, <2>2, Zenon DEF StreamTypes
    <3>. QED
      BY <1>n, <3>1, <3>2
  <2>3. protocol \in {"openai", "claude", "ollama", "codex"}
    BY <1>t DEF PlanTypes, Protocols
  <2>4. protocol \in {"openai", "claude"}
    BY <2>2, <2>3
  <2>5. ASSUME em.finished PROVE FALSE
    <3>1. AllSent
      <4>1. protocol # "codex"
        BY <2>4
      <4>. QED
        BY <1>2, <1>t, <2>5, <4>1, Zenon DEF StreamTypes
    <3>2. emitted.args[at] = plan.calls[at].args
      BY <3>1, Zenon DEF AllSent
    <3>3. emitted.args[at] \in Nat
      BY <1>2, <1>5, <1>6
    <3>. QED
      BY <1>n, <3>2, <3>3
  <2>. QED
    BY <2>4, <2>5
<1>8. PICK c : c = [a EXCEPT ![at] = @ + 1]
  OBVIOUS
<1>9. c \in Seq(Nat) /\ Len(c) = Len(a)
  <2>1. a[at] + 1 \in Nat
    BY <1>6
  <2>. QED
    BY <1>6, <1>8, <2>1
<1>10. PICK more : more = [em EXCEPT !.args = c]
  OBVIOUS
<1>11. /\ more \in [texts : Nat, args : Seq(Nat), finished : BOOLEAN, closed : BOOLEAN]
       /\ more.args = c /\ more.texts = em.texts /\ ~more.finished /\ ~more.closed
  <2>. HIDE <1>8, <1>5, <1>2
  <2>. QED
    BY <1>4, <1>7, <1>9, <1>10
<1>12. emitted' = more
  <2>1. emitted' = [em EXCEPT !.args = [em.args EXCEPT ![at] = @ + 1]]
    BY <1>n, <1>2, Zenon
  <2>. QED
    BY <1>5, <1>8, <1>10, <2>1, Zenon
<1>13. PICK e \in Events : e = Event("args", at, a[at] + 1)
  <2>1. a[at] + 1 \in Nat /\ at \in Nat
    BY <1>6
  <2>. QED
    BY <2>1, EventIs
<1>14. w \in Seq(Tokens) /\ Framed(e) \in Seq(Tokens)
  BY <1>2, <1>t, FramedParts DEF StreamTypes
<1>15. w \o Framed(e) = wire'
  BY <1>n, <1>2, <1>5, <1>13, Zenon
<1>. HIDE <1>2, <1>5, <1>8, <1>10, <1>13
<1>16. ReadsOut(p, w \o Framed(e), more, br)
  <2>r. ReadsOut(p, w, em, br)
    BY <1>2
  <2>1. ASSUME NEW d, Clean(d), Telling(d, em.texts, em.args, FALSE)
        PROVE  Clean(Understood(d, e)) /\ Telling(Understood(d, e), more.texts, more.args, FALSE)
    <3>1. Telling(d, em.texts, a, FALSE)
      BY <1>5, <2>1, Zenon
    <3>2. /\ Clean(Understood(d, Event("args", at, a[at] + 1)))
          /\ Telling(Understood(d, Event("args", at, a[at] + 1)), em.texts, [a EXCEPT ![at] = @ + 1], FALSE)
      BY <1>t, <1>6, <1>7, <2>1, <3>1, HearsArgs
    <3>. QED
      BY <1>8, <1>11, <1>13, <3>2, Zenon
  <2>. QED
    BY <1>4, <1>7, <1>11, <1>14, <1>t, <2>1, <2>r, SendsMore
<1>17. StreamReads'
  <2>1. PICK v : v = w \o Framed(e)
    OBVIOUS
  <2>. QED
    BY <1>0, <1>2, <1>12, <1>15, <1>16, <2>1, ReadsNext, Zenon
<1>18. StreamTypes'
  <2>1. PlanTypes'
    BY <1>0, <1>t, PlanKept
  <2>2. wire' \in Seq(Tokens)
    BY <1>14, <1>15, ConcatProperties
  <2>3. emitted' \in [texts : Nat, args : Seq(Nat), finished : BOOLEAN, closed : BOOLEAN] /\ ~emitted'.finished
    BY <1>11, <1>12
  <2>4. Begun' <= Len(plan'.calls)
    <3>1. Begun' = Len(c)
      BY <1>11, <1>12, Zenon DEF Begun
    <3>2. plan' = plan
      BY <1>0 DEF SameReply
    <3>. QED
      BY <1>6, <1>9, <3>1, <3>2
  <2>5. protocol' \notin {"ollama", "codex"}
    BY <1>0, <1>7 DEF SameReply
  <2>6. broken' \in BOOLEAN
    BY <1>0, <1>t, Zenon DEF StreamTypes
  <2>. QED
    BY <2>1, <2>2, <2>3, <2>4, <2>5, <2>6, Zenon DEF StreamTypes
<1>19. AcceptedIsMeant'
  BY <1>0 DEF AcceptedIsMeant
<1>. QED
  BY <1>17, <1>18, <1>19 DEF StreamInv

\* All the pieces of the arguments.
LEMMA AllArgs ==
  ASSUME StreamTypes, AllSent
  PROVE  emitted.args = PlannedArgs /\ emitted.texts = plan.texts
<1>1. PICK a \in Seq(Nat) : a = emitted.args
  BY DEF StreamTypes
<1>2. PICK cs \in Seq(PlannedCall) : cs = plan.calls
  BY DEF StreamTypes, PlanTypes
<1>3. Len(a) = Len(cs) /\ \A i \in 1..Len(a) : a[i] = cs[i].args
  BY <1>1, <1>2 DEF AllSent, Begun
<1>4. PICK ar : ar = [i \in DOMAIN cs |-> cs[i].args]
  OBVIOUS
<1>5. ar = PlannedArgs
  BY <1>2, <1>4, Zenon DEF PlannedArgs
<1>. HIDE <1>1, <1>2
<1>6. a = [i \in 1..Len(a) |-> a[i]] /\ DOMAIN cs = 1..Len(cs)
  OBVIOUS
<1>7. a = ar
  BY <1>3, <1>4, <1>6
<1>. QED
  BY <1>1, <1>5, <1>7 DEF AllSent

\* The reply is finished.
LEMMA FinishSent ==
  ASSUME StreamInv, SendFinish PROVE StreamInv'
<1>t. StreamTypes /\ PlanTypes /\ StreamReads
  BY DEF StreamInv, StreamTypes
<1>0. /\ SameReply /\ outcome = "open" /\ outcome' = "open" /\ ~emitted.closed /\ ~emitted.finished
      /\ parser' = parser /\ broken' = broken
  BY DEF SendFinish, Sending, SameReply
<1>n. PICK full \in 0..1, shut \in BOOLEAN, less \in 0..2 :
        /\ AllSent \/ (protocol = "codex" /\ full = 1 /\ emitted.texts \in {0, plan.texts})
        /\ full = 1 => protocol = "codex"
        /\ less > 0 => shut
        /\ less = 2 => protocol # "ollama"
        /\ emitted' = [emitted EXCEPT !.finished = TRUE, !.closed = shut]
        /\ wire' = wire \o Cut(Event("finish", 0, full), less)
  BY Zenon DEF SendFinish, Cut
<1>2. PICK p, w, em, br : p = parser /\ w = wire /\ em = emitted /\ br = broken /\ ReadsOut(p, w, em, br)
  BY <1>0, <1>t DEF StreamReads
<1>3. em \in [texts : Nat, args : Seq(Nat), finished : BOOLEAN, closed : BOOLEAN] /\ ~em.closed /\ ~em.finished
  BY <1>0, <1>2, <1>t DEF StreamTypes
<1>4. PICK more : more = [em EXCEPT !.finished = TRUE, !.closed = shut]
  OBVIOUS
<1>5. /\ more \in [texts : Nat, args : Seq(Nat), finished : BOOLEAN, closed : BOOLEAN]
      /\ more.args = em.args /\ more.texts = em.texts /\ more.finished /\ (less # 0 => more.closed)
  <2>1. less # 0 => shut
    BY <1>n
  <2>. HIDE <1>2
  <2>. QED
    BY <1>3, <1>4, <2>1
<1>6. emitted' = more
  BY <1>n, <1>2, <1>4, Zenon
<1>7. PICK e \in Events : e = Event("finish", 0, full)
  <2>1. full \in Nat /\ 0 \in Nat
    OBVIOUS
  <2>. QED
    BY <2>1, EventIs
<1>8. protocol \in Protocols /\ w \in Seq(Tokens)
  BY <1>2, <1>t DEF PlanTypes, StreamTypes
<1>9. Cut(e, less) \in Seq(Tokens)
  <2>1. Framed(e) \in Seq(Tokens) /\ UntilLine(e) \in Seq(Tokens) /\ UntilData(e) \in Seq(Tokens)
    BY FramedParts
  <2>2. Cut(e, less) \in {Framed(e), UntilLine(e), UntilData(e)}
    BY <1>n, <1>8, CutFramed
  <2>. QED
    BY <2>1, <2>2
<1>10. w \o Cut(e, less) = wire'
  BY <1>n, <1>2, <1>7, Zenon
<1>. HIDE <1>2, <1>4, <1>7
<1>11. ReadsOut(p, w \o Cut(e, less), more, br)
  <2>r. ReadsOut(p, w, em, br)
    BY <1>2
  <2>1. ASSUME NEW d, Clean(d), Telling(d, em.texts, em.args, FALSE)
        PROVE  Clean(Understood(d, e)) /\ Telling(Understood(d, e), plan.texts, PlannedArgs, TRUE)
    <3>1. CASE full = 0
      <4>1. AllSent
        BY <1>n, <3>1
      <4>2. em.texts = plan.texts /\ em.args = PlannedArgs
        BY <1>2, <1>t, <4>1, AllArgs
      <4>3. Telling(d, plan.texts, PlannedArgs, FALSE)
        BY <2>1, <4>2, Zenon
      <4>4. /\ Clean(Understood(d, Event("finish", 0, 0)))
            /\ Telling(Understood(d, Event("finish", 0, 0)), plan.texts, PlannedArgs, TRUE)
        BY <1>t, <2>1, <4>3, HearsFinish
      <4>. QED
        BY <1>7, <3>1, <4>4, Zenon
    <3>2. CASE full = 1
      <4>1. protocol = "codex" /\ em.texts \in {0, plan.texts}
        BY <1>n, <1>2, <3>2 DEF AllSent
      <4>2. PICK a \in Seq(Nat) : a = em.args /\ Len(a) <= Len(plan.calls)
        BY <1>2, <1>3, <1>t DEF StreamTypes, Begun
      <4>3. PICK te : te = em.texts
        OBVIOUS
      <4>4. Telling(d, te, a, FALSE) /\ te \in {0, plan.texts}
        BY <2>1, <4>1, <4>2, <4>3, Zenon
      <4>. HIDE <4>3
      <4>5. /\ Clean(Understood(d, Event("finish", 0, 1)))
            /\ Telling(Understood(d, Event("finish", 0, 1)), plan.texts, PlannedArgs, TRUE)
        BY <1>t, <2>1, <4>1, <4>2, <4>4, HearsAll
      <4>. QED
        BY <1>7, <3>2, <4>5, Zenon
    <3>3. full = 0 \/ full = 1
      OBVIOUS
    <3>. QED
      BY <3>1, <3>2, <3>3
  <2>2. less = 2 => protocol # "ollama"
    BY <1>n
  <2>. QED
    BY <1>3, <1>5, <1>8, <1>t, <2>1, <2>2, <2>r, SendsEnd
<1>12. StreamReads'
  <2>1. PICK v : v = w \o Cut(e, less)
    OBVIOUS
  <2>. QED
    BY <1>0, <1>2, <1>6, <1>10, <1>11, <2>1, ReadsNext, Zenon
<1>13. StreamTypes'
  <2>1. PlanTypes'
    BY <1>0, <1>t, PlanKept
  <2>2. wire' \in Seq(Tokens)
    BY <1>8, <1>9, <1>10, ConcatProperties
  <2>3. /\ emitted' \in [texts : Nat, args : Seq(Nat), finished : BOOLEAN, closed : BOOLEAN]
        /\ emitted'.args = emitted.args /\ emitted'.texts = emitted.texts
    BY <1>2, <1>5, <1>6, Zenon
  <2>4. AllSent' \/ protocol' = "codex"
    BY <1>0, <1>n, <2>3, Zenon DEF AllSent, Begun, SameReply
  <2>5. broken' \in BOOLEAN
    BY <1>0, <1>t, Zenon DEF StreamTypes
  <2>6. Begun' <= Len(plan'.calls) /\ (protocol' \in {"ollama", "codex"} => \A i \in 1..Begun' : emitted'.args[i] = 1)
    BY <1>0, <1>t, <2>3, Zenon DEF StreamTypes, Begun, SameReply
  <2>. QED
    BY <2>1, <2>2, <2>3, <2>4, <2>5, <2>6, Zenon DEF StreamTypes
<1>14. AcceptedIsMeant'
  BY <1>0 DEF AcceptedIsMeant
<1>. QED
  BY <1>12, <1>13, <1>14 DEF StreamInv

\* [DONE] is sent.
LEMMA DoneSent ==
  ASSUME StreamInv, SendDone PROVE StreamInv'
<1>t. StreamTypes /\ PlanTypes /\ StreamReads
  BY DEF StreamInv, StreamTypes
<1>0. /\ SameReply /\ outcome = "open" /\ outcome' = "open" /\ ~emitted.closed /\ emitted.finished
      /\ parser' = parser /\ broken' = broken /\ protocol \in {"openai", "codex"}
      /\ emitted' = [emitted EXCEPT !.closed = TRUE] /\ wire' = wire \o Framed(Event("[DONE]", 0, 0))
  BY DEF SendDone, Sending, SameReply, Put
<1>2. PICK p, w, em, br : p = parser /\ w = wire /\ em = emitted /\ br = broken /\ ReadsOut(p, w, em, br)
  BY <1>0, <1>t DEF StreamReads
<1>3. em \in [texts : Nat, args : Seq(Nat), finished : BOOLEAN, closed : BOOLEAN] /\ ~em.closed /\ em.finished
  BY <1>0, <1>2, <1>t DEF StreamTypes
<1>4. PICK more : more = [em EXCEPT !.closed = TRUE]
  OBVIOUS
<1>5. /\ more \in [texts : Nat, args : Seq(Nat), finished : BOOLEAN, closed : BOOLEAN]
      /\ more.args = em.args /\ more.texts = em.texts /\ more.finished
  <2>. HIDE <1>2
  <2>. QED
    BY <1>3, <1>4
<1>6. emitted' = more
  BY <1>0, <1>2, <1>4, Zenon
<1>7. PICK e \in Events : e = Event("[DONE]", 0, 0)
  BY EventIs
<1>8. w \in Seq(Tokens) /\ Framed(e) \in Seq(Tokens)
  BY <1>2, <1>t, FramedParts DEF StreamTypes
<1>10. w \o Framed(e) = wire'
  BY <1>0, <1>2, <1>7, Zenon
<1>. HIDE <1>2, <1>4, <1>7
<1>11. ReadsOut(p, w \o Framed(e), more, br)
  <2>r. ReadsOut(p, w, em, br)
    BY <1>2
  <2>1. ASSUME NEW d, Clean(d), Telling(d, plan.texts, PlannedArgs, TRUE)
        PROVE  Clean(Understood(d, e)) /\ Telling(Understood(d, e), plan.texts, PlannedArgs, TRUE)
    <3>1. /\ Clean(Understood(d, Event("[DONE]", 0, 0)))
          /\ Telling(Understood(d, Event("[DONE]", 0, 0)), plan.texts, PlannedArgs, TRUE)
      BY <1>0, <1>t, <2>1, HearsDone
    <3>. QED
      BY <1>7, <3>1, Zenon
  <2>. QED
    BY <1>3, <1>5, <1>8, <1>t, <2>1, <2>r, SendsAfter
<1>12. StreamReads'
  <2>1. PICK v : v = w \o Framed(e)
    OBVIOUS
  <2>. QED
    BY <1>0, <1>2, <1>6, <1>10, <1>11, <2>1, ReadsNext, Zenon
<1>13. StreamTypes'
  <2>1. PlanTypes'
    BY <1>0, <1>t, PlanKept
  <2>2. wire' \in Seq(Tokens)
    BY <1>8, <1>10, ConcatProperties
  <2>3. /\ emitted' \in [texts : Nat, args : Seq(Nat), finished : BOOLEAN, closed : BOOLEAN]
        /\ emitted'.args = emitted.args /\ emitted'.texts = emitted.texts
    BY <1>2, <1>5, <1>6, Zenon
  <2>4. AllSent' \/ protocol' = "codex"
    BY <1>0, <1>t, <2>3, Zenon DEF AllSent, Begun, SameReply, StreamTypes
  <2>5. broken' \in BOOLEAN
    BY <1>0, <1>t, Zenon DEF StreamTypes
  <2>6. Begun' <= Len(plan'.calls) /\ (protocol' \in {"ollama", "codex"} => \A i \in 1..Begun' : emitted'.args[i] = 1)
    BY <1>0, <1>t, <2>3, Zenon DEF StreamTypes, Begun, SameReply
  <2>. QED
    BY <2>1, <2>2, <2>3, <2>4, <2>5, <2>6, Zenon DEF StreamTypes
<1>14. AcceptedIsMeant'
  BY <1>0 DEF AcceptedIsMeant
<1>. QED
  BY <1>12, <1>13, <1>14 DEF StreamInv

\* The provider reports an error.
LEMMA ErrorSent ==
  ASSUME StreamInv, SendError PROVE StreamInv'
<1>t. StreamTypes /\ PlanTypes /\ StreamReads
  BY DEF StreamInv, StreamTypes
<1>0. /\ SameReply /\ outcome = "open" /\ outcome' = "open" /\ ~emitted.closed /\ ~emitted.finished
      /\ parser' = parser /\ broken' = TRUE
      /\ emitted' = [emitted EXCEPT !.closed = TRUE] /\ wire' = wire \o Framed(Event("error", 0, 0))
  BY DEF SendError, Sending, SameReply, Put
<1>2. PICK p, w, em, br : p = parser /\ w = wire /\ em = emitted /\ br = broken /\ ReadsOut(p, w, em, br)
  BY <1>0, <1>t DEF StreamReads
<1>3. em \in [texts : Nat, args : Seq(Nat), finished : BOOLEAN, closed : BOOLEAN] /\ ~em.closed /\ ~em.finished
  BY <1>0, <1>2, <1>t DEF StreamTypes
<1>4. PICK more : more = [em EXCEPT !.closed = TRUE]
  OBVIOUS
<1>5. /\ more \in [texts : Nat, args : Seq(Nat), finished : BOOLEAN, closed : BOOLEAN]
      /\ more.args = em.args /\ more.texts = em.texts /\ ~more.finished /\ more.closed
  <2>. HIDE <1>2
  <2>. QED
    BY <1>3, <1>4
<1>6. emitted' = more
  BY <1>0, <1>2, <1>4, Zenon
<1>7. Event("error", 0, 0) \in Events
  BY EventIs
<1>8. w \in Seq(Tokens) /\ Framed(Event("error", 0, 0)) \in Seq(Tokens)
  BY <1>2, <1>7, <1>t, FramedParts DEF StreamTypes
<1>9. PICK v \in Seq(Tokens) : v = w \o Framed(Event("error", 0, 0))
  <2>1. w \o Framed(Event("error", 0, 0)) \in Seq(Tokens)
    BY <1>8, ConcatProperties
  <2>. QED
    BY <2>1
<1>10. v = wire'
  BY <1>0, <1>2, <1>9, Zenon
<1>. HIDE <1>4
<1>11. ReadsOut(p, v, more, TRUE)
  <2>r. ReadsOut(p, w, em, br)
    BY <1>2
  <2>. HIDE <1>2
  <2>1. ReadsOut(p, w \o Framed(Event("error", 0, 0)), more, TRUE)
    BY <1>3, <1>5, <1>8, <1>t, <2>r, SendsError
  <2>. QED
    BY <1>9, <2>1, Zenon
<1>12. StreamReads'
  BY <1>0, <1>2, <1>6, <1>10, <1>11, ReadsNext, Zenon
<1>13. StreamTypes'
  <2>1. PlanTypes'
    BY <1>0, <1>t, PlanKept
  <2>2. wire' \in Seq(Tokens)
    BY <1>10, Zenon
  <2>3. /\ emitted' \in [texts : Nat, args : Seq(Nat), finished : BOOLEAN, closed : BOOLEAN]
        /\ emitted'.args = emitted.args /\ ~emitted'.finished
    BY <1>2, <1>5, <1>6, Zenon
  <2>5. broken' \in BOOLEAN
    BY <1>0
  <2>6. Begun' <= Len(plan'.calls) /\ (protocol' \in {"ollama", "codex"} => \A i \in 1..Begun' : emitted'.args[i] = 1)
    BY <1>0, <1>t, <2>3, Zenon DEF StreamTypes, Begun, SameReply
  <2>. QED
    BY <2>1, <2>2, <2>3, <2>5, <2>6, Zenon DEF StreamTypes
<1>14. AcceptedIsMeant'
  BY <1>0 DEF AcceptedIsMeant
<1>. QED
  BY <1>12, <1>13, <1>14 DEF StreamInv

\* A chunk of any length is read.
LEMMA ChunkTaken ==
  ASSUME StreamInv, Chunk PROVE StreamInv'
<1>t. StreamTypes /\ PlanTypes /\ StreamReads
  BY DEF StreamInv, StreamTypes
<1>0. /\ SameReply /\ outcome = "open" /\ emitted' = emitted /\ broken' = broken
      /\ outcome' = IF parser'.failed THEN "error" ELSE outcome
  BY Zenon DEF Chunk, SameReply
<1>n. PICK n \in 1..Len(wire) :
        /\ parser' = Steps(parser, wire)[n]
        /\ wire' = SubSeq(wire, n + 1, Len(wire))
  BY Zenon DEF Chunk
<1>2. PICK p, w, em, br : p = parser /\ w = wire /\ em = emitted /\ br = broken /\ ReadsOut(p, w, em, br)
  BY <1>0, <1>t DEF StreamReads
<1>3. w \in Seq(Tokens) /\ n \in 1..Len(w)
  BY <1>2, <1>t DEF StreamTypes
<1>4. PICK q, v : q = Steps(p, w)[n] /\ v = SubSeq(w, n + 1, Len(w))
  OBVIOUS
<1>5. q = parser' /\ v = wire'
  BY <1>n, <1>2, <1>4, Zenon
<1>6. (q.failed => br) /\ (~q.failed => ReadsOut(q, v, em, br))
  <2>r. ReadsOut(p, w, em, br)
    BY <1>2
  <2>. HIDE <1>2, <1>4
  <2>1. \A x : x = Steps(p, w)[n] => (x.failed => br) /\ (~x.failed => ReadsOut(x, SubSeq(w, n + 1, Len(w)), em, br))
    BY <1>3, <2>r, TakesChunk, Zenon
  <2>. QED
    BY <1>4, <2>1, Zenon
<1>7. v \in Seq(Tokens)
  <2>1. \A i \in (n + 1)..Len(w) : w[i] \in Tokens
    <3>1. \A i \in (n + 1)..Len(w) : i \in 1..Len(w)
      BY <1>3
    <3>. QED
      BY <1>3, <3>1, ElementOfSeq
  <2>2. n + 1 \in Int /\ Len(w) \in Int
    BY <1>3
  <2>3. SubSeq(w, n + 1, Len(w)) \in Seq(Tokens)
    BY <2>1, <2>2, SubSeqProperties
  <2>. QED
    BY <1>4, <2>3
<1>. HIDE <1>2, <1>4
<1>8. StreamReads'
  <2>1. CASE q.failed
    <3>1. outcome' # "open"
      BY <1>0, <1>5, <2>1
    <3>. QED
      BY <3>1, Zenon DEF StreamReads
  <2>2. CASE ~q.failed
    BY <1>0, <1>2, <1>5, <1>6, <2>2, ReadsNext, Zenon
  <2>. QED
    BY <2>1, <2>2
<1>9. StreamTypes'
  <2>1. PlanTypes'
    BY <1>0, <1>t, PlanKept
  <2>2. wire' \in Seq(Tokens)
    BY <1>5, <1>7, Zenon
  <2>. QED
    BY <1>0, <1>t, <2>1, <2>2, Zenon DEF StreamTypes, AllSent, Begun, SameReply
<1>10. AcceptedIsMeant'
  <2>1. outcome' # "ok" /\ (outcome' # "open" => broken')
    BY <1>0, <1>2, <1>5, <1>6
  <2>. QED
    BY <2>1, Zenon DEF AcceptedIsMeant
<1>. QED
  BY <1>8, <1>9, <1>10 DEF StreamInv

----------------------------------------------------------------------------
\* The end of the stream.

\* Calls as the turn should get them.
CallsMeant(cs) ==
  /\ Len(cs) = Len(plan.calls)
  /\ \A i \in DOMAIN plan.calls :
       /\ cs[i].name = Meant(i).name /\ cs[i].args = Meant(i).args
       /\ plan.calls[i].known => cs[i].id = Given(i)
       /\ \A j \in DOMAIN plan.calls : cs[i].id = cs[j].id => i = j

\* The ids of two calls.
LEMMA GivenDiffer ==
  ASSUME NEW i, NEW j, Given(i) = Given(j)
  PROVE  i = j
<1>1. Given(i).at = i /\ Given(j).at = j
  BY DEF Given
<1>. QED
  BY <1>1, Zenon

\* An id of the provider is never one of the client,
LEMMA GivenInvented ==
  ASSUME NEW i, NEW j, NEW name
  PROVE  Given(i) # Invented(j, name)
<1>1. Given(i).by = "server" /\ Invented(j, name).by = "client"
  BY DEF Given, Invented
<1>2. Given(i).by # Invented(j, name).by
  BY <1>1
<1>. QED
  BY <1>2, Zenon

\* and those of the client tell place and name.
LEMMA InventedDiffer ==
  ASSUME NEW i, NEW j, NEW name, NEW other, Invented(i, name) = Invented(j, other)
  PROVE  i = j /\ name = other
<1>1. /\ Invented(i, name).at = i /\ Invented(j, other).at = j
      /\ Invented(i, name).name = name /\ Invented(j, other).name = other
  BY DEF Invented
<1>. QED
  BY <1>1, Zenon

\* The parts of a call that is meant.
LEMMA MeantParts ==
  ASSUME NEW i
  PROVE  /\ Meant(i).name = plan.calls[i].name
         /\ protocol \in {"ollama", "codex"} => Meant(i).args = <<i>>
         /\ protocol \notin {"ollama", "codex"} =>
              Meant(i).args = IF plan.calls[i].args = 0 THEN EmptyObject ELSE Upto(plan.calls[i].args)
<1>1. PICK x : x = IF protocol \in {"ollama", "codex"} THEN <<i>>
                   ELSE IF plan.calls[i].args = 0 THEN EmptyObject ELSE Upto(plan.calls[i].args)
  OBVIOUS
<1>2. PICK name : name = plan.calls[i].name
  OBVIOUS
<1>3. Meant(i) = [name |-> name, args |-> x]
  BY <1>1, <1>2, Zenon DEF Meant
<1>4. Meant(i).name = name /\ Meant(i).args = x
  <2>. HIDE <1>1, <1>2
  <2>. QED
    BY <1>3
<1>. QED
  BY <1>1, <1>2, <1>4, Zenon

\* A call that was begun, with an id and arguments of its own.
Filled(c, i) ==
  [id |-> IF c.id = "given" THEN Given(i) ELSE Invented(i - 1, c.name),
   name |-> c.name,
   args |-> IF c.args = <<>> THEN EmptyObject ELSE c.args]

\* The call that the turn gets of one that was begun and has all its arguments.
LEMMA BegunFilled ==
  ASSUME PlanTypes, protocol \in {"openai", "claude"}, NEW i \in DOMAIN plan.calls
  PROVE  Filled(BegunCall(i, plan.calls[i].args), i) =
           [id |-> IF plan.calls[i].known THEN Given(i) ELSE Invented(i - 1, plan.calls[i].name),
            name |-> Meant(i).name, args |-> Meant(i).args]
<1>1. PICK n \in Nat : n = plan.calls[i].args
  BY PlanIs
<1>2. PICK c : c = BegunCall(i, n)
  OBVIOUS
<1>3. c.name = plan.calls[i].name /\ c.args = Upto(n) /\ (c.id = "given" <=> plan.calls[i].known)
  BY <1>2 DEF BegunCall
<1>4. Upto(n) = <<>> <=> n = 0
  <2>1. Len(Upto(n)) = n
    BY NextPiece
  <2>2. Upto(0) = <<>>
    BY DEF Upto
  <2>3. Len(<<>>) = 0
    OBVIOUS
  <2>. QED
    BY <2>1, <2>2, <2>3, Zenon
<1>5. protocol \notin {"ollama", "codex"}
  OBVIOUS
<1>6. Meant(i).name = plan.calls[i].name /\ Meant(i).args = IF n = 0 THEN EmptyObject ELSE Upto(n)
  BY <1>1, <1>5, MeantParts, Zenon
<1>. HIDE <1>1, <1>2
<1>7. Filled(c, i) = [id |-> IF plan.calls[i].known THEN Given(i) ELSE Invented(i - 1, plan.calls[i].name),
                      name |-> Meant(i).name, args |-> Meant(i).args]
  BY <1>3, <1>4, <1>6, Zenon DEF Filled
<1>. QED
  BY <1>1, <1>2, <1>7, Zenon

\* The calls of a parser that has the whole reply, once they are completed.
LEMMA CompletedMeant ==
  ASSUME PlanTypes, NEW cs, Carries(cs, PlannedArgs)
  PROVE  (protocol = "ollama" /\ NamedAlike) \/ CallsMeant(Completed(cs))
<1>. DEFINE n == Len(plan.calls)
<1>1. /\ n \in Nat /\ DOMAIN plan.calls = 1..n /\ Len(PlannedArgs) = n
      /\ \A i \in 1..n : PlannedArgs[i] = plan.calls[i].args /\ plan.calls[i].args \in Nat /\ i \in Nat /\ i - 1 \in Nat
  BY PlanIs
<1>2. CASE protocol \in {"openai", "claude"}
  <2>1. cs = [i \in 1..n |-> BegunCall(i, PlannedArgs[i])]
    BY <1>1, <1>2 DEF Carries
  <2>2. DOMAIN cs = 1..n /\ \A i \in 1..n : cs[i] = BegunCall(i, plan.calls[i].args)
    BY <1>1, <2>1
  <2>3. PICK ds : ds = Completed(cs)
    OBVIOUS
  <2>4. ds = [i \in 1..n |-> Filled(cs[i], i)]
    <3>1. protocol \notin {"ollama", "codex"}
      BY <1>2
    <3>. QED
      BY <2>2, <2>3, <3>1, Zenon DEF Completed, Filled
  <2>. HIDE <2>1, <2>3
  <2>5. Len(ds) = n
    BY <1>1, <2>4
  <2>6. ASSUME NEW i \in 1..n
        PROVE  /\ ds[i].id = IF plan.calls[i].known THEN Given(i) ELSE Invented(i - 1, plan.calls[i].name)
               /\ ds[i].name = Meant(i).name /\ ds[i].args = Meant(i).args
    <3>1. ds[i] = Filled(cs[i], i)
      BY <2>4
    <3>2. Filled(BegunCall(i, plan.calls[i].args), i) =
           [id |-> IF plan.calls[i].known THEN Given(i) ELSE Invented(i - 1, plan.calls[i].name),
            name |-> Meant(i).name, args |-> Meant(i).args]
      BY <1>1, <1>2, BegunFilled
    <3>3. ds[i] = [id |-> IF plan.calls[i].known THEN Given(i) ELSE Invented(i - 1, plan.calls[i].name),
                   name |-> Meant(i).name, args |-> Meant(i).args]
      BY <2>2, <3>1, <3>2, Zenon
    <3>4. PICK id : id = IF plan.calls[i].known THEN Given(i) ELSE Invented(i - 1, plan.calls[i].name)
      OBVIOUS
    <3>5. PICK name : name = Meant(i).name
      OBVIOUS
    <3>6. PICK args : args = Meant(i).args
      OBVIOUS
    <3>7. PICK d : d = ds[i]
      OBVIOUS
    <3>8. d = [id |-> id, name |-> name, args |-> args]
      BY <3>3, <3>4, <3>5, <3>6, <3>7, Zenon
    <3>9. d.id = id /\ d.name = name /\ d.args = args
      <4>. HIDE <3>3, <3>4, <3>5, <3>6, <3>7
      <4>. QED
        BY <3>8
    <3>. QED
      BY <3>4, <3>5, <3>6, <3>7, <3>9, Zenon
  <2>7. ASSUME NEW i \in 1..n, NEW j \in 1..n, ds[i].id = ds[j].id
        PROVE  i = j
    <3>1. i \in Nat /\ j \in Nat /\ i - 1 \in Nat /\ j - 1 \in Nat
      BY <1>1
    <3>2. CASE plan.calls[i].known /\ plan.calls[j].known
      <4>1. Given(i) = Given(j)
        <5>1. ds[i].id = Given(i)
          BY <2>6, <3>2, Zenon
        <5>2. ds[j].id = Given(j)
          BY <2>6, <3>2, Zenon
        <5>. QED
          BY <2>7, <5>1, <5>2, Zenon
      <4>. QED
        BY <4>1, GivenDiffer
    <3>3. CASE ~plan.calls[i].known /\ ~plan.calls[j].known
      <4>1. i - 1 = j - 1
        <5>1. Invented(i - 1, plan.calls[i].name) = Invented(j - 1, plan.calls[j].name)
          BY <2>6, <2>7, <3>3, Zenon
        <5>. QED
          BY <5>1, InventedDiffer
      <4>. QED
        BY <3>1, <4>1
    <3>4. CASE plan.calls[i].known /\ ~plan.calls[j].known
      <4>1. Given(i) = Invented(j - 1, plan.calls[j].name)
        BY <2>6, <2>7, <3>4, Zenon
      <4>. QED
        BY <4>1, GivenInvented
    <3>5. CASE ~plan.calls[i].known /\ plan.calls[j].known
      <4>1. Given(j) = Invented(i - 1, plan.calls[i].name)
        BY <2>6, <2>7, <3>5, Zenon
      <4>. QED
        BY <4>1, GivenInvented
    <3>. QED
      BY <3>2, <3>3, <3>4, <3>5
  <2>8. CallsMeant(ds)
    BY <1>1, <2>5, <2>6, <2>7, Zenon DEF CallsMeant
  <2>. QED
    BY <2>3, <2>8, Zenon
<1>3. CASE protocol = "codex"
  <2>0. protocol \in {"ollama", "codex"}
    BY <1>3
  <2>1. cs = CodexItems(n)
    BY <1>1, <1>3 DEF Carries
  <2>2. Completed(cs) = cs
    BY <2>0, Zenon DEF Completed
  <2>3. ASSUME NEW i \in 1..n
        PROVE  cs[i].id = Given(i) /\ cs[i].name = Meant(i).name /\ cs[i].args = Meant(i).args
    <3>1. cs[i] = ItemCall(i)
      BY <2>1 DEF CodexItems
    <3>2. Meant(i).name = plan.calls[i].name /\ Meant(i).args = <<i>>
      BY <2>0, MeantParts
    <3>3. cs[i].id = Given(i) /\ cs[i].name = plan.calls[i].name /\ cs[i].args = <<i>>
      <4>1. ItemCall(i).id = Given(i) /\ ItemCall(i).name = plan.calls[i].name /\ ItemCall(i).args = <<i>>
        BY DEF ItemCall
      <4>. QED
        BY <3>1, <4>1, Zenon
    <3>. QED
      BY <3>2, <3>3, Zenon
  <2>4. Len(cs) = n
    BY <1>1, <2>1 DEF CodexItems
  <2>5. ASSUME NEW i \in 1..n, NEW j \in 1..n, cs[i].id = cs[j].id
        PROVE  i = j
    <3>1. Given(i) = Given(j)
      BY <2>3, <2>5, Zenon
    <3>. QED
      BY <3>1, GivenDiffer
  <2>. HIDE <2>1
  <2>6. CallsMeant(cs)
    BY <1>1, <2>3, <2>4, <2>5, Zenon DEF CallsMeant
  <2>. QED
    BY <2>2, <2>6, Zenon
<1>4. CASE protocol = "ollama" /\ ~NamedAlike
  <2>0. protocol \in {"ollama", "codex"}
    BY <1>4
  <2>1. Len(cs) = n /\ \A i \in 1..n : \E m \in Nat : cs[i] = ListedCall(m, i)
    BY <1>1, <1>4 DEF Carries, Lists
  <2>2. Completed(cs) = cs
    BY <2>0, Zenon DEF Completed
  <2>3. ASSUME NEW i \in 1..n
        PROVE  /\ \E m \in Nat : cs[i].id = Invented(m, plan.calls[i].name)
               /\ cs[i].name = Meant(i).name /\ cs[i].args = Meant(i).args
    <3>1. PICK m \in Nat : cs[i] = ListedCall(m, i)
      BY <2>1
    <3>2. Meant(i).name = plan.calls[i].name /\ Meant(i).args = <<i>>
      BY <2>0, MeantParts
    <3>3. cs[i].id = Invented(m, plan.calls[i].name) /\ cs[i].name = plan.calls[i].name /\ cs[i].args = <<i>>
      <4>1. /\ ListedCall(m, i).id = Invented(m, plan.calls[i].name)
            /\ ListedCall(m, i).name = plan.calls[i].name /\ ListedCall(m, i).args = <<i>>
        BY DEF ListedCall
      <4>. QED
        BY <3>1, <4>1, Zenon
    <3>. QED
      BY <3>2, <3>3, Zenon
  <2>4. ASSUME NEW i \in 1..n, NEW j \in 1..n, cs[i].id = cs[j].id
        PROVE  i = j
    <3>1. PICK m \in Nat : cs[i].id = Invented(m, plan.calls[i].name)
      BY <2>3
    <3>2. PICK k \in Nat : cs[j].id = Invented(k, plan.calls[j].name)
      BY <2>3
    <3>3. plan.calls[i].name = plan.calls[j].name
      <4>1. Invented(m, plan.calls[i].name) = Invented(k, plan.calls[j].name)
        BY <2>4, <3>1, <3>2, Zenon
      <4>. QED
        BY <4>1, InventedDiffer
    <3>. QED
      BY <1>1, <1>4, <3>3, Zenon DEF NamedAlike
  <2>5. \A i \in 1..n : ~plan.calls[i].known
    BY <1>1, <1>4, Zenon DEF PlanTypes, Sensible
  <2>6. CallsMeant(cs)
    BY <1>1, <2>1, <2>3, <2>4, <2>5, Zenon DEF CallsMeant
  <2>. QED
    BY <2>2, <2>6, Zenon
<1>5. protocol \in {"openai", "claude", "ollama", "codex"}
  BY DEF PlanTypes, Protocols
<1>. QED
  BY <1>2, <1>3, <1>4, <1>5

\* A parser that carries all the calls of a plan has some, if the plan has.
LEMMA CarriesSome ==
  ASSUME PlanTypes, NEW cs, Carries(cs, PlannedArgs), cs = <<>>
  PROVE  plan.calls = <<>>
<1>1. Len(plan.calls) \in Nat /\ Len(PlannedArgs) = Len(plan.calls)
  BY PlanIs
<1>2. PICK n \in Nat : n = Len(plan.calls)
  BY <1>1
<1>3. n = 0
  <2>1. CASE protocol \in {"openai", "claude"}
    <3>1. cs = [i \in 1..n |-> BegunCall(i, PlannedArgs[i])]
      BY <1>1, <1>2, <2>1, Zenon DEF Carries
    <3>2. DOMAIN cs = 1..n
      BY <3>1
    <3>3. Len(cs) = n
      BY <3>1
    <3>4. Len(cs) = 0
      <4>1. cs = <<>>
        OBVIOUS
      <4>. HIDE <3>1
      <4>. QED
        BY <4>1
    <3>. QED
      BY <3>3, <3>4
  <2>2. CASE protocol = "codex"
    <3>1. cs = CodexItems(n)
      BY <1>1, <1>2, <2>2, Zenon DEF Carries
    <3>2. Len(cs) = n
      BY <3>1 DEF CodexItems
    <3>3. Len(cs) = 0
      <4>1. cs = <<>>
        OBVIOUS
      <4>. QED
        BY <4>1
    <3>. QED
      BY <3>2, <3>3
  <2>3. CASE protocol = "ollama"
    <3>1. ~(n > 0)
      BY <1>1, <1>2, <2>3, Zenon DEF Carries, Lists
    <3>. QED
      BY <3>1
  <2>. QED
    BY <2>1, <2>2, <2>3 DEF PlanTypes, Protocols
<1>4. plan.calls \in Seq(PlannedCall)
  BY DEF PlanTypes
<1>. QED
  BY <1>2, <1>3, <1>4, EmptySeq

\* How a stream ends that has been read so far: what is accepted is the whole reply, and what is not
\* was cut or reported to be broken.
LEMMA EndMeans ==
  ASSUME PlanTypes, NEW p, NEW w \in Seq(Tokens), NEW em, NEW br, ReadsOut(p, w, em, br),
         NEW t, t = Emptied(p)
  PROVE  /\ Ended(t) = "ok" => Final(t)
         /\ Ended(t) # "ok" => br \/ w # <<>> \/ ~em.finished
<1>1. ASSUME ~t.failed, t.complete
      PROVE  Final(t)
  <2>1. Safe(p, TRUE)
    <3>1. CASE br
      BY <3>1, ReadsBounds DEF ReadsOut
    <3>2. CASE ~br
      <4>1. PICK d : Reads(p, w, d, FALSE)
        BY <3>2 DEF ReadsOut
      <4>2. Reads(p, w, d, TRUE)
        BY <4>1, ReadsBroken
      <4>. QED
        BY <4>2, ReadsBounds
    <3>. QED
      BY <3>1, <3>2
  <2>2. ~p.failed
    BY DEF ReadsOut
  <2>. QED
    BY <1>1, <2>1, <2>2, Zenon DEF Safe
<1>2. ASSUME ~br, w = <<>>, em.finished
      PROVE  ~t.failed /\ t.complete
  <2>1. PICK d, s, te, ar : Reads(p, w, d, FALSE) /\ s = Emptied(d) /\ Telling(s, te, ar, em.finished)
    BY <1>2, Zenon DEF ReadsOut
  <2>2. d = p
    BY <1>2, <2>1, ReadsBounds
  <2>3. s = t
    BY <2>1, <2>2, Zenon
  <2>. QED
    BY <1>2, <2>1, <2>3, Zenon DEF Telling
<1>3. ASSUME Final(t), t.text = <<>>, t.calls = <<>>
      PROVE  FALSE
  <2>1. plan.calls = <<>>
    <3>1. Carries(t.calls, PlannedArgs)
      BY <1>3, Zenon DEF Final
    <3>2. PICK cs : cs = t.calls
      OBVIOUS
    <3>. QED
      BY <1>3, <3>1, <3>2, CarriesSome, Zenon
  <2>2. Upto(plan.texts) = <<>>
    BY <1>3, Zenon DEF Final
  <2>3. Len(Upto(plan.texts)) = plan.texts /\ plan.texts \in Nat
    BY PlanIs, NextPiece
  <2>4. plan.texts = 0
    <3>1. Len(<<>>) = 0
      OBVIOUS
    <3>. QED
      BY <2>2, <2>3, <3>1, Zenon
  <2>5. plan.texts > 0 \/ plan.calls # <<>>
    BY Zenon DEF PlanTypes, Sensible
  <2>. QED
    BY <2>1, <2>4, <2>5
<1>4. Ended(t) = "ok" => ~t.failed /\ t.complete
  BY DEF Ended
<1>5. Ended(t) # "ok" => t.failed \/ ~t.complete \/ (t.text = <<>> /\ t.calls = <<>>)
  BY DEF Ended
<1>. QED
  BY <1>1, <1>2, <1>3, <1>4, <1>5, Zenon

\* The whole reply, in the state behind the last step.
LEMMA WholeNext ==
  ASSUME SameReply, NEW q, NEW cs, q = parser', cs = q.calls,
         q.text = Upto(plan.texts), q.told = Upto(plan.texts), CallsMeant(cs)
  PROVE  Whole'
<1>1. ASSUME NEW i PROVE Meant(i)' = Meant(i) /\ Given(i)' = Given(i)
  BY Zenon DEF SameReply, Meant, Given
<1>2. Upto(plan.texts)' = Upto(plan.texts)
  BY Zenon DEF SameReply, Upto
<1>3. /\ Len(cs) = Len(plan.calls)
      /\ \A i \in DOMAIN plan.calls :
           /\ cs[i].name = Meant(i).name /\ cs[i].args = Meant(i).args
           /\ plan.calls[i].known => cs[i].id = Given(i)
           /\ \A j \in DOMAIN plan.calls : cs[i].id = cs[j].id => i = j
  BY Zenon DEF CallsMeant
<1>4. plan' = plan
  BY DEF SameReply
<1>5. parser'.text = Upto(plan'.texts) /\ parser'.told = parser'.text
  BY <1>4, Zenon
<1>6. Len(parser'.calls) = Len(plan'.calls)
  BY <1>3, <1>4, Zenon
<1>7. ASSUME NEW i \in DOMAIN plan'.calls
      PROVE  /\ parser'.calls[i].name = Meant(i)'.name /\ parser'.calls[i].args = Meant(i)'.args
             /\ plan'.calls[i].known => parser'.calls[i].id = Given(i)
             /\ \A j \in DOMAIN plan'.calls : parser'.calls[i].id = parser'.calls[j].id => i = j
  <2>1. i \in DOMAIN plan.calls /\ DOMAIN plan'.calls = DOMAIN plan.calls /\ plan'.calls[i].known = plan.calls[i].known
    BY <1>4, <1>7, Zenon
  <2>2. Meant(i)'.name = Meant(i).name /\ Meant(i)'.args = Meant(i).args
    BY <1>1, Zenon
  <2>3. parser'.calls = cs
    BY Zenon
  <2>. QED
    BY <1>3, <2>1, <2>2, <2>3, Zenon
<1>. QED
  BY <1>5, <1>6, <1>7, Zenon DEF Whole

\* The end of the stream, wherever it comes.
LEMMA EndReached ==
  ASSUME StreamInv, End PROVE StreamInv'
<1>t. StreamTypes /\ PlanTypes /\ StreamReads
  BY DEF StreamInv, StreamTypes
<1>0. /\ SameReply /\ outcome = "open" /\ emitted' = emitted /\ wire' = <<>>
      /\ (broken' <=> (broken \/ wire # <<>> \/ ~emitted.finished)) /\ broken' \in BOOLEAN
  BY <1>t DEF End, SameReply, StreamTypes
<1>1. PICK t : t = Emptied(parser)
  OBVIOUS
<1>e. outcome' = Ended(t) /\ parser' = [t EXCEPT !.calls = Completed(t.calls)]
  BY <1>1, Zenon DEF End
<1>2. PICK p, w, em, br : p = parser /\ w = wire /\ em = emitted /\ br = broken /\ ReadsOut(p, w, em, br)
  BY <1>0, <1>t DEF StreamReads
<1>3. /\ Ended(t) = "ok" => Final(t)
      /\ Ended(t) # "ok" => br \/ w # <<>> \/ ~em.finished
  <2>1. w \in Seq(Tokens) /\ ReadsOut(p, w, em, br) /\ t = Emptied(p)
    BY <1>1, <1>2, <1>t, Zenon DEF StreamTypes
  <2>. HIDE <1>1, <1>2
  <2>. QED
    BY <1>t, <2>1, EndMeans
<1>4. outcome' # "open"
  BY <1>e DEF Ended
<1>5. StreamReads'
  BY <1>4, Zenon DEF StreamReads
<1>6. StreamTypes'
  <2>1. PlanTypes'
    BY <1>0, <1>t, PlanKept
  <2>2. wire' \in Seq(Tokens)
    BY <1>0, EmptySeq
  <2>. QED
    BY <1>0, <1>t, <2>1, <2>2, Zenon DEF StreamTypes, AllSent, Begun, SameReply
<1>7. outcome' # "ok" => broken'
  BY <1>0, <1>e, <1>2, <1>3, Zenon
<1>8. ASSUME outcome' = "ok"
      PROVE  Whole' \/ KnownGap'
  <2>1. Final(t)
    BY <1>e, <1>3, <1>8
  <2>2. PICK cs : cs = t.calls /\ Carries(cs, PlannedArgs)
    BY <2>1, Zenon DEF Final
  <2>3. PICK ds : ds = Completed(cs)
    OBVIOUS
  <2>4. PICK q : q = [t EXCEPT !.calls = ds]
    OBVIOUS
  <2>5. q = parser'
    BY <1>e, <2>2, <2>3, <2>4, Zenon
  <2>6. q.text = t.text /\ q.told = t.told /\ q.calls = ds
    <3>1. IsState(t)
      BY <2>1, Zenon DEF Final
    <3>. HIDE <1>1, <2>2, <2>3
    <3>. QED
      BY <2>4, <3>1 DEF IsState
  <2>7. t.text = Upto(plan.texts) /\ t.told = Upto(plan.texts)
    BY <2>1, Zenon DEF Final
  <2>. HIDE <2>4
  <2>8. CASE CallsMeant(ds)
    BY <1>0, <2>5, <2>6, <2>7, <2>8, WholeNext, Zenon
  <2>9. CASE protocol = "ollama" /\ NamedAlike
    <3>1. NamedAlike' = NamedAlike
      BY <1>0, Zenon DEF NamedAlike, SameReply
    <3>. QED
      BY <1>0, <2>9, <3>1, Zenon DEF KnownGap, SameReply
  <2>10. (protocol = "ollama" /\ NamedAlike) \/ CallsMeant(Completed(cs))
    BY <1>t, <2>2, CompletedMeant
  <2>. QED
    BY <2>3, <2>8, <2>9, <2>10, Zenon
<1>9. AcceptedIsMeant'
  BY <1>7, <1>8, Zenon DEF AcceptedIsMeant
<1>. QED
  BY <1>5, <1>6, <1>9 DEF StreamInv

\* The calls of an answer that arrived in one body are meant.
LEMMA BodyMeant ==
  ASSUME PlanTypes, NEW cs, cs = BodyCalls(Len(plan.calls))
  PROVE  CallsMeant(cs)
<1>. DEFINE n == Len(plan.calls)
<1>1. /\ n \in Nat /\ DOMAIN plan.calls = 1..n
      /\ \A i \in 1..n : i \in Nat /\ i - 1 \in Nat
  BY PlanIs
<1>2. Len(cs) = n /\ \A i \in 1..n : cs[i] = BodyCall(i)
  BY <1>1 DEF BodyCalls
<1>3. ASSUME NEW i \in 1..n
      PROVE  /\ cs[i].id = IF plan.calls[i].known THEN Given(i) ELSE Invented(i - 1, plan.calls[i].name)
             /\ cs[i].name = Meant(i).name /\ cs[i].args = Meant(i).args
  <2>1. PICK args : args = Meant(i).args
    OBVIOUS
  <2>2. PICK id : id = IF plan.calls[i].known THEN Given(i) ELSE Invented(i - 1, plan.calls[i].name)
    OBVIOUS
  <2>3. PICK name : name = plan.calls[i].name
    OBVIOUS
  <2>4. PICK c : c = cs[i]
    OBVIOUS
  <2>5. c = [id |-> id, name |-> name, args |-> args]
    BY <1>2, <2>1, <2>2, <2>3, <2>4, Zenon DEF BodyCall
  <2>6. c.id = id /\ c.name = name /\ c.args = args
    <3>. HIDE <2>1, <2>2, <2>3, <2>4
    <3>. QED
      BY <2>5
  <2>7. Meant(i).name = plan.calls[i].name
    BY MeantParts, Zenon
  <2>. QED
    BY <2>1, <2>2, <2>3, <2>4, <2>6, <2>7, Zenon
<1>4. ASSUME NEW i \in 1..n, NEW j \in 1..n, cs[i].id = cs[j].id
      PROVE  i = j
  <2>1. i \in Nat /\ j \in Nat /\ i - 1 \in Nat /\ j - 1 \in Nat
    BY <1>1
  <2>i. /\ plan.calls[i].known => cs[i].id = Given(i)
        /\ ~plan.calls[i].known => cs[i].id = Invented(i - 1, plan.calls[i].name)
    BY <1>3, Zenon
  <2>j. /\ plan.calls[j].known => cs[j].id = Given(j)
        /\ ~plan.calls[j].known => cs[j].id = Invented(j - 1, plan.calls[j].name)
    BY <1>3, Zenon
  <2>2. CASE plan.calls[i].known /\ plan.calls[j].known
    <3>1. Given(i) = Given(j)
      BY <1>4, <2>2, <2>i, <2>j, Zenon
    <3>. QED
      BY <3>1, GivenDiffer
  <2>3. CASE ~plan.calls[i].known /\ ~plan.calls[j].known
    <3>1. Invented(i - 1, plan.calls[i].name) = Invented(j - 1, plan.calls[j].name)
      BY <1>4, <2>3, <2>i, <2>j, Zenon
    <3>2. i - 1 = j - 1
      BY <3>1, InventedDiffer
    <3>. QED
      BY <2>1, <3>2
  <2>4. CASE plan.calls[i].known /\ ~plan.calls[j].known
    <3>1. Given(i) = Invented(j - 1, plan.calls[j].name)
      BY <1>4, <2>4, <2>i, <2>j, Zenon
    <3>. QED
      BY <3>1, GivenInvented
  <2>5. CASE ~plan.calls[i].known /\ plan.calls[j].known
    <3>1. Given(j) = Invented(i - 1, plan.calls[i].name)
      BY <1>4, <2>5, <2>i, <2>j, Zenon
    <3>. QED
      BY <3>1, GivenInvented
  <2>. QED
    BY <2>2, <2>3, <2>4, <2>5
<1>5. ASSUME NEW i \in 1..n, plan.calls[i].known
      PROVE  cs[i].id = Given(i)
  BY <1>3, <1>5, Zenon
<1>. QED
  BY <1>1, <1>2, <1>3, <1>4, <1>5, Zenon DEF CallsMeant

\* An answer that arrives in one body.
LEMMA WholeAnswered ==
  ASSUME StreamInv, AnswerWhole PROVE StreamInv'
<1>t. StreamTypes /\ PlanTypes
  BY DEF StreamInv, StreamTypes
<1>0. /\ SameReply /\ outcome' = "ok" /\ emitted' = emitted /\ wire' = wire /\ broken' = broken /\ ~emitted.finished
  BY DEF AnswerWhole, Unstreamed, SameReply
<1>1. PICK cs : cs = BodyCalls(Len(plan.calls))
  OBVIOUS
<1>2. InOneBody(plan.texts, cs) \/ (protocol = "codex" /\ plan.texts = 0)
  BY <1>1, Zenon DEF AnswerWhole
<1>3. StreamReads'
  BY <1>0, Zenon DEF StreamReads
<1>4. StreamTypes'
  <2>1. PlanTypes'
    BY <1>0, <1>t, PlanKept
  <2>. QED
    BY <1>0, <1>t, <2>1, Zenon DEF StreamTypes, AllSent, Begun, SameReply
<1>5. Whole' \/ KnownGap'
  <2>1. CASE protocol = "codex" /\ plan.texts = 0
    BY <1>0, <2>1, Zenon DEF KnownGap, AnsweredWhole, SameReply
  <2>2. CASE InOneBody(plan.texts, cs)
    <3>1. PICK te \in Seq(Nat) : te = Upto(plan.texts)
      BY <1>t, PlanIs, NextPiece
    <3>2. PICK q : q = [Fresh EXCEPT !.text = te, !.told = @ \o te, !.calls = cs]
      OBVIOUS
    <3>3. q = parser'
      BY <2>2, <3>1, <3>2, Zenon DEF InOneBody
    <3>4. q.text = te /\ q.told = te /\ q.calls = cs
      <4>1. <<>> \o te = te
        OBVIOUS
      <4>. HIDE <1>1, <3>1
      <4>. QED
        BY <3>2, <4>1 DEF Fresh
    <3>5. CallsMeant(cs)
      BY <1>1, <1>t, BodyMeant
    <3>. QED
      BY <1>0, <3>1, <3>3, <3>4, <3>5, WholeNext, Zenon
  <2>. QED
    BY <1>2, <2>1, <2>2
<1>6. AcceptedIsMeant'
  BY <1>0, <1>5, Zenon DEF AcceptedIsMeant
<1>. QED
  BY <1>3, <1>4, <1>6 DEF StreamInv

\* A body of Codex that ends early is a reply, or an error with its cause.
LEMMA CutAnswered ==
  ASSUME StreamInv, AnswerCut PROVE StreamInv'
<1>t. StreamTypes /\ PlanTypes
  BY DEF StreamInv, StreamTypes
<1>0. /\ SameReply /\ emitted' = emitted /\ wire' = wire /\ broken' = TRUE /\ ~emitted.finished
      /\ protocol = "codex"
  BY DEF AnswerCut, Unstreamed, SameReply
<1>1. outcome' # "open"
  BY DEF AnswerCut
<1>2. StreamReads'
  BY <1>1, Zenon DEF StreamReads
<1>3. StreamTypes'
  <2>1. PlanTypes'
    BY <1>0, <1>t, PlanKept
  <2>. QED
    BY <1>0, <1>t, <2>1, Zenon DEF StreamTypes, AllSent, Begun, SameReply
<1>4. outcome' = "ok" => KnownGap'
  BY <1>0, Zenon DEF KnownGap, AnsweredWhole, SameReply
<1>5. AcceptedIsMeant'
  BY <1>0, <1>4, Zenon DEF AcceptedIsMeant
<1>. QED
  BY <1>2, <1>3, <1>5 DEF StreamInv

----------------------------------------------------------------------------
\* The first state.

\* The plans of the first states.
LEMMA FirstPlan ==
  ASSUME AsmInit PROVE PlanTypes
<1>1. plan \in [texts : 0..MaxTexts, calls : PlannedCalls] /\ protocol \in Protocols /\ crlf \in BOOLEAN
      /\ Sensible(protocol, plan)
  BY DEF AsmInit
<1>2. MaxTexts \in Nat /\ MaxToolCalls \in Nat /\ MaxArgs \in Nat
  BY AsmAssumption
<1>3. 0..MaxTexts \subseteq Nat /\ 0..MaxArgs \subseteq Nat /\ 0..MaxToolCalls \subseteq Nat
  BY <1>2
<1>4. PlannedCalls \subseteq Seq(PlannedCall)
  <2>1. ASSUME NEW n \in 0..MaxToolCalls, NEW cs \in [1..n -> [name : Tools, known : BOOLEAN, args : 0..MaxArgs]]
        PROVE  cs \in Seq(PlannedCall)
    <3>1. \A i \in 1..n : cs[i] \in PlannedCall
      BY <1>3, <2>1 DEF PlannedCall
    <3>2. n \in Nat
      BY <1>3, <2>1
    <3>. QED
      BY <2>1, <3>1, <3>2
  <2>. QED
    BY <2>1 DEF PlannedCalls
<1>5. plan \in [texts : Nat, calls : Seq(PlannedCall)]
  <2>. HIDE DEF PlannedCalls, PlannedCall
  <2>. QED
    BY <1>1, <1>3, <1>4
<1>. QED
  BY <1>1, <1>5 DEF PlanTypes

\* A parser that has read nothing.
LEMMA FreshReads ==
  ASSUME PlanTypes, NEW p, p = Fresh, NEW em, em.texts = 0, em.args = <<>>, ~em.finished, ~em.closed
  PROVE  ReadsOut(p, <<>>, em, FALSE)
<1>1. Clean(p) /\ p.text = <<>> /\ p.told = <<>> /\ p.calls = <<>> /\ ~p.complete /\ ~p.failed
  BY DEF Fresh, Clean, IsState
<1>2. Upto(0) = <<>>
  BY DEF Upto
<1>3. Carries(<<>>, <<>>)
  <2>1. <<>> = [i \in 1..Len(<<>>) |-> BegunCall(i, <<>>[i])]
    OBVIOUS
  <2>2. <<>> = CodexItems(Len(<<>>))
    BY DEF CodexItems
  <2>3. Lists(<<>>, Len(<<>>))
    BY EmptySeq DEF Lists
  <2>. QED
    BY <2>1, <2>2, <2>3, Zenon DEF Carries
<1>4. Telling(p, 0, <<>>, FALSE)
  BY <1>1, <1>2, <1>3, Zenon DEF Telling, Clean
<1>5. Safe(p, FALSE)
  BY <1>1, <1>4, TellingSafe
<1>6. Reads(p, <<>>, p, FALSE)
  BY <1>5, ReadsNothing
<1>7. Emptied(p) = p
  BY <1>1, CleanIs
<1>8. Telling(p, TextsOf(em), ArgsOf(em), em.finished)
  <2>1. TextsOf(em) = 0 /\ ArgsOf(em) = <<>>
    BY Zenon DEF TextsOf, ArgsOf
  <2>2. Telling(p, 0, <<>>, em.finished)
    BY <1>4, TellingDone
  <2>. QED
    BY <2>1, <2>2, Zenon
<1>. QED
  BY <1>1, <1>6, <1>7, <1>8, Zenon DEF ReadsOut

\* The first states satisfy the invariant.
LEMMA FirstStream ==
  ASSUME AsmInit PROVE StreamInv
<1>1. PlanTypes
  BY FirstPlan
<1>2. /\ emitted = [texts |-> 0, args |-> <<>>, finished |-> FALSE, closed |-> FALSE]
      /\ wire = <<>> /\ parser = Fresh /\ outcome = "open" /\ broken = FALSE
  BY DEF AsmInit
<1>3. PICK em : em = [texts |-> 0, args |-> <<>>, finished |-> FALSE, closed |-> FALSE]
  OBVIOUS
<1>4. /\ em \in [texts : Nat, args : Seq(Nat), finished : BOOLEAN, closed : BOOLEAN]
      /\ em.texts = 0 /\ em.args = <<>> /\ ~em.finished /\ ~em.closed
  BY <1>3
<1>5. emitted = em
  BY <1>2, <1>3, Zenon
<1>. HIDE <1>3
<1>6. Begun = 0
  <2>1. Len(<<>>) = 0
    OBVIOUS
  <2>. QED
    BY <1>4, <1>5, <2>1, Zenon DEF Begun
<1>7. StreamTypes
  <2>1. Begun <= Len(plan.calls)
    <3>1. Len(plan.calls) \in Nat
      BY <1>1, PlanIs
    <3>. QED
      BY <1>6, <3>1
  <2>2. \A i \in 1..Begun : emitted.args[i] = 1
    BY <1>6
  <2>3. wire \in Seq(Tokens) /\ broken \in BOOLEAN
    BY <1>2, EmptySeq
  <2>. QED
    BY <1>1, <1>4, <1>5, <2>1, <2>2, <2>3, Zenon DEF StreamTypes
<1>8. ReadsOut(Fresh, <<>>, em, FALSE)
  BY <1>1, <1>4, FreshReads
<1>9. StreamReads
  BY <1>2, <1>5, <1>8, Zenon DEF StreamReads
<1>10. AcceptedIsMeant
  BY <1>2 DEF AcceptedIsMeant
<1>. QED
  BY <1>7, <1>9, <1>10 DEF StreamInv

----------------------------------------------------------------------------
\* A step, and the theorem.

\* Nothing happens.
LEMMA StreamStutters ==
  ASSUME StreamInv, UNCHANGED asmVars PROVE StreamInv'
<1>0. SameReply /\ UNCHANGED <<emitted, wire, parser, outcome, broken>>
  BY Zenon DEF asmVars, SameReply
<1>t. StreamTypes /\ PlanTypes /\ StreamReads /\ AcceptedIsMeant
  BY DEF StreamInv, StreamTypes
<1>1. StreamTypes'
  <2>1. PlanTypes'
    BY <1>0, <1>t, PlanKept
  <2>. QED
    BY <1>0, <1>t, <2>1, Zenon DEF StreamTypes, AllSent, Begun, SameReply
<1>2. StreamReads'
  <2>1. CASE outcome # "open"
    BY <1>0, <2>1, Zenon DEF StreamReads
  <2>2. CASE outcome = "open"
    <3>1. PICK p, w, em, br : p = parser /\ w = wire /\ em = emitted /\ br = broken /\ ReadsOut(p, w, em, br)
      BY <1>t, <2>2 DEF StreamReads
    <3>. QED
      BY <1>0, <3>1, ReadsNext, Zenon
  <2>. QED
    BY <2>1, <2>2
<1>3. AcceptedIsMeant'
  <2>1. ASSUME NEW i PROVE Meant(i)' = Meant(i)
    BY <1>0, Zenon DEF SameReply, Meant
  <2>2. Whole' = Whole
    BY <1>0, <2>1, Zenon DEF Whole, SameReply, Upto, Given
  <2>3. KnownGap' = KnownGap
    BY <1>0, Zenon DEF KnownGap, NamedAlike, AnsweredWhole, SameReply
  <2>. QED
    BY <1>0, <1>t, <2>2, <2>3, Zenon DEF AcceptedIsMeant
<1>. QED
  BY <1>1, <1>2, <1>3 DEF StreamInv

\* Wherever the network cuts the stream, an answer that is accepted is the one the provider meant:
\* but for two calls of one tool from Ollama, and for an answer of Codex read as one body that has
\* no text or ends early.
THEOREM AnswersAreMeant == AsmSpec => []AcceptedIsMeant
<1>1. AsmInit => StreamInv
  BY FirstStream
<1>2. StreamInv /\ [AsmNext]_asmVars => StreamInv'
  <2>1. SUFFICES ASSUME StreamInv, [AsmNext]_asmVars PROVE StreamInv'
    OBVIOUS
  <2>2. CASE SendText
    BY <2>1, <2>2, TextSent
  <2>3. CASE SendCall
    BY <2>1, <2>3, CallSent
  <2>4. CASE SendArgs
    BY <2>1, <2>4, ArgsSent
  <2>5. CASE SendFinish
    BY <2>1, <2>5, FinishSent
  <2>6. CASE SendDone
    BY <2>1, <2>6, DoneSent
  <2>7. CASE SendError
    BY <2>1, <2>7, ErrorSent
  <2>8. CASE Chunk
    BY <2>1, <2>8, ChunkTaken
  <2>9. CASE End
    BY <2>1, <2>9, EndReached
  <2>10. CASE AnswerWhole
    BY <2>1, <2>10, WholeAnswered
  <2>11. CASE AnswerCut
    BY <2>1, <2>11, CutAnswered
  <2>12. CASE UNCHANGED asmVars
    BY <2>1, <2>12, StreamStutters
  <2>. QED
    BY <2>1, <2>2, <2>3, <2>4, <2>5, <2>6, <2>7, <2>8, <2>9, <2>10, <2>11, <2>12, Zenon DEF AsmNext
<1>3. StreamInv => AcceptedIsMeant
  BY DEF StreamInv
<1>. QED
  BY <1>1, <1>2, <1>3, PTL DEF AsmSpec
=============================================================================
