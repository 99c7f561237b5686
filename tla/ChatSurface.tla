----------------------------- MODULE ChatSurface -----------------------------
(***************************************************************************)
(* The conversation on the screen (desktop/src/App.tsx, api.ts streamChat, *)
(* voice.ts startVoice).  The page is one thread, but every await lets     *)
(* other handlers run: the conversation may be replaced while a list, a    *)
(* reply or a microphone is on its way.  chatRunRef numbers the runs, and  *)
(* what arrives for an earlier run must not touch the view.                *)
(*                                                                         *)
(* Abstracted: what bubbles say (a reply is the number of deltas in it),   *)
(* the panels, the services poll and the theme, voice levels and phases.   *)
(* External: ira-server (which conversations it has, what a call answers), *)
(* and the realtime service.                                               *)
(***************************************************************************)
EXTENDS Naturals, FiniteSets

CONSTANTS
  MaxChats,     \* bound: conversations ever created
  MaxRuns,      \* bound: values of chatRunRef
  MaxDeltas,    \* bound: deltas of a run
  MaxSessions,  \* bound: voice sessions
  MaxLoads,     \* bound: loads (at boot, and when PostgreSQL is started from the panel)
  MaxCalls      \* bound: calls under way at a time

ASSUME UiAssumption == {MaxChats, MaxRuns, MaxDeltas, MaxSessions, MaxLoads, MaxCalls} \subseteq Nat

VARIABLES
  server,    \* [made |-> conversations created, live |-> the ones listed]
  rail,      \* chats: what the sidebar lists
  shown,     \* conversationId, 0 for null
  bubbles,   \* what the view shows, without its order
  run,       \* chatRunRef
  busy,      \* a reply is awaited
  calls,     \* the calls under way: what each will do when it is answered
  streams,   \* per run: its chat and how far its reply is
  call,      \* the voice call: [open, listening, ref, busy, speaking, bubble]
  sessions,  \* per voice session: its chat and state
  loads,
  overtaken  \* history: a load replaced a conversation that the user was in

uiVars == <<server, rail, shown, bubbles, run, busy, calls, streams, call, sessions, loads, overtaken>>

NoStream == [pc |-> "none"]
NoSession == [state |-> "none", chat |-> 0, heard |-> 0]
IdleCall == [open |-> FALSE, listening |-> FALSE, ref |-> 0, busy |-> FALSE, speaking |-> FALSE, bubble |-> 0]

UiInit ==
  /\ \E n \in 0..1 : server = [made |-> n, live |-> 1..n]
  /\ rail = {} /\ shown = 0 /\ bubbles = {}
  /\ run = 0 /\ busy = FALSE
  /\ calls = {[kind |-> "load", run |-> 0, chat |-> 0]}
  /\ streams = [r \in 1..MaxRuns |-> NoStream]
  /\ call = IdleCall
  /\ sessions = [s \in 1..MaxSessions |-> NoSession]
  /\ loads = 1 /\ overtaken = FALSE

\* turnsToBubbles: what the server has of a chat.
Stored(c) == {[kind |-> "stored", chat |-> c, run |-> 0, text |-> 0]}
Said(c, kind, r) == [kind |-> kind, chat |-> c, run |-> r, text |-> 0]
Reply(r) == {b \in bubbles : b.kind = "ira" /\ b.run = r}

CanCreate == server.made < MaxChats
Created == [made |-> server.made + 1, live |-> server.live \cup {server.made + 1}]

----------------------------------------------------------------------------
\* stopVoice: session.stop() and onClose, when a session is registered; then the reset of
\* the call.  One that is still connecting is not registered yet.
StopVoice ==
  /\ sessions' = [s \in 1..MaxSessions |->
       IF s = call.ref THEN [sessions[s] EXCEPT !.state = "closed"]
       ELSE sessions[s]]
  /\ call' = IdleCall

Hangup ==
  /\ call.open \/ call.ref # 0
  /\ StopVoice
  /\ busy' = (busy /\ call.ref = 0)
  /\ UNCHANGED <<server, rail, shown, bubbles, run, calls, streams, loads, overtaken>>

----------------------------------------------------------------------------
\* The load at boot, and the one of toggleService when PostgreSQL comes up.  It sets the
\* conversation when the answer is there, whoever chose another one in the meantime.

ListForLoad(k) ==
  /\ k.kind = "load" /\ k.chat = 0
  /\ IF server.live # {}
       THEN /\ rail' = server.live
            /\ \E c \in server.live : calls' = (calls \ {k}) \cup {[k EXCEPT !.chat = c]}
            /\ UNCHANGED <<server, shown, bubbles, overtaken>>
       ELSE /\ CanCreate /\ server' = Created /\ calls' = calls \ {k}
            /\ rail' = server'.live /\ shown' = server'.made /\ bubbles' = {}
            /\ overtaken' = (overtaken \/ shown # 0)
  /\ UNCHANGED <<run, busy, streams, call, sessions, loads>>

OpenForLoad(k) ==
  /\ k.kind = "load" /\ k.chat # 0
  /\ calls' = calls \ {k}
  /\ shown' = k.chat /\ bubbles' = Stored(k.chat)
  /\ overtaken' = (overtaken \/ shown # 0)
  /\ UNCHANGED <<server, rail, run, busy, streams, call, sessions, loads>>

StartPostgres ==
  /\ shown = 0 /\ ~call.open /\ loads < MaxLoads /\ Cardinality(calls) < MaxCalls
  /\ loads' = loads + 1
  /\ calls' = calls \cup {[kind |-> "load", run |-> loads, chat |-> 0]}
  /\ UNCHANGED <<server, rail, shown, bubbles, run, busy, streams, call, sessions, overtaken>>

----------------------------------------------------------------------------
\* clear and open: a new run, then the answer if the run is still the last one.

LeaveChat(k) ==
  /\ run < MaxRuns /\ Cardinality(calls) < MaxCalls
  /\ run' = run + 1 /\ busy' = FALSE
  /\ calls' = calls \cup {k}
  /\ StopVoice

New ==
  /\ ~call.open /\ CanCreate
  /\ LeaveChat([kind |-> "new", run |-> run + 1, chat |-> 0])
  /\ UNCHANGED <<server, rail, shown, bubbles, streams, loads, overtaken>>

Open(c) ==
  /\ ~call.open /\ c \in rail
  /\ LeaveChat([kind |-> "open", run |-> run + 1, chat |-> c])
  /\ UNCHANGED <<server, rail, shown, bubbles, streams, loads, overtaken>>

Current(k) == k.run = run

NewAnswered(k) ==
  /\ k.kind = "new"
  /\ CanCreate /\ server' = Created /\ calls' = calls \ {k}
  /\ IF Current(k) THEN rail' = server'.live /\ shown' = server'.made /\ bubbles' = {}
     ELSE UNCHANGED <<rail, shown, bubbles>>
  /\ UNCHANGED <<run, busy, streams, call, sessions, loads, overtaken>>

OpenAnswered(k) ==
  /\ k.kind = "open" /\ calls' = calls \ {k}
  /\ IF Current(k) THEN shown' = k.chat /\ bubbles' = Stored(k.chat) ELSE UNCHANGED <<shown, bubbles>>
  /\ UNCHANGED <<server, rail, run, busy, streams, call, sessions, loads, overtaken>>

\* Any of these calls may fail: the error is shown beside the conversation.
CallFails(k) ==
  /\ calls' = calls \ {k}
  /\ UNCHANGED <<server, rail, shown, bubbles, run, busy, streams, call, sessions, loads, overtaken>>

\* removeConversation: the chat that is shown when the user confirms, not when the answer
\* comes, decides whether another one is opened.  The server keeps at least one chat.
RemoveChat(c) ==
  /\ ~call.open /\ c \in rail /\ Cardinality(calls) < MaxCalls
  /\ calls' = calls \cup {[kind |-> IF c = shown THEN "remove-shown" ELSE "remove", run |-> 0, chat |-> c]}
  /\ UNCHANGED <<server, rail, shown, bubbles, run, busy, streams, call, sessions, loads, overtaken>>

Removed(k) ==
  /\ k.kind \in {"remove", "remove-shown"}
  /\ LET rest == server.live \ {k.chat} IN
     /\ IF rest # {} THEN server' = [server EXCEPT !.live = rest]
        ELSE CanCreate /\ server' = [made |-> server.made + 1, live |-> {server.made + 1}]
     /\ rail' = server'.live
     /\ IF k.kind = "remove" THEN calls' = calls \ {k} /\ UNCHANGED <<run, busy, call, sessions>>
        ELSE /\ run < MaxRuns /\ run' = run + 1 /\ busy' = FALSE /\ StopVoice
             /\ \E c \in server'.live : calls' = (calls \ {k}) \cup {[kind |-> "open", run |-> run + 1, chat |-> c]}
  /\ UNCHANGED <<shown, bubbles, streams, loads, overtaken>>

----------------------------------------------------------------------------
\* send.

Send ==
  /\ ~busy /\ ~call.listening /\ ~call.open /\ shown # 0 /\ run < MaxRuns
  /\ run' = run + 1 /\ busy' = TRUE
  /\ bubbles' = bubbles \cup {Said(shown, "user", run + 1)}
  /\ streams' = [streams EXCEPT ![run + 1] = [pc |-> "open", chat |-> shown, full |-> 0, pending |-> 0,
                                              frame |-> FALSE, visible |-> FALSE, left |-> MaxDeltas]]
  /\ UNCHANGED <<server, rail, shown, calls, call, sessions, loads, overtaken>>

IsOpen(r) == streams[r].pc = "open"

\* replyVisible: the first text of a reply makes its bubble, later text is added to it.
Shown(r, bs) ==
  LET s == streams[r]
      old == {b \in bs : b.kind = "ira" /\ b.run = r}
  IN IF s.visible THEN (bs \ old) \cup {[b EXCEPT !.text = @ + s.pending] : b \in old}
     ELSE bs \cup {[Said(s.chat, "ira", r) EXCEPT !.text = s.pending]}

\* flush: a frame, or the end of the stream.
Flushed(r) == IF streams[r].pending = 0 \/ r # run THEN bubbles ELSE Shown(r, bubbles)

AfterFlush(r) == [streams[r] EXCEPT !.pending = 0, !.frame = FALSE,
                                    !.visible = @ \/ (streams[r].pending > 0 /\ r = run)]

\* Mutant: the numbers of the runs are not compared.
HeededAlways(r) == IsOpen(r)

\* An event of an earlier run is dropped.
Heeded(r) == IsOpen(r) /\ r = run

Delta(r) ==
  /\ Heeded(r) /\ streams[r].left > 0
  /\ streams' = [streams EXCEPT ![r].left = @ - 1, ![r].pending = @ + 1, ![r].full = @ + 1, ![r].frame = TRUE]
  /\ UNCHANGED <<server, rail, shown, bubbles, run, busy, calls, call, sessions, loads, overtaken>>

Frame(r) ==
  /\ streams[r].pc # "none" /\ streams[r].frame
  /\ bubbles' = Flushed(r)
  /\ streams' = [streams EXCEPT ![r] = AfterFlush(r)]
  /\ UNCHANGED <<server, rail, shown, run, busy, calls, call, sessions, loads, overtaken>>

\* Mutant: the text that waits for its frame survives the reset.
ResetReplyKeep(r) == [streams[r] EXCEPT !.full = 0, !.visible = FALSE]

ResetReply(r) == [streams[r] EXCEPT !.full = 0, !.visible = FALSE, !.pending = 0, !.frame = FALSE]

Reset(r) ==
  /\ Heeded(r)
  /\ streams' = [streams EXCEPT ![r] = ResetReply(r)]
  /\ bubbles' = bubbles \ Reply(r)
  /\ UNCHANGED <<server, rail, shown, run, busy, calls, call, sessions, loads, overtaken>>

\* mcp_used: its name is written on the bubble of the reply, which it may have to make.
McpUsed(r) ==
  /\ Heeded(r)
  /\ streams' = [streams EXCEPT ![r].visible = TRUE]
  /\ bubbles' = IF Reply(r) # {} THEN bubbles ELSE bubbles \cup {Said(streams[r].chat, "ira", r)}
  /\ UNCHANGED <<server, rail, shown, run, busy, calls, call, sessions, loads, overtaken>>

\* The stream ended with done: what is pending is shown, then the list is asked for.
StreamDone(r) ==
  /\ IsOpen(r)
  /\ bubbles' = Flushed(r)
  /\ streams' = [streams EXCEPT ![r] = [AfterFlush(r) EXCEPT !.pc = "list"]]
  /\ UNCHANGED <<server, rail, shown, run, busy, calls, call, sessions, loads, overtaken>>

\* finally.
Settle(r) == busy' = (busy /\ r # run)

ListAfter(r) ==
  /\ streams[r].pc = "list"
  /\ rail' = IF r = run THEN server.live ELSE rail
  /\ streams' = [streams EXCEPT ![r] = NoStream]
  /\ Settle(r)
  /\ UNCHANGED <<server, shown, bubbles, run, calls, call, sessions, loads, overtaken>>

\* catch: an error event, a stream that ends without done, no answer; or the list fails.
StreamFails(r) ==
  /\ streams[r].pc \in {"open", "list"}
  /\ streams' = [streams EXCEPT ![r] = NoStream]
  /\ bubbles' = IF r # run THEN bubbles
                ELSE (IF streams[r].visible THEN bubbles \ Reply(r) ELSE bubbles)
                     \cup {Said(streams[r].chat, "error", r)}
  /\ Settle(r)
  /\ UNCHANGED <<server, rail, shown, run, calls, call, sessions, loads, overtaken>>

----------------------------------------------------------------------------
\* talk and startVoice.

Used == {s \in 1..MaxSessions : sessions[s].state # "none"}

Talk ==
  /\ ~call.open /\ ~call.listening /\ ~busy /\ shown # 0 /\ Cardinality(Used) < MaxSessions
  /\ call' = [call EXCEPT !.open = TRUE, !.listening = TRUE, !.bubble = 0]
  /\ sessions' = [sessions EXCEPT ![Cardinality(Used) + 1] =
                    [state |-> "connecting", chat |-> shown, heard |-> 0]]
  /\ UNCHANGED <<server, rail, shown, bubbles, run, busy, calls, streams, loads, overtaken>>

Connected(s) ==
  /\ sessions[s].state = "connecting"
  /\ sessions' = [sessions EXCEPT ![s].state = "open"]
  /\ call' = [call EXCEPT !.ref = s]
  /\ UNCHANGED <<server, rail, shown, bubbles, run, busy, calls, streams, loads, overtaken>>

ConnectFails(s) ==
  /\ sessions[s].state = "connecting"
  /\ sessions' = [sessions EXCEPT ![s].state = "closed"]
  /\ call' = [call EXCEPT !.listening = FALSE]
  /\ bubbles' = bubbles \cup {Said(sessions[s].chat, "error", 0)}
  /\ UNCHANGED <<server, rail, shown, run, busy, calls, streams, loads, overtaken>>

Heard(s) == [kind |-> "heard", chat |-> sessions[s].chat, run |-> s, text |-> 0]
Spoken(s) == [kind |-> "spoken", chat |-> sessions[s].chat, run |-> s, text |-> 0]

\* onTranscript with a final text: dropped while the last one is being answered.
Transcript(s) ==
  /\ sessions[s].state = "open" /\ ~call.busy /\ sessions[s].heard = 0
  /\ call' = [call EXCEPT !.busy = TRUE, !.bubble = 0]
  /\ sessions' = [sessions EXCEPT ![s].heard = 1]
  /\ bubbles' = bubbles \cup {Heard(s)}
  /\ busy' = TRUE
  /\ UNCHANGED <<server, rail, shown, run, calls, streams, loads, overtaken>>

Answered(s) ==
  /\ sessions[s].state = "open" /\ sessions[s].heard = 1
  /\ sessions' = [sessions EXCEPT ![s].heard = 2]
  /\ call' = [call EXCEPT !.bubble = s, !.busy = @ /\ call.speaking]
  /\ bubbles' = bubbles \cup {Spoken(s)}
  /\ busy' = FALSE
  /\ rail' = server.live
  /\ UNCHANGED <<server, shown, run, calls, streams, loads, overtaken>>

Speaking(s) ==
  /\ sessions[s].state = "open"
  /\ call' = [call EXCEPT !.speaking = ~@, !.busy = @ /\ ~call.speaking]
  /\ UNCHANGED <<server, rail, shown, bubbles, run, busy, calls, streams, sessions, loads, overtaken>>

\* The socket closes by itself: stop, and onClose.  A recognition error comes before it.
Dropped(s) ==
  /\ sessions[s].state = "open"
  /\ sessions' = [sessions EXCEPT ![s].state = "closed"]
  /\ call' = [call EXCEPT !.ref = 0, !.busy = FALSE, !.speaking = FALSE, !.listening = FALSE]
  /\ busy' = FALSE
  /\ \E error \in BOOLEAN : bubbles' = IF error THEN bubbles \cup {Said(sessions[s].chat, "error", 0)} ELSE bubbles
  /\ UNCHANGED <<server, rail, shown, run, calls, streams, loads, overtaken>>

----------------------------------------------------------------------------
Voice(s) == Connected(s) \/ ConnectFails(s) \/ Transcript(s) \/ Answered(s) \/ Speaking(s) \/ Dropped(s)

Stream(r) == Delta(r) \/ Frame(r) \/ Reset(r) \/ McpUsed(r) \/ StreamDone(r) \/ ListAfter(r) \/ StreamFails(r)

Arrives(k) ==
  ListForLoad(k) \/ OpenForLoad(k) \/ NewAnswered(k) \/ OpenAnswered(k) \/ Removed(k) \/ CallFails(k)

UiNext ==
  \/ New \/ Send \/ Talk \/ Hangup \/ StartPostgres
  \/ \E c \in 1..MaxChats : Open(c) \/ RemoveChat(c)
  \/ \E k \in calls : Arrives(k)
  \/ \E r \in 1..MaxRuns : Stream(r)
  \/ \E s \in 1..MaxSessions : Voice(s)

UiSpec == UiInit /\ [][UiNext]_uiVars

----------------------------------------------------------------------------
\* What was typed, answered and stored.  A voice session is not bound to a run: the user may
\* call, or hang up while the session connects, and be in another conversation when it speaks.
Written == {b \in bubbles : b.kind \in {"user", "ira", "stored"} \/ (b.kind = "error" /\ b.run > 0)}

\* Everything written on the screen belongs to the conversation that is open: a late answer,
\* a late delta or a frame drawn late never writes into another one, unless a load
\* replaced the conversation the user was in.
ShownBelongs == ~overtaken => \A b \in Written : b.chat = shown

\* When a reply has arrived in the view that asked for it, the view shows all of it and
\* nothing of what a reset took back, however frames, deltas, resets and tools overlapped.
ReplyIsWhole ==
  run > 0 /\ ~overtaken /\ streams[run].pc = "list"
    => {b.text : b \in Reply(run)} \ {0} = {streams[run].full} \ {0}

=============================================================================
