---------------------------- MODULE ClientProofs -----------------------------
(***************************************************************************)
(* The two ends of a conversation, for any bounds.                         *)
(*                                                                         *)
(* The page: the reply of the last run is for the conversation that is     *)
(* shown, which holds what was flushed of it; whoever waits for the server *)
(* in the last run has sent nothing in it.                                 *)
(* The terminal: what the turn in the background answers is the last thing *)
(* that was stored in the conversation that is open.                       *)
(* The credentials: a refresh token that was given out and is not stored   *)
(* yet is good and known to nobody else, so that spending the one that is  *)
(* stored never spends one that is about to be stored.                     *)
(***************************************************************************)
EXTENDS ChatSurface, Terminal, CodexAuth, TLAPS

----------------------------------------------------------------------------
\* The page: what is shown belongs to the open conversation, and a reply is shown whole.

\* The parts of the state.
Bubble == [kind : {"stored", "user", "ira", "error", "heard", "spoken"}, chat : Nat, run : Nat, text : Nat]
Replying == [pc : {"open", "list"}, chat : Nat, full : Nat, pending : Nat,
             frame : BOOLEAN, visible : BOOLEAN, left : Nat]
Errands == {"load", "new", "open", "remove", "remove-shown"}
UnderWay == [kind : Errands, run : Nat, chat : Nat]
VoiceSession == [state : {"none", "connecting", "open", "closed"}, chat : Nat, heard : Nat]

\* The type invariant of the page.
UiTypes ==
  /\ server.made \in Nat /\ server.live \in SUBSET (Nat \ {0})
  /\ shown \in Nat /\ bubbles \in SUBSET Bubble /\ run \in 0..MaxRuns
  /\ calls \in SUBSET UnderWay /\ \A k \in calls : k.kind = "open" => k.chat # 0
  /\ streams \in [1..MaxRuns -> {NoStream} \cup Replying]
  /\ sessions \in [1..MaxSessions -> VoiceSession]
  /\ loads \in Nat /\ overtaken \in BOOLEAN

\* A call has its parts.
LEMMA UnderWayOf ==
  ASSUME NEW what \in Errands, NEW r \in Nat, NEW c \in Nat
  PROVE  [kind |-> what, run |-> r, chat |-> c] \in UnderWay
BY DEF UnderWay

\* The sessions after a hangup.
LEMMA StopVoiceTypes ==
  ASSUME UiTypes, StopVoice
  PROVE  sessions' \in [1..MaxSessions -> VoiceSession]
<1>1. ASSUME NEW s \in 1..MaxSessions
      PROVE  [sessions[s] EXCEPT !.state = "closed"] \in VoiceSession /\ sessions[s] \in VoiceSession
  BY DEF UiTypes, VoiceSession
<1>. QED
  BY <1>1 DEF StopVoice

\* The steps, by what they do to the view.

\* It stays; what appears in it is of a voice call.
Aside ==
  /\ UNCHANGED <<shown, run, streams, overtaken>>
  /\ \A k \in calls' : k \in calls \/ k.kind \notin {"new", "open"}
  /\ \A b \in bubbles' : b \in bubbles \/ b.kind \in {"heard", "spoken"} \/ (b.kind = "error" /\ b.run = 0)
  /\ bubbles \subseteq bubbles'

\* A new run, for which a call asks the server.
Leaves ==
  /\ run' = run + 1 /\ run < MaxRuns
  /\ UNCHANGED <<shown, bubbles, streams, overtaken>>
  /\ \A k \in calls' : k \in calls \/ k.kind \notin {"new", "open"} \/ k.run = run + 1

\* The server answers with the conversation to show.
Lands ==
  /\ UNCHANGED <<run, streams>>
  /\ calls' \subseteq calls
  /\ \A b \in bubbles' : b.kind = "stored" /\ b.chat = shown'
  /\ \/ overtaken' = (overtaken \/ shown # 0) /\ shown' # 0
     \/ overtaken' = overtaken /\ shown' # 0 /\ \E k \in calls : k.kind \in {"new", "open"} /\ k.run = run

\* Every step is one of these, but for those of a stream.
LEMMA ViewMoves ==
  ASSUME UiTypes, [UiNext]_uiVars
  PROVE  Aside \/ Leaves \/ Lands \/ Send \/ \E r \in 1..MaxRuns : Stream(r)
<1>1. CASE Talk \/ Hangup \/ StartPostgres \/ UNCHANGED uiVars
  BY <1>1 DEF Talk, Hangup, StartPostgres, uiVars, Aside
<1>2. CASE New
  BY <1>2 DEF New, LeaveChat, Leaves
<1>3. ASSUME NEW c \in 1..MaxChats, Open(c) PROVE Leaves
  BY <1>3 DEF Open, LeaveChat, Leaves
<1>4. ASSUME NEW c \in 1..MaxChats, RemoveChat(c) PROVE Aside
  <2>1. CASE c = shown
    <3>1. calls' = calls \cup {[kind |-> "remove-shown", run |-> 0, chat |-> c]}
      BY <1>4, <2>1 DEF RemoveChat
    <3>2. \A k \in calls' : k \in calls \/ k.kind = "remove-shown"
      BY <3>1
    <3>. QED
      BY <1>4, <3>2 DEF RemoveChat, Aside
  <2>2. CASE c # shown
    <3>1. calls' = calls \cup {[kind |-> "remove", run |-> 0, chat |-> c]}
      BY <1>4, <2>2 DEF RemoveChat
    <3>2. \A k \in calls' : k \in calls \/ k.kind = "remove"
      BY <3>1
    <3>. QED
      BY <1>4, <3>2 DEF RemoveChat, Aside
  <2>. QED
    BY <2>1, <2>2
<1>5. ASSUME NEW s \in 1..MaxSessions, Voice(s) PROVE Aside
  BY <1>5 DEF Voice, Connected, ConnectFails, Transcript, Answered, Speaking, Dropped, Aside, Said, Heard, Spoken
<1>6. ASSUME NEW k \in calls, ListForLoad(k) PROVE Aside \/ Lands
  <2>1. CASE server.live # {}
    <3>1. PICK c \in server.live : calls' = (calls \ {k}) \cup {[k EXCEPT !.chat = c]}
      BY <1>6, <2>1 DEF ListForLoad
    <3>2. k \in UnderWay /\ k.kind = "load"
      BY <1>6 DEF ListForLoad, UiTypes
    <3>3. [k EXCEPT !.chat = c].kind = "load"
      BY <3>2 DEF UnderWay
    <3>4. ASSUME NEW l \in calls' PROVE l \in calls \/ l.kind \notin {"new", "open"}
      BY <3>1, <3>3
    <3>. QED
      BY <1>6, <2>1, <3>4 DEF ListForLoad, Aside
  <2>2. CASE server.live = {}
    BY <1>6, <2>2 DEF ListForLoad, Lands, Created, UiTypes
  <2>. QED
    BY <2>1, <2>2
<1>7. ASSUME NEW k \in calls, OpenForLoad(k) PROVE Lands
  BY <1>7 DEF OpenForLoad, Lands, Stored
<1>8. ASSUME NEW k \in calls, NewAnswered(k) PROVE Aside \/ Lands
  <2>1. CASE Current(k)
    BY <1>8, <2>1 DEF NewAnswered, Lands, Created, UiTypes, Current
  <2>2. CASE ~Current(k)
    BY <1>8, <2>2 DEF NewAnswered, Aside
  <2>. QED
    BY <2>1, <2>2
<1>9. ASSUME NEW k \in calls, OpenAnswered(k) PROVE Aside \/ Lands
  <2>1. CASE Current(k)
    BY <1>9, <2>1 DEF OpenAnswered, Lands, Stored, UiTypes, Current
  <2>2. CASE ~Current(k)
    BY <1>9, <2>2 DEF OpenAnswered, Aside
  <2>. QED
    BY <2>1, <2>2
<1>10. ASSUME NEW k \in calls, Removed(k) PROVE Aside \/ Leaves
  <2>1. CASE k.kind = "remove"
    BY <1>10, <2>1 DEF Removed, Aside
  <2>2. CASE k.kind = "remove-shown"
    <3>1. /\ run < MaxRuns /\ run' = run + 1 /\ UNCHANGED <<shown, bubbles, streams, overtaken>>
          /\ \E c : calls' = (calls \ {k}) \cup {[kind |-> "open", run |-> run + 1, chat |-> c]}
      BY <1>10, <2>2 DEF Removed
    <3>. QED
      BY <3>1 DEF Leaves
  <2>. QED
    BY <1>10, <2>1, <2>2 DEF Removed
<1>11. ASSUME NEW k \in calls, CallFails(k) PROVE Aside
  BY <1>11 DEF CallFails, Aside
<1>. QED
  BY <1>1, <1>2, <1>3, <1>4, <1>5, <1>6, <1>7, <1>8, <1>9, <1>10, <1>11 DEF UiNext, Arrives

\* The types, except for the steps of a stream.
LEMMA UiTypesStep ==
  ASSUME UiTypes, [UiNext]_uiVars, ~\E r \in 1..MaxRuns : Stream(r)
  PROVE  UiTypes'
<1>a. MaxRuns \in Nat /\ run \in Nat /\ run + 1 \in Nat /\ 0 \in Nat
  BY UiAssumption DEF UiTypes
<1>b. {"load", "new", "open", "remove", "remove-shown"} = Errands
  BY DEF Errands
<1>1. CASE Talk \/ StartPostgres \/ UNCHANGED uiVars
  <2>1. CASE Talk
    <3>1. [state |-> "connecting", chat |-> shown, heard |-> 0] \in VoiceSession
      BY DEF UiTypes, VoiceSession
    <3>. QED
      BY <2>1, <3>1 DEF Talk, UiTypes
  <2>2. CASE StartPostgres
    <3>1. PICK k \in UnderWay : k = [kind |-> "load", run |-> loads, chat |-> 0]
      BY <1>b, UnderWayOf DEF UiTypes
    <3>. QED
      BY <2>2, <3>1 DEF StartPostgres, UiTypes
  <2>3. CASE UNCHANGED uiVars
    BY <2>3 DEF uiVars, UiTypes
  <2>. QED
    BY <1>1, <2>1, <2>2, <2>3
<1>2. CASE Hangup
  BY <1>2, StopVoiceTypes DEF Hangup, UiTypes
<1>3. ASSUME NEW k \in UnderWay, k.kind = "open" => k.chat # 0, LeaveChat(k),
             UNCHANGED <<server, shown, bubbles, streams, loads, overtaken>>
      PROVE  UiTypes'
  <2>1. sessions' \in [1..MaxSessions -> VoiceSession]
    BY <1>3, StopVoiceTypes DEF LeaveChat
  <2>2. run' \in 0..MaxRuns
    BY <1>a, <1>3 DEF LeaveChat, UiTypes
  <2>. QED
    BY <1>3, <2>1, <2>2 DEF LeaveChat, UiTypes
<1>4. CASE New
  <2>1. [kind |-> "new", run |-> run + 1, chat |-> 0] \in UnderWay
    BY <1>a, <1>b, UnderWayOf
  <2>. QED
    BY <1>3, <1>4, <2>1 DEF New
<1>5. ASSUME NEW c \in 1..MaxChats, Open(c) PROVE UiTypes'
  <2>1. [kind |-> "open", run |-> run + 1, chat |-> c] \in UnderWay /\ c # 0
    <3>1. c \in Nat /\ c # 0
      BY UiAssumption
    <3>. QED
      BY <1>a, <1>b, <3>1, UnderWayOf
  <2>. QED
    BY <1>3, <1>5, <2>1 DEF Open
<1>6. ASSUME NEW c \in 1..MaxChats, RemoveChat(c) PROVE UiTypes'
  <2>1. c \in Nat
    BY UiAssumption
  <2>2. /\ [kind |-> "remove", run |-> 0, chat |-> c] \in UnderWay
        /\ [kind |-> "remove-shown", run |-> 0, chat |-> c] \in UnderWay
    BY <1>a, <1>b, <2>1, UnderWayOf
  <2>3. calls' \in SUBSET UnderWay /\ \A k \in calls' : k.kind = "open" => k.chat # 0
    <3>1. CASE c = shown
      <4>1. calls' = calls \cup {[kind |-> "remove-shown", run |-> 0, chat |-> c]}
        BY <1>6, <3>1 DEF RemoveChat
      <4>. QED
        BY <2>2, <4>1 DEF UiTypes
    <3>2. CASE c # shown
      <4>1. calls' = calls \cup {[kind |-> "remove", run |-> 0, chat |-> c]}
        BY <1>6, <3>2 DEF RemoveChat
      <4>. QED
        BY <2>2, <4>1 DEF UiTypes
    <3>. QED
      BY <3>1, <3>2
  <2>. QED
    BY <1>6, <2>3 DEF RemoveChat, UiTypes
<1>7. CASE Send
  <2>1. Said(shown, "user", run + 1) \in Bubble
    BY <1>a DEF Said, Bubble, UiTypes
  <2>2. [pc |-> "open", chat |-> shown, full |-> 0, pending |-> 0, frame |-> FALSE, visible |-> FALSE,
         left |-> MaxDeltas] \in Replying
    BY UiAssumption DEF Replying, UiTypes
  <2>3. run + 1 \in 0..MaxRuns
    BY <1>a, <1>7 DEF Send, UiTypes
  <2>4. streams' \in [1..MaxRuns -> {NoStream} \cup Replying]
    BY <1>7, <2>2 DEF Send, UiTypes
  <2>. QED
    BY <1>7, <2>1, <2>3, <2>4 DEF Send, UiTypes
<1>8. ASSUME NEW s \in 1..MaxSessions, Voice(s) PROVE UiTypes'
  <2>1. sessions[s] \in VoiceSession /\ sessions[s].chat \in Nat /\ sessions[s].heard \in Nat
    BY DEF UiTypes, VoiceSession
  <2>2. /\ [sessions[s] EXCEPT !.state = "open"] \in VoiceSession
        /\ [sessions[s] EXCEPT !.state = "closed"] \in VoiceSession
        /\ [sessions[s] EXCEPT !.heard = 1] \in VoiceSession
        /\ [sessions[s] EXCEPT !.heard = 2] \in VoiceSession
    BY <2>1 DEF VoiceSession
  <2>3. Heard(s) \in Bubble /\ Spoken(s) \in Bubble /\ Said(sessions[s].chat, "error", 0) \in Bubble
    BY <2>1 DEF Heard, Spoken, Said, Bubble
  <2>4. sessions' \in [1..MaxSessions -> VoiceSession]
    BY <1>8, <2>2 DEF Voice, Connected, ConnectFails, Transcript, Answered, Speaking, Dropped, UiTypes
  <2>5. bubbles' \in SUBSET Bubble
    BY <1>8, <2>3 DEF Voice, Connected, ConnectFails, Transcript, Answered, Speaking, Dropped, UiTypes
  <2>6. UNCHANGED <<server, shown, run, calls, streams, loads, overtaken>>
    BY <1>8 DEF Voice, Connected, ConnectFails, Transcript, Answered, Speaking, Dropped
  <2>. QED
    BY <2>4, <2>5, <2>6 DEF UiTypes
<1>9. server.made + 1 \in Nat \ {0} /\ \A c \in Nat : Stored(c) \in SUBSET Bubble
  BY DEF UiTypes, Stored, Bubble
<1>10. ASSUME NEW k \in calls PROVE k \in UnderWay /\ k.chat \in Nat /\ k.run \in Nat
  BY DEF UiTypes, UnderWay
<1>11. ASSUME NEW k \in calls, ListForLoad(k) PROVE UiTypes'
  <2>1. CASE server.live # {}
    <3>1. PICK c \in server.live : calls' = (calls \ {k}) \cup {[k EXCEPT !.chat = c]}
      BY <1>11, <2>1 DEF ListForLoad
    <3>2. [k EXCEPT !.chat = c] \in UnderWay /\ [k EXCEPT !.chat = c].chat = c /\ c # 0
      BY <1>10 DEF UnderWay, UiTypes
    <3>. QED
      BY <1>11, <2>1, <3>1, <3>2 DEF ListForLoad, UiTypes
  <2>2. CASE server.live = {}
    BY <1>9, <1>11, <2>2 DEF ListForLoad, Created, UiTypes
  <2>. QED
    BY <2>1, <2>2
<1>12. ASSUME NEW k \in calls, OpenForLoad(k) PROVE UiTypes'
  BY <1>9, <1>10, <1>12 DEF OpenForLoad, UiTypes
<1>13. ASSUME NEW k \in calls, NewAnswered(k) PROVE UiTypes'
  BY <1>9, <1>13 DEF NewAnswered, Created, UiTypes
<1>14. ASSUME NEW k \in calls, OpenAnswered(k) PROVE UiTypes'
  BY <1>9, <1>10, <1>14 DEF OpenAnswered, UiTypes
<1>15. ASSUME NEW k \in calls, Removed(k) PROVE UiTypes'
  <2>1. server'.made \in Nat /\ server'.live \in SUBSET (Nat \ {0})
    <3>1. CASE server.live \ {k.chat} # {}
      <4>1. server' = [server EXCEPT !.live = server.live \ {k.chat}]
        BY <1>15, <3>1 DEF Removed
      <4>2. server'.made = server.made /\ server'.live = server.live \ {k.chat}
        BY <4>1 DEF UiTypes
      <4>. QED
        BY <4>2 DEF UiTypes
    <3>2. CASE server.live \ {k.chat} = {}
      <4>1. server' = [made |-> server.made + 1, live |-> {server.made + 1}]
        BY <1>15, <3>2 DEF Removed
      <4>. QED
        BY <1>9, <4>1
    <3>. QED
      BY <3>1, <3>2
  <2>2. CASE k.kind = "remove"
    BY <1>15, <2>1, <2>2 DEF Removed, UiTypes
  <2>3. CASE k.kind = "remove-shown"
    <3>1. PICK c \in server'.live : calls' = (calls \ {k}) \cup {[kind |-> "open", run |-> run + 1, chat |-> c]}
      BY <1>15, <2>3 DEF Removed
    <3>2. [kind |-> "open", run |-> run + 1, chat |-> c] \in UnderWay /\ c # 0
      BY <1>a, <1>b, <2>1, UnderWayOf
    <3>3. run' \in 0..MaxRuns /\ sessions' \in [1..MaxSessions -> VoiceSession]
      <4>1. run < MaxRuns /\ run' = run + 1 /\ StopVoice
        BY <1>15, <2>3 DEF Removed
      <4>. QED
        BY <1>a, <4>1, StopVoiceTypes
    <3>4. UNCHANGED <<shown, bubbles, streams, loads, overtaken>>
      BY <1>15 DEF Removed
    <3>. QED
      BY <2>1, <3>1, <3>2, <3>3, <3>4 DEF UiTypes
  <2>. QED
    BY <1>15, <2>2, <2>3 DEF Removed
<1>16. ASSUME NEW k \in calls, CallFails(k) PROVE UiTypes'
  BY <1>16 DEF CallFails, UiTypes
<1>. QED
  BY <1>1, <1>2, <1>4, <1>5, <1>6, <1>7, <1>8, <1>11, <1>12, <1>13, <1>14, <1>15, <1>16 DEF UiNext, Arrives

\* The bubbles of a reply: one at most, once something was flushed.
Of(bs, r) == {b \in bs : b.kind = "ira" /\ b.run = r}

\* What has arrived is flushed or pending, and nothing is pending at the end.
Assembled(s, bs, r) ==
  /\ s.visible => \E b \in bs : Of(bs, r) = {b} /\ b.text + s.pending = s.full
  /\ ~s.visible => Of(bs, r) = {} /\ s.full = s.pending
  /\ s.pc = "list" => s.pending = 0

\* A reply is under way or it is not.
LEMMA StreamTypes ==
  ASSUME UiTypes, NEW r \in 1..MaxRuns
  PROVE  /\ streams[r] \in Replying \/ streams[r] = NoStream
         /\ streams[r].pc # "none" => streams[r] \in Replying
         /\ NoStream.pc = "none" /\ \A s \in Replying : s # NoStream
<1>1. NoStream.pc = "none" /\ \A s \in Replying : s.pc # "none"
  BY DEF NoStream, Replying
<1>2. streams[r] \in Replying \/ streams[r] = NoStream
  BY DEF UiTypes
<1>. QED
  BY <1>1, <1>2

\* Setting one field leaves the others.
LEMMA SetPending ==
  ASSUME NEW s \in Replying, NEW v \in Nat
  PROVE  /\ [s EXCEPT !.pending = v] \in Replying /\ [s EXCEPT !.pending = v].pending = v
         /\ [s EXCEPT !.pending = v].pc = s.pc /\ [s EXCEPT !.pending = v].chat = s.chat /\ [s EXCEPT !.pending = v].full = s.full
         /\ [s EXCEPT !.pending = v].visible = s.visible /\ [s EXCEPT !.pending = v].left = s.left
BY DEF Replying

\* The same of the field full.
LEMMA SetFull ==
  ASSUME NEW s \in Replying, NEW v \in Nat
  PROVE  /\ [s EXCEPT !.full = v] \in Replying /\ [s EXCEPT !.full = v].full = v
         /\ [s EXCEPT !.full = v].pc = s.pc /\ [s EXCEPT !.full = v].chat = s.chat
         /\ [s EXCEPT !.full = v].pending = s.pending /\ [s EXCEPT !.full = v].visible = s.visible /\ [s EXCEPT !.full = v].left = s.left
BY DEF Replying

\* The same of the field left.
LEMMA SetLeft ==
  ASSUME NEW s \in Replying, NEW v \in Nat
  PROVE  /\ [s EXCEPT !.left = v] \in Replying /\ [s EXCEPT !.left = v].left = v
         /\ [s EXCEPT !.left = v].pc = s.pc /\ [s EXCEPT !.left = v].chat = s.chat /\ [s EXCEPT !.left = v].full = s.full
         /\ [s EXCEPT !.left = v].pending = s.pending /\ [s EXCEPT !.left = v].visible = s.visible
BY DEF Replying

\* The same of the field frame.
LEMMA SetFrame ==
  ASSUME NEW s \in Replying, NEW v \in BOOLEAN
  PROVE  /\ [s EXCEPT !.frame = v] \in Replying /\ [s EXCEPT !.frame = v].frame = v
         /\ [s EXCEPT !.frame = v].pc = s.pc /\ [s EXCEPT !.frame = v].chat = s.chat /\ [s EXCEPT !.frame = v].full = s.full
         /\ [s EXCEPT !.frame = v].pending = s.pending /\ [s EXCEPT !.frame = v].visible = s.visible /\ [s EXCEPT !.frame = v].left = s.left
BY DEF Replying

\* The same of the field visible.
LEMMA SetVisible ==
  ASSUME NEW s \in Replying, NEW v \in BOOLEAN
  PROVE  /\ [s EXCEPT !.visible = v] \in Replying /\ [s EXCEPT !.visible = v].visible = v
         /\ [s EXCEPT !.visible = v].pc = s.pc /\ [s EXCEPT !.visible = v].chat = s.chat /\ [s EXCEPT !.visible = v].full = s.full
         /\ [s EXCEPT !.visible = v].pending = s.pending /\ [s EXCEPT !.visible = v].left = s.left
BY DEF Replying

\* The bubbles that a flush shows.
LEMMA FlushTypes ==
  ASSUME UiTypes, NEW r \in 1..MaxRuns, NEW s \in Replying, streams[r] = s
  PROVE  /\ AfterFlush(r) \in Replying
         /\ AfterFlush(r).chat = s.chat /\ AfterFlush(r).pc = s.pc /\ AfterFlush(r).full = s.full
         /\ AfterFlush(r).pending = 0
         /\ AfterFlush(r).visible = (s.visible \/ (s.pending > 0 /\ r = run))
         /\ r # run => Flushed(r) = bubbles
         /\ Flushed(r) \in SUBSET Bubble
         /\ \A b \in Flushed(r) :
              b \in bubbles \/ (b.kind = "ira" /\ b.run = r /\ (b.chat = s.chat \/ \E o \in Of(bubbles, r) : o.chat = b.chat))
<1>1. AfterFlush(r) = [s EXCEPT !.pending = 0, !.frame = FALSE, !.visible = s.visible \/ (s.pending > 0 /\ r = run)]
  BY DEF AfterFlush
<1>2. /\ AfterFlush(r) \in Replying
      /\ AfterFlush(r).chat = s.chat /\ AfterFlush(r).pc = s.pc /\ AfterFlush(r).full = s.full
      /\ AfterFlush(r).pending = 0
      /\ AfterFlush(r).visible = (s.visible \/ (s.pending > 0 /\ r = run))
  <2>1. PICK v \in BOOLEAN : v = (s.visible \/ (s.pending > 0 /\ r = run))
    OBVIOUS
  <2>2. PICK t1 \in Replying : /\ t1 = [s EXCEPT !.pending = 0]
                              /\ t1.chat = s.chat /\ t1.pc = s.pc /\ t1.full = s.full /\ t1.pending = 0
    BY SetPending
  <2>3. PICK t2 \in Replying : /\ t2 = [t1 EXCEPT !.frame = FALSE]
                              /\ t2.chat = s.chat /\ t2.pc = s.pc /\ t2.full = s.full /\ t2.pending = 0
    <3>1. /\ [t1 EXCEPT !.frame = FALSE] \in Replying /\ [t1 EXCEPT !.frame = FALSE].frame = FALSE
          /\ [t1 EXCEPT !.frame = FALSE].pc = t1.pc
          /\ [t1 EXCEPT !.frame = FALSE].chat = t1.chat
          /\ [t1 EXCEPT !.frame = FALSE].full = t1.full
          /\ [t1 EXCEPT !.frame = FALSE].pending = t1.pending
          /\ [t1 EXCEPT !.frame = FALSE].visible = t1.visible
          /\ [t1 EXCEPT !.frame = FALSE].left = t1.left
      BY SetFrame
    <3>. QED
      BY <2>2, <3>1
  <2>4. PICK t3 \in Replying : /\ t3 = [t2 EXCEPT !.visible = v]
                              /\ t3.chat = s.chat /\ t3.pc = s.pc /\ t3.full = s.full /\ t3.pending = 0
                              /\ t3.visible = v
    <3>1. /\ [t2 EXCEPT !.visible = v] \in Replying /\ [t2 EXCEPT !.visible = v].visible = v
          /\ [t2 EXCEPT !.visible = v].pc = t2.pc
          /\ [t2 EXCEPT !.visible = v].chat = t2.chat
          /\ [t2 EXCEPT !.visible = v].full = t2.full
          /\ [t2 EXCEPT !.visible = v].pending = t2.pending
          /\ [t2 EXCEPT !.visible = v].left = t2.left
      BY SetVisible
    <3>. QED
      BY <2>3, <3>1
  <2>5. AfterFlush(r) = t3
    BY <1>1, <2>1, <2>2, <2>3, <2>4
  <2>. QED
    BY <2>1, <2>4, <2>5
<1>3. r # run => Flushed(r) = bubbles
  BY DEF Flushed
<1>4. CASE s.pending = 0 \/ r # run
  BY <1>2, <1>4 DEF Flushed, UiTypes
<1>5. CASE s.pending # 0 /\ r = run
  <2>1. Flushed(r) = Shown(r, bubbles) /\ s.pending \in Nat /\ s.chat \in Nat /\ r \in Nat
    BY <1>5 DEF Flushed, Replying
  <2>2. CASE s.visible
    <3>1. Flushed(r) = (bubbles \ Of(bubbles, r)) \cup {[b EXCEPT !.text = b.text + s.pending] : b \in Of(bubbles, r)}
      BY <2>1, <2>2 DEF Shown, Of
    <3>2. ASSUME NEW o \in Of(bubbles, r)
          PROVE  /\ [o EXCEPT !.text = o.text + s.pending] \in Bubble
                 /\ [o EXCEPT !.text = o.text + s.pending].kind = "ira"
                 /\ [o EXCEPT !.text = o.text + s.pending].run = r
                 /\ [o EXCEPT !.text = o.text + s.pending].chat = o.chat
      <4>1. o \in Bubble /\ o.text + s.pending \in Nat /\ o.kind = "ira" /\ o.run = r
        BY <2>1 DEF Of, UiTypes, Bubble
      <4>. QED
        BY <4>1 DEF Bubble
    <3>3. \A b \in Flushed(r) :
            b \in bubbles \/ \E o \in Of(bubbles, r) : b = [o EXCEPT !.text = o.text + s.pending]
      BY <3>1
    <3>4. \A b \in Flushed(r) : b \in Bubble
      BY <3>2, <3>3 DEF UiTypes
    <3>5. \A b \in Flushed(r) :
            b \in bubbles \/ (b.kind = "ira" /\ b.run = r /\ \E o \in Of(bubbles, r) : o.chat = b.chat)
      <4> SUFFICES ASSUME NEW b \in Flushed(r), b \notin bubbles
                   PROVE  b.kind = "ira" /\ b.run = r /\ \E o \in Of(bubbles, r) : o.chat = b.chat
        OBVIOUS
      <4>1. PICK o \in Of(bubbles, r) : b = [o EXCEPT !.text = o.text + s.pending]
        BY <3>3
      <4>2. b.kind = "ira" /\ b.run = r /\ b.chat = o.chat
        BY <3>2, <4>1
      <4>. QED
        BY <4>2
    <3>. QED
      BY <1>2, <1>3, <3>4, <3>5
  <2>3. CASE ~s.visible
    <3>1. PICK n \in Bubble : n = [Said(s.chat, "ira", r) EXCEPT !.text = s.pending]
      BY <2>1 DEF Said, Bubble
    <3>2. Flushed(r) = bubbles \cup {n} /\ n.kind = "ira" /\ n.run = r /\ n.chat = s.chat
      BY <2>1, <2>3, <3>1 DEF Shown, Said
    <3>. QED
      BY <1>2, <1>3, <3>2 DEF UiTypes
  <2>. QED
    BY <2>2, <2>3
<1>. QED
  BY <1>4, <1>5 DEF Replying

\* A flush shows what was pending.
LEMMA FlushAssembles ==
  ASSUME UiTypes, NEW r \in 1..MaxRuns, NEW s \in Replying, streams[r] = s, r = run,
         Assembled(s, bubbles, r)
  PROVE  Assembled(AfterFlush(r), Flushed(r), r)
<1>1. /\ AfterFlush(r).pending = 0 /\ AfterFlush(r).full = s.full
      /\ AfterFlush(r).visible = (s.visible \/ s.pending > 0)
      /\ s.pending \in Nat /\ s.full \in Nat /\ s.visible \in BOOLEAN
  BY FlushTypes DEF Replying
<1>0. PICK t \in Replying : /\ t = AfterFlush(r) /\ t.pc = s.pc /\ t.pending = 0 /\ t.full = s.full
                           /\ t.visible = (s.visible \/ s.pending > 0)
  BY <1>1, FlushTypes
<1>2. CASE s.pending = 0
  <2>1. Flushed(r) = bubbles /\ AfterFlush(r).visible = s.visible
    BY <1>1, <1>2 DEF Flushed
  <2>. QED
    BY <1>1, <1>2, <2>1 DEF Assembled
<1>3. CASE s.pending # 0 /\ s.visible
  <2>1. PICK o \in bubbles : Of(bubbles, r) = {o} /\ o.text + s.pending = s.full
    BY <1>3 DEF Assembled
  <2>2. PICK b \in Bubble : b = [o EXCEPT !.text = o.text + s.pending]
    <3>1. o \in Bubble /\ o.text + s.pending \in Nat
      BY <1>1, <2>1 DEF UiTypes
    <3>. QED
      BY <3>1 DEF Bubble
  <2>3. b.text = s.full /\ b.kind = "ira" /\ b.run = r
    <3>1. o \in Bubble /\ o.kind = "ira" /\ o.run = r
      BY <2>1 DEF UiTypes, Of
    <3>. QED
      BY <2>1, <2>2, <3>1 DEF Bubble
  <2>4. Flushed(r) = (bubbles \ {o}) \cup {b}
    BY <1>3, <2>1, <2>2 DEF Flushed, Shown, Of
  <2>5. Of(Flushed(r), r) = {b}
    BY <2>1, <2>3, <2>4 DEF Of
  <2>. QED
    <3>1. t.visible /\ b.text + t.pending = t.full /\ b \in Flushed(r)
      <4>1. t.visible
        BY <1>0, <1>3
      <4>2. b.text + t.pending = t.full
        BY <1>0, <1>1, <2>3
      <4>3. b \in Flushed(r)
        BY <2>4
      <4>. QED
        BY <4>1, <4>2, <4>3
    <3>2. Assembled(t, Flushed(r), r)
      BY <1>0, <2>5, <3>1 DEF Assembled
    <3>. QED
      BY <1>0, <3>2
<1>4. CASE s.pending # 0 /\ ~s.visible
  <2>1. Of(bubbles, r) = {} /\ s.full = s.pending
    BY <1>4 DEF Assembled
  <2>2. PICK b \in Bubble : b = [Said(s.chat, "ira", r) EXCEPT !.text = s.pending]
    <3>1. r \in Nat /\ s.chat \in Nat /\ s.pending \in Nat
      BY DEF Replying
    <3>2. PICK n \in Bubble : n = Said(s.chat, "ira", r)
      BY <3>1 DEF Said, Bubble
    <3>3. [n EXCEPT !.text = s.pending] \in Bubble
      BY <3>1 DEF Bubble
    <3>. QED
      BY <3>2, <3>3
  <2>3. Flushed(r) = bubbles \cup {b} /\ b.text = s.pending /\ b.kind = "ira" /\ b.run = r
    BY <1>4, <2>2 DEF Flushed, Shown, Said
  <2>4. Of(Flushed(r), r) = {b}
    BY <2>1, <2>3 DEF Of
  <2>. QED
    <3>1. t.visible /\ b.text + t.pending = t.full /\ b \in Flushed(r)
      <4>1. t.visible
        <5>1. s.pending > 0
          BY <1>1, <1>4
        <5>. QED
          BY <1>0, <5>1
      <4>2. b.text + t.pending = t.full
        BY <1>0, <1>1, <2>1, <2>3
      <4>3. b \in Flushed(r)
        BY <2>3
      <4>. QED
        BY <4>1, <4>2, <4>3
    <3>2. Assembled(t, Flushed(r), r)
      BY <1>0, <2>4, <3>1 DEF Assembled
    <3>. QED
      BY <1>0, <3>2
<1>. QED
  BY <1>2, <1>3, <1>4

\* What a stream does, of which only the last run is heeded.
LEMMA StreamSteps ==
  ASSUME UiTypes, NEW r \in 1..MaxRuns, Stream(r)
  PROVE  /\ UNCHANGED <<server, shown, run, calls, sessions, loads, overtaken>>
         /\ streams[r] \in Replying
         /\ \E t \in Replying \cup {NoStream} :
              /\ streams' = [streams EXCEPT ![r] = t]
              /\ t # NoStream => t.chat = streams[r].chat
              /\ t # NoStream /\ r = run /\ Assembled(streams[r], bubbles, r) => Assembled(t, bubbles', r)
         /\ bubbles' \in SUBSET Bubble
         /\ r # run => bubbles' = bubbles
         /\ \A b \in bubbles' :
              b \in bubbles \/ (b.run = r /\ (b.chat = streams[r].chat \/ \E o \in Of(bubbles, r) : o.chat = b.chat))
<1>1. PICK s \in Replying : s = streams[r]
  BY StreamTypes DEF Stream, Delta, Frame, Reset, McpUsed, StreamDone, ListAfter, StreamFails, Heeded, IsOpen
<1>2. UNCHANGED <<server, shown, run, calls, sessions, loads, overtaken>>
  BY DEF Stream, Delta, Frame, Reset, McpUsed, StreamDone, ListAfter, StreamFails
<1>3. \A t : (streams' = [streams EXCEPT ![r] = t]) => streams'[r] = t
  BY DEF UiTypes
<1>4. s.pending \in Nat /\ s.full \in Nat /\ s.left \in Nat /\ s.visible \in BOOLEAN /\ s.chat \in Nat /\ s.pc \in {"open", "list"} /\ r \in Nat
  BY DEF Replying
<1>5. CASE Delta(r)
  <2>1. PICK t : t = [s EXCEPT !.left = s.left - 1, !.pending = s.pending + 1, !.full = s.full + 1, !.frame = TRUE]
    OBVIOUS
  <2>2. s.left > 0 /\ s.pc = "open" /\ streams' = [streams EXCEPT ![r] = t] /\ bubbles' = bubbles
    BY <1>1, <1>5, <2>1 DEF Delta, UiTypes, Heeded, IsOpen
  <2>3. t \in Replying /\ t.chat = s.chat /\ t.visible = s.visible /\ t.pc = "open"
        /\ t.pending = s.pending + 1 /\ t.full = s.full + 1
    <3>1. PICK t1 \in Replying : /\ t1 = [s EXCEPT !.left = s.left - 1]
                                /\ t1.chat = s.chat /\ t1.pc = s.pc /\ t1.full = s.full /\ t1.pending = s.pending
                                /\ t1.visible = s.visible
      <4>1. s.left - 1 \in Nat
        BY <1>4, <2>2
      <4>. QED
        BY <4>1, SetLeft
    <3>2. PICK t2 \in Replying : /\ t2 = [t1 EXCEPT !.pending = s.pending + 1]
                                /\ t2.chat = s.chat /\ t2.pc = s.pc /\ t2.full = s.full /\ t2.pending = s.pending + 1
                                /\ t2.visible = s.visible
      <4>1. s.pending + 1 \in Nat
        BY <1>4
      <4>. QED
        <5>1. /\ [t1 EXCEPT !.pending = s.pending + 1] \in Replying /\ [t1 EXCEPT !.pending = s.pending + 1].pending = s.pending + 1
              /\ [t1 EXCEPT !.pending = s.pending + 1].pc = t1.pc
              /\ [t1 EXCEPT !.pending = s.pending + 1].chat = t1.chat
              /\ [t1 EXCEPT !.pending = s.pending + 1].full = t1.full
              /\ [t1 EXCEPT !.pending = s.pending + 1].visible = t1.visible
              /\ [t1 EXCEPT !.pending = s.pending + 1].left = t1.left
          BY <4>1, SetPending
        <5>. QED
          BY <3>1, <5>1
    <3>3. PICK t3 \in Replying : /\ t3 = [t2 EXCEPT !.full = s.full + 1]
                                /\ t3.chat = s.chat /\ t3.pc = s.pc /\ t3.full = s.full + 1
                                /\ t3.pending = s.pending + 1 /\ t3.visible = s.visible
      <4>1. s.full + 1 \in Nat
        BY <1>4
      <4>. QED
        <5>1. /\ [t2 EXCEPT !.full = s.full + 1] \in Replying /\ [t2 EXCEPT !.full = s.full + 1].full = s.full + 1
              /\ [t2 EXCEPT !.full = s.full + 1].pc = t2.pc
              /\ [t2 EXCEPT !.full = s.full + 1].chat = t2.chat
              /\ [t2 EXCEPT !.full = s.full + 1].pending = t2.pending
              /\ [t2 EXCEPT !.full = s.full + 1].visible = t2.visible
              /\ [t2 EXCEPT !.full = s.full + 1].left = t2.left
          BY <4>1, SetFull
        <5>. QED
          BY <3>2, <5>1
    <3>4. PICK t4 \in Replying : /\ t4 = [t3 EXCEPT !.frame = TRUE]
                                /\ t4.chat = s.chat /\ t4.pc = s.pc /\ t4.full = s.full + 1
                                /\ t4.pending = s.pending + 1 /\ t4.visible = s.visible
      <4>1. /\ [t3 EXCEPT !.frame = TRUE] \in Replying /\ [t3 EXCEPT !.frame = TRUE].frame = TRUE
            /\ [t3 EXCEPT !.frame = TRUE].pc = t3.pc
            /\ [t3 EXCEPT !.frame = TRUE].chat = t3.chat
            /\ [t3 EXCEPT !.frame = TRUE].full = t3.full
            /\ [t3 EXCEPT !.frame = TRUE].pending = t3.pending
            /\ [t3 EXCEPT !.frame = TRUE].visible = t3.visible
            /\ [t3 EXCEPT !.frame = TRUE].left = t3.left
        BY SetFrame
      <4>. QED
        BY <3>3, <4>1
    <3>5. t = t4
      BY <2>1, <3>1, <3>2, <3>3, <3>4
    <3>. QED
      BY <2>2, <3>4, <3>5
  <2>4. Assembled(s, bubbles, r) => Assembled(t, bubbles, r)
    <3>1. \A b \in bubbles : b.text \in Nat
      BY DEF UiTypes, Bubble
    <3>. QED
      BY <1>4, <2>3, <3>1 DEF Assembled
  <2>. QED
    BY <1>1, <1>2, <2>2, <2>3, <2>4 DEF UiTypes
<1>6. CASE Frame(r) \/ StreamDone(r)
  <2>1. bubbles' = Flushed(r)
    BY <1>6 DEF Frame, StreamDone
  <2>2. PICK t \in Replying : /\ streams' = [streams EXCEPT ![r] = t] /\ t.chat = s.chat
                              /\ t.pending = 0 /\ t.visible = AfterFlush(r).visible /\ t.full = AfterFlush(r).full
    <3>1. CASE Frame(r)
      BY ZenonT(60), <1>1, <3>1, FlushTypes DEF Frame
    <3>2. CASE StreamDone(r)
      <4>1. PICK u \in Replying : u = AfterFlush(r) /\ u.chat = s.chat /\ u.pending = 0
        BY <1>1, FlushTypes
      <4>2. /\ [u EXCEPT !.pc = "list"] \in Replying /\ [u EXCEPT !.pc = "list"].chat = s.chat
            /\ [u EXCEPT !.pc = "list"].pending = 0 /\ [u EXCEPT !.pc = "list"].visible = u.visible
            /\ [u EXCEPT !.pc = "list"].full = u.full
        BY <4>1 DEF Replying
      <4>. QED
        BY <3>2, <4>1, <4>2 DEF StreamDone
    <3>. QED
      BY <1>6, <3>1, <3>2
  <2>3. ASSUME r = run, Assembled(s, bubbles, r) PROVE Assembled(t, bubbles', r)
    <3>1. Assembled(AfterFlush(r), Flushed(r), r) /\ AfterFlush(r).pending = 0
      BY <1>1, <2>3, FlushAssembles, FlushTypes
    <3>. QED
      BY <2>1, <2>2, <3>1 DEF Assembled
  <2>4. /\ bubbles' \in SUBSET Bubble /\ (r # run => bubbles' = bubbles)
        /\ \A b \in bubbles' :
              b \in bubbles \/ (b.run = r /\ (b.chat = s.chat \/ \E o \in Of(bubbles, r) : o.chat = b.chat))
    BY <1>1, <2>1, FlushTypes
  <2>. QED
    <3>1. t \in Replying \cup {NoStream} /\ t.chat = streams[r].chat
          /\ (r = run /\ Assembled(streams[r], bubbles, r) => Assembled(t, bubbles', r))
      BY <1>1, <2>2, <2>3
    <3>2. \E u \in Replying \cup {NoStream} :
              /\ streams' = [streams EXCEPT ![r] = u]
              /\ u # NoStream => u.chat = streams[r].chat
              /\ u # NoStream /\ r = run /\ Assembled(streams[r], bubbles, r) => Assembled(u, bubbles', r)
      BY <2>2, <3>1
    <3>3. streams[r] \in Replying /\ streams[r].chat = s.chat
      BY <1>1
    <3>. QED
      BY <1>2, <2>4, <3>2, <3>3
<1>7. CASE Reset(r)
  <2>1. PICK t : t = [s EXCEPT !.full = 0, !.visible = FALSE, !.pending = 0, !.frame = FALSE]
    OBVIOUS
  <2>2. s.pc = "open" /\ streams' = [streams EXCEPT ![r] = t] /\ bubbles' = bubbles \ Of(bubbles, r) /\ r = run
    BY <1>1, <1>7, <2>1 DEF Reset, ResetReply, Heeded, IsOpen, Reply, Of
  <2>3. t \in Replying /\ t.chat = s.chat /\ t.visible = FALSE /\ t.pc = "open" /\ t.pending = 0 /\ t.full = 0
    BY <1>4, <2>1, <2>2 DEF Replying
  <2>4. Assembled(t, bubbles', r)
    BY <2>2, <2>3 DEF Assembled, Of
  <2>. QED
    BY <1>1, <1>2, <2>2, <2>3, <2>4 DEF UiTypes
<1>8. CASE McpUsed(r)
  <2>1. PICK t : t = [s EXCEPT !.visible = TRUE]
    OBVIOUS
  <2>2. PICK n \in Bubble : n = Said(s.chat, "ira", r)
    BY <1>4 DEF Said, Bubble
  <2>3. /\ s.pc = "open" /\ streams' = [streams EXCEPT ![r] = t] /\ r = run
        /\ bubbles' = IF Of(bubbles, r) # {} THEN bubbles ELSE bubbles \cup {n}
    BY <1>1, <1>8, <2>1, <2>2 DEF McpUsed, Heeded, IsOpen, Reply, Of, UiTypes
  <2>4. t \in Replying /\ t.chat = s.chat /\ t.visible = TRUE /\ t.pc = "open" /\ t.pending = s.pending /\ t.full = s.full
    BY <1>4, <2>1, <2>3 DEF Replying
  <2>5. n.kind = "ira" /\ n.run = r /\ n.text = 0 /\ n.chat = s.chat
    BY <2>2 DEF Said
  <2>6. ASSUME Assembled(s, bubbles, r) PROVE Assembled(t, bubbles', r)
    <3>1. CASE s.visible
      <4>1. Of(bubbles, r) # {}
        BY <2>6, <3>1 DEF Assembled
      <4>. QED
        BY <2>3, <2>4, <2>6, <3>1, <4>1 DEF Assembled
    <3>2. CASE ~s.visible
      <4>1. Of(bubbles, r) = {} /\ s.full = s.pending
        BY <2>6, <3>2 DEF Assembled
      <4>2. Of(bubbles', r) = {n} /\ n \in bubbles'
        BY <2>3, <2>5, <4>1 DEF Of
      <4>. QED
        BY <1>4, <2>4, <2>5, <4>1, <4>2 DEF Assembled
    <3>. QED
      BY <3>1, <3>2
  <2>7. /\ bubbles' \in SUBSET Bubble
        /\ \A b \in bubbles' : b \in bubbles \/ (b.run = r /\ b.chat = s.chat)
    BY <2>3, <2>5 DEF UiTypes
  <2>. QED
    BY <1>1, <1>2, <2>3, <2>4, <2>6, <2>7
<1>9. CASE ListAfter(r)
  BY <1>1, <1>2, <1>9 DEF ListAfter, UiTypes
<1>10. CASE StreamFails(r)
  <2>1. PICK n \in Bubble : n = Said(s.chat, "error", r)
    BY <1>4 DEF Said, Bubble
  <2>2. n.run = r /\ n.chat = s.chat
    BY <2>1 DEF Said
  <2>3. /\ streams' = [streams EXCEPT ![r] = NoStream]
        /\ bubbles' \subseteq bubbles \cup {n} /\ (r # run => bubbles' = bubbles)
    BY <1>1, <1>10, <2>1 DEF StreamFails
  <2>. QED
    BY <1>1, <1>2, <2>2, <2>3 DEF UiTypes
<1>. QED
  BY <1>5, <1>6, <1>7, <1>8, <1>9, <1>10 DEF Stream

\* No stream is of a run to come.
FutureRuns == \A r \in 1..MaxRuns : r > run => streams[r] = NoStream

\* Who waits for the server in the last run sent nothing in it.
CallsWait ==
  \A k \in calls : k.kind \in {"new", "open"} =>
    k.run <= run /\ k.run > 0 /\ (k.run = run => streams[run] = NoStream)

\* Nothing is sent without a conversation.
NoTalkYet == shown = 0 => \A r \in 1..MaxRuns : streams[r] = NoStream

\* No reply is of a run to come.
RepliesOfRuns == \A b \in bubbles : b.kind = "ira" => b.run <= run

\* The reply of the last run is for the conversation that is shown, which holds what was flushed of it.
CurrentReply ==
  ~overtaken /\ run > 0 /\ streams[run] # NoStream =>
    streams[run].chat = shown /\ Assembled(streams[run], bubbles, run)

\* The inductive invariant of the page.
ViewInv ==
  UiTypes /\ FutureRuns /\ CallsWait /\ NoTalkYet /\ RepliesOfRuns /\ CurrentReply /\ ShownBelongs

\* What keeps apart the runs.
Places == FutureRuns /\ CallsWait /\ NoTalkYet /\ RepliesOfRuns

\* What happens beside the conversation leaves the reply of the last run as it was.
LEMMA AsideKeeps ==
  ASSUME ViewInv, Aside
  PROVE  Places' /\ CurrentReply' /\ ShownBelongs'
<1>1. Places'
  BY DEF ViewInv, Aside, Places, FutureRuns, CallsWait, NoTalkYet, RepliesOfRuns
<1>2. ShownBelongs'
  BY DEF ViewInv, Aside, ShownBelongs, Written
<1>3. CurrentReply'
  <2>1. Of(bubbles', run) = Of(bubbles, run)
    BY DEF Aside, Of
  <2>2. bubbles \subseteq bubbles' /\ UNCHANGED <<run, shown, streams, overtaken>>
    BY DEF Aside
  <2>3. Assembled(streams[run], bubbles, run) => Assembled(streams[run], bubbles', run)
    BY <2>1, <2>2 DEF Assembled
  <2>. QED
    BY <2>2, <2>3 DEF ViewInv, CurrentReply
<1>. QED
  BY <1>1, <1>2, <1>3

\* A new run has no stream yet, and the one before it stops being the last.
LEMMA LeavesKeep ==
  ASSUME ViewInv, Leaves
  PROVE  Places' /\ CurrentReply' /\ ShownBelongs'
<1>1. run \in Nat /\ MaxRuns \in Nat /\ run' = run + 1 /\ run + 1 \in 1..MaxRuns
      /\ UNCHANGED <<shown, bubbles, streams, overtaken>>
  BY UiAssumption DEF ViewInv, UiTypes, Leaves
<1>2. streams[run + 1] = NoStream
  BY <1>1 DEF ViewInv, FutureRuns
<1>3. \A k \in calls : k.run \in Nat
  BY DEF ViewInv, UiTypes, UnderWay
<1>4. \A b \in bubbles : b.run \in Nat
  BY DEF ViewInv, UiTypes, Bubble
<1>5. FutureRuns' /\ NoTalkYet'
  BY <1>1 DEF ViewInv, FutureRuns, NoTalkYet
<1>6. CallsWait'
  BY <1>1, <1>2, <1>3 DEF ViewInv, CallsWait, Leaves
<1>7. RepliesOfRuns'
  BY <1>1, <1>4 DEF ViewInv, RepliesOfRuns
<1>8. CurrentReply' /\ ShownBelongs'
  BY <1>1, <1>2 DEF ViewInv, CurrentReply, ShownBelongs, Written
<1>. QED
  BY <1>5, <1>6, <1>7, <1>8 DEF Places

\* An answer that replaces the conversation is of a run that sent nothing, or it overtakes.
LEMMA LandsKeep ==
  ASSUME ViewInv, Lands
  PROVE  Places' /\ CurrentReply' /\ ShownBelongs'
<1>1. UNCHANGED <<run, streams>> /\ calls' \subseteq calls /\ shown' # 0 /\ run \in 0..MaxRuns /\ MaxRuns \in Nat
  BY UiAssumption DEF Lands, ViewInv, UiTypes
<1>2. \A b \in bubbles' : b.kind = "stored" /\ b.chat = shown'
  BY DEF Lands
<1>3. Places'
  BY <1>1, <1>2 DEF ViewInv, Places, FutureRuns, CallsWait, NoTalkYet, RepliesOfRuns
<1>4. ShownBelongs'
  BY <1>2 DEF ShownBelongs, Written
<1>5. ASSUME ~overtaken', run > 0 PROVE streams[run] = NoStream
  <2>1. run \in 1..MaxRuns
    BY <1>1, <1>5
  <2>2. CASE overtaken' = (overtaken \/ shown # 0)
    BY <1>5, <2>1, <2>2 DEF ViewInv, NoTalkYet
  <2>3. CASE \E k \in calls : k.kind \in {"new", "open"} /\ k.run = run
    BY <2>3 DEF ViewInv, CallsWait
  <2>. QED
    BY <2>2, <2>3 DEF Lands
<1>6. CurrentReply'
  BY <1>1, <1>5 DEF CurrentReply
<1>. QED
  BY <1>3, <1>4, <1>6

\* A message opens the stream of its run in the conversation that is shown.
LEMMA SendKeeps ==
  ASSUME ViewInv, Send
  PROVE  Places' /\ CurrentReply' /\ ShownBelongs'
<1>1. run \in Nat /\ MaxRuns \in Nat /\ run' = run + 1 /\ run + 1 \in 1..MaxRuns /\ shown # 0
      /\ UNCHANGED <<shown, calls, overtaken>>
  BY UiAssumption DEF ViewInv, UiTypes, Send
<1>2. PICK s : /\ s = [pc |-> "open", chat |-> shown, full |-> 0, pending |-> 0, frame |-> FALSE,
                       visible |-> FALSE, left |-> MaxDeltas]
               /\ streams' = [streams EXCEPT ![run + 1] = s]
  BY DEF Send
<1>3. streams'[run + 1] = s /\ \A r \in 1..MaxRuns : r # run + 1 => streams'[r] = streams[r]
  BY <1>1, <1>2 DEF ViewInv, UiTypes
<1>4. PICK n : n = Said(shown, "user", run + 1) /\ bubbles' = bubbles \cup {n}
  BY DEF Send
<1>5. n.kind = "user" /\ n.chat = shown
  BY <1>4 DEF Said
<1>6. \A k \in calls : k.run \in Nat
  BY DEF ViewInv, UiTypes, UnderWay
<1>7. \A b \in bubbles : b.run \in Nat
  BY DEF ViewInv, UiTypes, Bubble
<1>8. FutureRuns' /\ NoTalkYet'
  BY <1>1, <1>3 DEF ViewInv, FutureRuns, NoTalkYet
<1>9. CallsWait'
  BY <1>1, <1>6 DEF ViewInv, CallsWait
<1>10. RepliesOfRuns'
  BY <1>1, <1>4, <1>5, <1>7 DEF ViewInv, RepliesOfRuns
<1>11. ShownBelongs'
  BY <1>1, <1>4, <1>5 DEF ViewInv, ShownBelongs, Written
<1>12. Of(bubbles', run + 1) = {}
  BY <1>1, <1>4, <1>5, <1>7 DEF Of, ViewInv, RepliesOfRuns
<1>13. Assembled(s, bubbles', run + 1) /\ s.chat = shown
  BY <1>2, <1>12 DEF Assembled
<1>14. CurrentReply'
  BY <1>1, <1>3, <1>13 DEF CurrentReply
<1>. QED
  BY <1>8, <1>9, <1>10, <1>11, <1>14 DEF Places

\* A stream writes only while its run is the last one.
LEMMA StreamKeeps ==
  ASSUME ViewInv, NEW r \in 1..MaxRuns, Stream(r)
  PROVE  ViewInv'
<1>0. UiTypes
  BY DEF ViewInv
<1>1. PICK t \in Replying \cup {NoStream} :
        /\ streams' = [streams EXCEPT ![r] = t]
        /\ t # NoStream => t.chat = streams[r].chat
        /\ t # NoStream /\ r = run /\ Assembled(streams[r], bubbles, r) => Assembled(t, bubbles', r)
  BY <1>0, StreamSteps
<1>2. /\ UNCHANGED <<server, shown, run, calls, sessions, loads, overtaken>>
      /\ streams[r] \in Replying /\ bubbles' \in SUBSET Bubble
      /\ r # run => bubbles' = bubbles
      /\ \A b \in bubbles' :
           b \in bubbles \/ (b.run = r /\ (b.chat = streams[r].chat \/ \E o \in Of(bubbles, r) : o.chat = b.chat))
  BY <1>0, StreamSteps
<1>3. streams'[r] = t /\ \A q \in 1..MaxRuns : q # r => streams'[q] = streams[q]
  BY <1>0, <1>1 DEF UiTypes
<1>4. streams[r] # NoStream
  BY <1>0, <1>2, StreamTypes
<1>5. UiTypes'
  BY <1>0, <1>1, <1>2 DEF UiTypes
<1>6. MaxRuns \in Nat /\ run \in 0..MaxRuns /\ r \in Nat /\ r <= run
  BY <1>0, <1>4, UiAssumption DEF ViewInv, FutureRuns, UiTypes
<1>7. FutureRuns'
  BY <1>2, <1>3, <1>6 DEF ViewInv, FutureRuns
<1>8. CallsWait'
  <2> SUFFICES ASSUME NEW k \in calls, k.kind \in {"new", "open"}
               PROVE  k.run <= run /\ k.run > 0 /\ (k.run = run => streams'[run] = NoStream)
    BY <1>2 DEF CallsWait
  <2>1. k.run <= run /\ k.run > 0 /\ (k.run = run => streams[run] = NoStream)
    BY DEF ViewInv, CallsWait
  <2>2. k.run = run => run # r /\ run \in 1..MaxRuns
    BY <1>4, <1>6, <2>1
  <2>. QED
    BY <1>3, <2>1, <2>2
<1>9. shown # 0 /\ NoTalkYet'
  BY <1>2, <1>4 DEF ViewInv, NoTalkYet
<1>10. RepliesOfRuns'
  BY <1>2, <1>6 DEF ViewInv, RepliesOfRuns
<1>11. CASE r = run
  <2>1. ~overtaken => streams[r].chat = shown /\ Assembled(streams[r], bubbles, r)
    BY <1>4, <1>6, <1>11 DEF ViewInv, CurrentReply
  <2>2. CurrentReply'
    BY <1>1, <1>2, <1>3, <1>11, <2>1 DEF CurrentReply
  <2>3. ASSUME ~overtaken, NEW b \in Written' PROVE b.chat = shown
    <3>1. CASE b \in bubbles
      BY <2>3, <3>1 DEF ViewInv, ShownBelongs, Written
    <3>2. CASE \E o \in Of(bubbles, r) : o.chat = b.chat
      BY <2>3, <3>2 DEF ViewInv, ShownBelongs, Written, Of
    <3>3. CASE b.chat = streams[r].chat
      BY <2>1, <2>3, <3>3
    <3>4. b \in bubbles'
      BY DEF Written
    <3>. QED
      BY <1>2, <3>1, <3>2, <3>3, <3>4
  <2>4. ShownBelongs'
    BY <1>2, <2>3 DEF ShownBelongs
  <2>. QED
    BY <1>5, <1>7, <1>8, <1>9, <1>10, <2>2, <2>4 DEF ViewInv
<1>12. CASE r # run
  <2>1. run > 0 => streams'[run] = streams[run]
    BY <1>3, <1>6, <1>12
  <2>2. CurrentReply' /\ ShownBelongs'
    BY <1>2, <1>12, <2>1 DEF ViewInv, CurrentReply, ShownBelongs, Written
  <2>. QED
    BY <1>5, <1>7, <1>8, <1>9, <1>10, <2>2 DEF ViewInv
<1>. QED
  BY <1>11, <1>12

\* The invariant of the page.
LEMMA ViewIsKept == UiSpec => []ViewInv
<1>1. UiInit => ViewInv
  <2> SUFFICES ASSUME UiInit PROVE ViewInv
    OBVIOUS
  <2>1. [kind |-> "load", run |-> 0, chat |-> 0] \in UnderWay
    BY DEF UnderWay, Errands
  <2>2. NoSession \in VoiceSession
    BY DEF NoSession, VoiceSession
  <2>3. MaxRuns \in Nat
    BY UiAssumption
  <2>4. UiTypes
    <3>1. server.made \in Nat /\ server.live \in SUBSET (Nat \ {0})
      <4>1. PICK n \in 0..1 : server = [made |-> n, live |-> 1..n]
        BY DEF UiInit
      <4>2. server.made = n /\ server.live = 1..n
        BY <4>1
      <4>. QED
        BY <4>2
    <3>2. calls \in SUBSET UnderWay /\ \A k \in calls : k.kind = "open" => k.chat # 0
      BY <2>1 DEF UiInit
    <3>3. streams \in [1..MaxRuns -> {NoStream} \cup Replying]
      BY DEF UiInit
    <3>4. sessions \in [1..MaxSessions -> VoiceSession]
      BY <2>2 DEF UiInit
    <3>5. run \in 0..MaxRuns
      BY <2>3 DEF UiInit
    <3>6. shown \in Nat /\ bubbles \in SUBSET Bubble /\ loads \in Nat /\ overtaken \in BOOLEAN
      BY DEF UiInit
    <3>. QED
      BY <3>1, <3>2, <3>3, <3>4, <3>5, <3>6 DEF UiTypes
  <2>5. FutureRuns /\ CallsWait /\ NoTalkYet /\ RepliesOfRuns /\ CurrentReply /\ ShownBelongs
    BY DEF UiInit, FutureRuns, CallsWait, NoTalkYet, RepliesOfRuns, CurrentReply, ShownBelongs, Written
  <2>. QED
    BY <2>4, <2>5 DEF ViewInv
<1>2. ViewInv /\ [UiNext]_uiVars => ViewInv'
  <2> SUFFICES ASSUME ViewInv, [UiNext]_uiVars PROVE ViewInv'
    OBVIOUS
  <2>1. CASE \E r \in 1..MaxRuns : Stream(r)
    BY <2>1, StreamKeeps
  <2>2. CASE ~\E r \in 1..MaxRuns : Stream(r)
    <3>1. UiTypes' /\ (Aside \/ Leaves \/ Lands \/ Send)
      BY <2>2, UiTypesStep, ViewMoves DEF ViewInv
    <3>2. Places' /\ CurrentReply' /\ ShownBelongs'
      BY <3>1, AsideKeeps, LeavesKeep, LandsKeep, SendKeeps
    <3>. QED
      BY <3>1, <3>2 DEF ViewInv, Places
  <2>. QED
    BY <2>1, <2>2
<1>. QED
  BY <1>1, <1>2, PTL DEF UiSpec

\* Everything written on the screen belongs to the conversation that is open: a late answer, a late
\* delta or a frame drawn late never writes into another one (chatRunRef of App.tsx), unless a load
\* replaced the conversation the user was in.
THEOREM ViewIsOwn == UiSpec => []ShownBelongs
<1>1. ViewInv => ShownBelongs
  BY DEF ViewInv
<1>. QED
  BY <1>1, ViewIsKept, PTL

\* When a reply has arrived in the view that asked for it, the view shows all of it and nothing of
\* what a reset took back, however frames, deltas, resets and tools overlap (send of App.tsx).
THEOREM RepliesAreWhole == UiSpec => []ReplyIsWhole
<1>1. ViewInv => ReplyIsWhole
  <2> SUFFICES ASSUME ViewInv, run > 0, ~overtaken, streams[run].pc = "list"
               PROVE  {b.text : b \in Reply(run)} \ {0} = {streams[run].full} \ {0}
    BY DEF ReplyIsWhole, ViewInv, UiTypes
  <2>1. run \in 1..MaxRuns
    BY UiAssumption DEF ViewInv, UiTypes
  <2>2. PICK s \in Replying : s = streams[run]
    BY <2>1, StreamTypes DEF ViewInv
  <2>3. Assembled(s, bubbles, run) /\ s.pending = 0 /\ s.full \in Nat /\ Reply(run) = Of(bubbles, run)
    <3>1. streams[run] # NoStream
      BY <2>1, <2>2, StreamTypes DEF ViewInv
    <3>2. Assembled(s, bubbles, run)
      BY <2>2, <3>1 DEF ViewInv, CurrentReply
    <3>3. s.pending = 0
      BY <2>2, <3>2 DEF Assembled
    <3>. QED
      BY <3>2, <3>3 DEF Replying, Reply, Of
  <2>4. CASE s.visible
    <3>1. PICK b \in bubbles : Of(bubbles, run) = {b} /\ b.text + s.pending = s.full
      BY <2>3, <2>4 DEF Assembled
    <3>2. b.text = s.full
      BY <2>3, <3>1 DEF ViewInv, UiTypes, Bubble
    <3>. QED
      BY <2>2, <2>3, <3>1, <3>2
  <2>5. CASE ~s.visible
    <3>1. Of(bubbles, run) = {} /\ s.full = 0
      BY <2>3, <2>5 DEF Assembled
    <3>. QED
      BY <2>2, <2>3, <3>1
  <2>. QED
    BY <2>4, <2>5
<1>. QED
  BY <1>1, ViewIsKept, PTL

----------------------------------------------------------------------------
\* The terminal: each answer is stored behind its own question.

\* What is stored of a conversation.
Entry == {"user", "reply"} \X Nat
InTurn == {"chat", "new conversation"}

\* The type invariant of the conversation.
TalkTypes ==
  /\ stored \in Seq(Seq(Entry)) /\ talk \in 1..Len(stored)
  /\ turns \in Nat /\ flying \in Nat
  /\ replying \in BOOLEAN /\ cleared \in BOOLEAN

\* One question at a time, and no new conversation while it waits.
OneQuestion ==
  /\ pending.kind = "chat" => replying /\ flying = 0 /\ pending.id[2] \in Nat \ {0}
  /\ flying # 0 => replying
  /\ pending.kind = "new conversation" => ~replying \/ cleared

\* What the turn in the background answers is the last thing that was stored.
QuestionIsStored ==
  flying # 0 /\ ~cleared =>
    Len(stored[talk]) > 0 /\ stored[talk][Len(stored[talk])] = <<"user", flying>>

\* The inductive invariant of the terminal.
TalkInv == TalkTypes /\ OneQuestion /\ QuestionIsStored /\ AnswersFollow

\* Something is added to one conversation, and the others stay.
LEMMA SayTypes ==
  ASSUME TalkTypes, NEW what \in Entry, Say(talk, what)
  PROVE  /\ stored' \in Seq(Seq(Entry)) /\ Len(stored') = Len(stored) /\ DOMAIN stored' = 1..Len(stored)
         /\ \A c \in 1..Len(stored) : c # talk => stored'[c] = stored[c]
         /\ stored[talk] \in Seq(Entry) /\ stored'[talk] = Append(stored[talk], what)
         /\ Len(stored'[talk]) = Len(stored[talk]) + 1 /\ DOMAIN stored'[talk] = 1..(Len(stored[talk]) + 1)
         /\ \A i \in 1..Len(stored[talk]) : stored'[talk][i] = stored[talk][i]
         /\ stored'[talk][Len(stored[talk]) + 1] = what
<1>1. stored[talk] \in Seq(Entry) /\ stored \in Seq(Seq(Entry)) /\ talk \in 1..Len(stored)
  BY DEF TalkTypes
<1>2. PICK old \in Seq(Entry) : old = stored[talk]
  BY <1>1
<1>3. PICK new \in Seq(Entry) :
        /\ new = Append(old, what) /\ Len(new) = Len(old) + 1 /\ DOMAIN new = 1..(Len(old) + 1)
        /\ \A i \in 1..Len(old) : new[i] = old[i]
        /\ new[Len(old) + 1] = what
  <2>1. /\ Append(old, what) \in Seq(Entry) /\ Len(Append(old, what)) = Len(old) + 1
        /\ \A i \in 1..Len(old) : Append(old, what)[i] = old[i]
        /\ Append(old, what)[Len(old) + 1] = what
        /\ DOMAIN Append(old, what) = 1..(Len(old) + 1)
    OBVIOUS
  <2>. QED
    BY <2>1
<1>4. stored' = [stored EXCEPT ![talk] = new]
  BY <1>2, <1>3 DEF Say
<1>5. /\ stored' \in Seq(Seq(Entry)) /\ Len(stored') = Len(stored) /\ DOMAIN stored' = 1..Len(stored)
      /\ stored'[talk] = new /\ \A c \in 1..Len(stored) : c # talk => stored'[c] = stored[c]
  BY <1>1, <1>4
<1>. QED
  BY <1>1, <1>2, <1>3, <1>5

\* What is answered behind its question keeps the answers behind theirs.
LEMMA SayKeeps ==
  ASSUME TalkTypes, AnswersFollow, NEW what \in Entry, Say(talk, what),
         what[1] = "reply" => Len(stored[talk]) > 0 /\ stored[talk][Len(stored[talk])] = <<"user", what[2]>>,
         ~cleared
  PROVE  AnswersFollow'
<1>1. PICK old \in Seq(Entry), new \in Seq(Entry) :
        /\ old = stored[talk] /\ new = stored'[talk] /\ DOMAIN new = 1..(Len(old) + 1)
        /\ \A i \in 1..Len(old) : new[i] = old[i]
        /\ new[Len(old) + 1] = what
  <2>1. stored'[talk] \in Seq(Entry)
    BY SayTypes DEF TalkTypes
  <2>. QED
    BY <2>1, SayTypes
<1>2. \A i \in DOMAIN old : old[i][1] = "reply" => i > 1 /\ old[i - 1] = <<"user", old[i][2]>>
  BY <1>1 DEF AnswersFollow, TalkTypes
<1>3. ASSUME NEW i \in DOMAIN new, new[i][1] = "reply"
      PROVE  i > 1 /\ new[i - 1] = <<"user", new[i][2]>>
  <2>1. CASE i \in 1..Len(old)
    <3>1. i > 1 /\ old[i - 1] = <<"user", old[i][2]>> /\ new[i] = old[i]
      <4>1. i \in DOMAIN old /\ new[i] = old[i]
        BY <1>1, <2>1
      <4>2. old[i][1] = "reply"
        BY <1>3, <4>1
      <4>. QED
        BY <1>2, <4>1, <4>2
    <3>2. i - 1 \in 1..Len(old)
      BY <2>1, <3>1
    <3>. QED
      BY <1>1, <3>1, <3>2
  <2>2. CASE i = Len(old) + 1
    <3>1. what[1] = "reply" /\ Len(old) > 0 /\ old[Len(old)] = <<"user", what[2]>>
      BY <1>1, <1>3, <2>2
    <3>2. Len(old) \in 1..Len(old) /\ i - 1 = Len(old) /\ i > 1
      BY <2>2, <3>1
    <3>3. new[i - 1] = old[Len(old)] /\ new[i] = what
      BY <1>1, <2>2, <3>2
    <3>. QED
      BY <3>1, <3>2, <3>3
  <2>. QED
    BY <1>1, <2>1, <2>2
<1>4. \A c \in DOMAIN stored' : c # talk => c \in DOMAIN stored /\ stored'[c] = stored[c]
  <2>1. DOMAIN stored' = 1..Len(stored) /\ DOMAIN stored = 1..Len(stored)
    BY SayTypes DEF TalkTypes
  <2>2. \A c \in 1..Len(stored) : c # talk => stored'[c] = stored[c]
    BY SayTypes
  <2>. QED
    BY <2>1, <2>2
<1>5. ASSUME NEW c \in DOMAIN stored'
      PROVE  \A i \in DOMAIN stored'[c] :
               stored'[c][i][1] = "reply" => i > 1 /\ stored'[c][i - 1] = <<"user", stored'[c][i][2]>>
  <2>1. CASE c = talk
    BY <1>1, <1>3, <2>1
  <2>2. CASE c # talk
    BY <1>4, <2>2 DEF AnswersFollow
  <2>. QED
    BY <2>1, <2>2
<1>. QED
  BY <1>5 DEF AnswersFollow

\* A step that leaves the talk alone.
Quiet ==
  /\ UNCHANGED <<replying, stored, talk, flying, turns>>
  /\ pending' = pending \/ pending'.kind \notin InTurn
  /\ cleared' = cleared

\* A step outside the conversation disturbs nothing of it.
LEMMA QuietKeeps == TalkInv /\ Quiet => TalkInv'
<1> SUFFICES ASSUME TalkInv, Quiet PROVE TalkInv'
  OBVIOUS
<1>1. TalkTypes' /\ QuestionIsStored' /\ AnswersFollow'
  BY DEF TalkInv, Quiet, TalkTypes, QuestionIsStored, AnswersFollow
<1>2. OneQuestion'
  <2>1. CASE pending' = pending
    BY <2>1 DEF TalkInv, Quiet, OneQuestion
  <2>2. CASE pending'.kind \notin InTurn
    BY <2>2 DEF TalkInv, Quiet, InTurn, OneQuestion
  <2>. QED
    BY <2>1, <2>2 DEF Quiet
<1>. QED
  BY <1>1, <1>2 DEF TalkInv

\* A key on a row, or at the end of an edit, leaves the loop an edit of the catalogue to do.
LEMMA EditKeys ==
  ASSUME RowKey \/ EndEdit
  PROVE  pending' = pending \/ pending'.kind \notin InTurn
<1>1. CASE RowKey
  <2> DEFINE row == Rows(snapshot)[cursor]
  <2>1. \/ UNCHANGED pending
        \/ LeaveToLoop(IF row.kind = "provider" THEN "activate provider" ELSE "activate model", row.id)
        \/ LeaveToLoop(IF row.kind = "provider" THEN "delete provider" ELSE "delete model", row.id)
        \/ LeaveToLoop("set", row.id)
    BY <1>1, Zenon DEF RowKey, CycleOption
  <2> HIDE DEF row
  <2>2. \A k, id : LeaveToLoop(k, id) => pending'.kind = k
    BY DEF LeaveToLoop
  <2>. QED
    BY <2>1, <2>2 DEF InTurn
<1>2. CASE EndEdit
  <2>1. \/ UNCHANGED pending
        \/ LeaveToLoop(IF edit \in {"new provider", "new model"} THEN edit ELSE "set", <<ActiveProvider(snapshot), 0>>)
    BY <1>2, Zenon DEF EndEdit
  <2>2. \A k, id : LeaveToLoop(k, id) => pending'.kind = k
    BY DEF LeaveToLoop
  <2>. QED
    BY <2>1, <2>2 DEF InTurn
<1>. QED
  BY <1>1, <1>2

\* Keys, but those that ask or clear.
LEMMA Keys ==
  ASSUME TermKeys \/ ApplyEdit \/ Foreign \/ UNCHANGED termVars
  PROVE  Quiet \/ Submit \/ ApplySlash
<1> USE DEF Quiet, KeepTalk, LeaveToLoop, NothingPending, InTurn
<1>1. ASSUME NEW line \in {"", "text", "/", "/model", "/providers"}, Type(line) PROVE Quiet
  BY <1>1 DEF Type
<1>2. ASSUME NEW up \in BOOLEAN, SlashMove(up) \/ Move(up) PROVE Quiet
  BY <1>2 DEF SlashMove, Move
<1>3. CASE Tab \/ SlashEsc
  BY <1>3 DEF Tab, SlashEsc
<1>4. CASE RowKey \/ EndEdit
  BY <1>4, EditKeys DEF RowKey, EndEdit
<1>6. CASE ApplyEdit
  BY <1>6 DEF ApplyEdit
<1>7. CASE Foreign \/ UNCHANGED termVars
  BY <1>7 DEF Foreign, termVars
<1>. QED
  BY <1>1, <1>2, <1>3, <1>4, <1>6, <1>7 DEF TermKeys

\* A command of the input line may start a new conversation, or leave it as it is.
LEMMA SlashKeeps == TalkInv /\ ApplySlash => TalkInv'
<1> SUFFICES ASSUME TalkInv, ApplySlash PROVE TalkInv'
  OBVIOUS
<1>1. \/ cleared' = cleared /\ (pending' = pending \/ pending'.kind \notin InTurn)
      \/ cleared' = (cleared \/ replying) /\ pending'.kind = "new conversation"
  <2> DEFINE item == Items[ClampSlash]
  <2>1. cleared' = (cleared \/ (item.kind = "clear" /\ replying)) /\ cleared \in BOOLEAN
    BY DEF ApplySlash, TalkInv, TalkTypes
  <2>2. CASE item.kind = "model"
    <3>1. pending' = [kind |-> "activate model", id |-> item.id]
      BY <2>2 DEF ApplySlash, LeaveToLoop
    <3>. QED
      BY <2>1, <2>2, <3>1 DEF InTurn
  <2>3. CASE item.kind = "clear"
    <3>1. pending' = [kind |-> "new conversation", id |-> None]
      BY <2>3 DEF ApplySlash, LeaveToLoop
    <3>. QED
      BY <2>1, <2>3, <3>1
  <2>4. CASE item.kind \notin {"model", "clear"}
    <3>1. pending' = pending
      BY <2>4 DEF ApplySlash
    <3>. QED
      BY <2>1, <2>4, <3>1
  <2>. QED
    BY <2>2, <2>3, <2>4
<1>2. UNCHANGED <<replying, stored, talk, flying, turns>>
  BY DEF ApplySlash
<1>3. TalkTypes' /\ QuestionIsStored' /\ AnswersFollow'
  BY <1>1, <1>2 DEF TalkInv, TalkTypes, QuestionIsStored, AnswersFollow
<1>4. OneQuestion'
  BY <1>1, <1>2 DEF TalkInv, OneQuestion, InTurn, TalkTypes
<1>. QED
  BY <1>3, <1>4 DEF TalkInv

\* Enter in the input line asks a question only when none is awaited.
LEMMA SubmitKeeps == TalkInv /\ Submit => TalkInv'
<1> SUFFICES ASSUME TalkInv, Submit PROVE TalkInv'
  OBVIOUS
<1>1. UNCHANGED <<stored, talk, flying, cleared>> /\ ~replying
  BY DEF Submit, CanSubmit
<1>2. CASE UNCHANGED <<replying, pending, turns>>
  BY <1>1, <1>2, QuietKeeps DEF Quiet
<1>3. CASE replying' = TRUE /\ turns' = turns + 1 /\ pending' = [kind |-> "chat", id |-> <<0, turns + 1>>]
  <2>1. TalkTypes' /\ QuestionIsStored' /\ AnswersFollow'
    BY <1>1, <1>3 DEF TalkInv, TalkTypes, QuestionIsStored, AnswersFollow
  <2>2. pending'.kind = "chat" /\ pending'.id[2] = turns + 1 /\ turns + 1 \in Nat \ {0}
    BY <1>3 DEF TalkInv, TalkTypes
  <2>3. OneQuestion'
    BY <1>1, <1>3, <2>2 DEF TalkInv, OneQuestion
  <2>. QED
    BY <2>1, <2>3 DEF TalkInv
<1>. QED
  BY <1>2, <1>3 DEF Submit, LeaveToLoop

\* A new conversation has nothing stored and nobody waits in it.
LEMMA NewKeeps == TalkInv /\ NewConversation => TalkInv'
<1> SUFFICES ASSUME TalkInv, NewConversation PROVE TalkInv'
  OBVIOUS
<1>1. /\ pending.kind = "new conversation" /\ pending'.kind = "none"
      /\ UNCHANGED <<replying, flying, turns, cleared>>
  BY DEF NewConversation, NothingPending
<1>2. CASE UNCHANGED <<stored, talk>>
  BY <1>1, <1>2, QuietKeeps DEF Quiet, InTurn
<1>3. CASE stored' = Append(stored, <<>>) /\ talk' = Len(stored) + 1
  <2>1. stored \in Seq(Seq(Entry)) /\ <<>> \in Seq(Entry)
    BY DEF TalkInv, TalkTypes
  <2>2. /\ stored' \in Seq(Seq(Entry)) /\ Len(stored') = Len(stored) + 1 /\ DOMAIN stored' = 1..(Len(stored) + 1)
        /\ \A c \in 1..Len(stored) : stored'[c] = stored[c]
        /\ stored'[Len(stored) + 1] = <<>>
    BY <1>3, <2>1
  <2>3. TalkTypes'
    <3>1. talk' \in 1..Len(stored')
      BY <1>3, <2>1, <2>2
    <3>. QED
      BY <1>1, <2>2, <3>1 DEF TalkInv, TalkTypes
  <2>4. OneQuestion' /\ QuestionIsStored'
    BY <1>1 DEF TalkInv, OneQuestion, QuestionIsStored
  <2>5. AnswersFollow'
    <3>1. ASSUME NEW c \in DOMAIN stored', ~cleared
          PROVE  \A i \in DOMAIN stored'[c] :
                   stored'[c][i][1] = "reply" => i > 1 /\ stored'[c][i - 1] = <<"user", stored'[c][i][2]>>
      <4>1. CASE c \in 1..Len(stored)
        <5>1. c \in DOMAIN stored /\ stored'[c] = stored[c]
          BY <2>1, <2>2, <4>1
        <5>2. \A i \in DOMAIN stored[c] :
                stored[c][i][1] = "reply" => i > 1 /\ stored[c][i - 1] = <<"user", stored[c][i][2]>>
          BY <3>1, <5>1 DEF TalkInv, AnswersFollow
        <5>. QED
          BY <5>1, <5>2
      <4>2. CASE c = Len(stored) + 1
        <5>1. DOMAIN stored'[c] = {}
          BY <2>2, <4>2
        <5>. QED
          BY <5>1
      <4>. QED
        <5>1. c \in 1..Len(stored) \/ c = Len(stored) + 1
          BY <2>1, <2>2
        <5>. QED
          BY <4>1, <4>2, <5>1
    <3>. QED
      BY <1>1, <3>1 DEF AnswersFollow
  <2>. QED
    BY <2>3, <2>4, <2>5 DEF TalkInv
<1>. QED
  BY <1>2, <1>3 DEF NewConversation

\* The question is stored before the reply is awaited.
LEMMA StartKeeps == TalkInv /\ StartTurn => TalkInv'
<1> SUFFICES ASSUME TalkInv, StartTurn PROVE TalkInv'
  OBVIOUS
<1>1. /\ pending.kind = "chat" /\ pending'.kind = "none" /\ UNCHANGED <<talk, turns, cleared>>
      /\ replying /\ flying = 0 /\ pending.id[2] \in Nat \ {0} /\ TalkTypes /\ AnswersFollow
  BY DEF StartTurn, NothingPending, TalkInv, OneQuestion
<1>2. CASE replying' = FALSE /\ UNCHANGED <<stored, flying>>
  <2>1. TalkTypes' /\ OneQuestion' /\ QuestionIsStored' /\ AnswersFollow'
    BY <1>1, <1>2 DEF TalkTypes, OneQuestion, QuestionIsStored, AnswersFollow
  <2>. QED
    BY <2>1 DEF TalkInv
<1>3. CASE /\ Say(talk, <<"user", pending.id[2]>>)
           /\ (flying' = pending.id[2] /\ UNCHANGED replying) \/ (replying' = FALSE /\ UNCHANGED flying)
  <2>1. PICK what \in Entry : what = <<"user", pending.id[2]>>
    BY <1>1 DEF Entry
  <2>2. Say(talk, what) /\ what[1] # "reply"
    BY <1>3, <2>1
  <2>3. TalkTypes'
    BY <1>1, <1>3, <2>2, SayTypes DEF TalkTypes
  <2>4. OneQuestion'
    BY <1>1, <1>3 DEF OneQuestion
  <2>5. QuestionIsStored'
    <3>1. /\ Len(stored'[talk]) = Len(stored[talk]) + 1 /\ stored'[talk][Len(stored[talk]) + 1] = what
          /\ stored[talk] \in Seq(Entry)
      BY <1>1, <2>2, SayTypes
    <3>2. Len(stored[talk]) \in Nat
      BY <3>1
    <3>3. Len(stored'[talk]) > 0 /\ stored'[talk][Len(stored'[talk])] = what
      BY <3>1, <3>2
    <3>4. flying' # 0 => what = <<"user", flying'>>
      BY <1>1, <1>3, <2>1
    <3>. QED
      BY <1>1, <3>3, <3>4 DEF QuestionIsStored
  <2>6. AnswersFollow'
    <3>1. CASE cleared
      BY <1>1, <3>1 DEF AnswersFollow
    <3>. QED
      BY <1>1, <2>2, <3>1, SayKeeps
  <2>. QED
    BY <2>3, <2>4, <2>5, <2>6 DEF TalkInv
<1>. QED
  BY <1>2, <1>3 DEF StartTurn

\* The reply goes after the question it answers, or an error does.
LEMMA ReplyKeeps == TalkInv /\ TakeReply => TalkInv'
<1> SUFFICES ASSUME TalkInv, TakeReply PROVE TalkInv'
  OBVIOUS
<1>1. /\ pending.kind = "none" /\ UNCHANGED <<pending, talk, turns, cleared>>
      /\ flying # 0 /\ flying' = 0 /\ replying' = FALSE /\ Say(talk, <<"reply", flying>>)
      /\ TalkTypes /\ AnswersFollow /\ QuestionIsStored
  BY DEF TakeReply, Key, NothingPending, TalkInv, OnReply, PersistReply
<1>2. PICK what \in Entry : what = <<"reply", flying>>
  BY <1>1 DEF Entry, TalkTypes
<1>3. Say(talk, what) /\ what[2] = flying
  BY <1>1, <1>2
<1>4. TalkTypes'
  BY <1>1, <1>3, SayTypes DEF TalkTypes
<1>5. OneQuestion' /\ QuestionIsStored'
  BY <1>1 DEF OneQuestion, QuestionIsStored
<1>6. AnswersFollow'
  <2>1. CASE cleared
    BY <1>1, <2>1 DEF AnswersFollow
  <2>2. CASE ~cleared
    <3>1. Len(stored[talk]) > 0 /\ stored[talk][Len(stored[talk])] = <<"user", what[2]>>
      BY <1>1, <1>3, <2>2 DEF QuestionIsStored
    <3>. QED
      BY <1>1, <1>3, <2>2, <3>1, SayKeeps
  <2>. QED
    BY <2>1, <2>2
<1>. QED
  BY <1>4, <1>5, <1>6 DEF TalkInv

\* What is stored of a conversation is questions, each with at most its own answer behind it,
\* whatever is typed, cleared or refused meanwhile, unless the conversation is changed while an
\* answer is on its way (the loop of run: persist_user_and_context, then the answer of the turn).
THEOREM AnswersAreInPlace == TermSpec => []AnswersFollow
<1>1. TermInit => TalkInv
  <2> SUFFICES ASSUME TermInit PROVE TalkInv
    OBVIOUS
  <2>1. stored = <<<<>>>> /\ talk = 1 /\ flying = 0 /\ turns = 0 /\ cleared = FALSE /\ replying = FALSE /\ pending.kind = "none"
    BY DEF TermInit, FromStore, NothingPending
  <2>2. stored \in Seq(Seq(Entry)) /\ Len(stored) = 1 /\ stored[1] = <<>> /\ DOMAIN stored = 1..1
    BY <2>1
  <2>3. TalkTypes /\ OneQuestion /\ QuestionIsStored
    <3>1. stored \in Seq(Seq(Entry)) /\ talk \in 1..Len(stored)
      <4>1. <<>> \in Seq(Entry)
        OBVIOUS
      <4>. QED
        BY <2>1, <2>2, <4>1
    <3>. QED
      BY <2>1, <3>1 DEF TalkTypes, OneQuestion, QuestionIsStored
  <2>4. AnswersFollow
    <3>1. \A c \in DOMAIN stored : DOMAIN stored[c] = {}
      BY <2>2
    <3>. QED
      BY <3>1 DEF AnswersFollow
  <2>. QED
    BY <2>3, <2>4 DEF TalkInv
<1>2. TalkInv /\ [TermNext]_termVars => TalkInv'
  BY QuietKeeps, Keys, SubmitKeeps, SlashKeeps, NewKeeps, StartKeeps, ReplyKeeps DEF TermNext
<1>3. TalkInv => AnswersFollow
  BY DEF TalkInv
<1>. QED
  BY <1>1, <1>2, <1>3, PTL DEF TermSpec

----------------------------------------------------------------------------
\* The credentials of the provider's client.

\* At the start the one pair there is is stored and good.
LEMMA InitAuthInv == AuthInit => AuthInv
<1> SUFFICES ASSUME AuthInit PROVE AuthInv
  OBVIOUS
<1>1. /\ tokens = [access |-> 1, refresh |-> 1] /\ issued = 1 /\ usable = {1} /\ login = 0
      /\ rotates \in BOOLEAN /\ lost = FALSE /\ req = [r \in Requests |-> Resting]
  BY DEF AuthInit
<1>2. Resting \in RequestStates
  BY DEF Resting, RequestStates, NoCredentials, TokenPairs, AuthPlaces
<1>3. AuthTypeOK
  <2>1. tokens \in TokenPairs
    BY <1>1 DEF TokenPairs
  <2>2. issued \in Nat \ {0} /\ login \in Nat
    BY <1>1
  <2>3. rotates \in BOOLEAN /\ lost \in BOOLEAN
    BY <1>1
  <2>4. req \in [Requests -> RequestStates]
    BY <1>1, <1>2
  <2> QED BY <2>1, <2>2, <2>3, <2>4 DEF AuthTypeOK
<1>4. \A r \in Requests : req[r].pc = "idle" /\ req[r].cred.refresh = 0 /\ req[r].got.refresh = 0
  BY <1>1 DEF Resting, NoCredentials
<1>5. NothingIsAhead /\ NewIsGood /\ LoginIsGood /\ StoredIsGood
  BY <1>1, <1>4 DEF NothingIsAhead, NewIsGood, LoginIsGood, StoredIsGood, At
<1> QED BY <1>3, <1>5 DEF AuthInv

\* What the types say of the parts.
LEMMA Parts ==
  ASSUME AuthInv
  PROVE  /\ req \in [Requests -> RequestStates]
         /\ tokens \in TokenPairs /\ tokens.refresh \in Nat /\ login \in Nat /\ issued \in Nat \ {0}
         /\ NoCredentials \in TokenPairs /\ NoCredentials.refresh = 0
         /\ \A r \in Requests : /\ req[r].cred \in TokenPairs /\ req[r].got \in TokenPairs
                                /\ req[r].cred.refresh \in Nat /\ req[r].got.refresh \in Nat
                                /\ req[r].pc \in AuthPlaces /\ req[r].tries \in {0, 1}
<1>1. req \in [Requests -> RequestStates] /\ tokens \in TokenPairs /\ login \in Nat /\ issued \in Nat \ {0}
  BY DEF AuthInv, AuthTypeOK
<1>2. NoCredentials \in TokenPairs /\ NoCredentials.refresh = 0
  BY DEF NoCredentials, TokenPairs
<1>3. \A r \in Requests : /\ req[r].cred \in TokenPairs /\ req[r].got \in TokenPairs
                          /\ req[r].pc \in AuthPlaces /\ req[r].tries \in {0, 1}
  BY <1>1 DEF RequestStates
<1>4. \A c \in TokenPairs : c.refresh \in Nat
  BY DEF TokenPairs
<1> QED BY <1>1, <1>2, <1>3, <1>4

\* How a request's record changes.
LEMMA ToChanges ==
  ASSUME AuthInv, NEW r \in Requests, NEW p \in AuthPlaces, To(r, p)
  PROVE  /\ req' \in [Requests -> RequestStates]
         /\ \A q \in Requests \ {r} : req'[q] = req[q]
         /\ req'[r].pc = p /\ req'[r].cred = req[r].cred /\ req'[r].got = req[r].got
BY Parts DEF To, RequestStates

\* A request that takes a credential and moves on changes its own state alone.
LEMMA WithChanges ==
  ASSUME AuthInv, NEW r \in Requests, NEW p \in AuthPlaces, NEW c \in TokenPairs, With(r, p, c)
  PROVE  /\ req' \in [Requests -> RequestStates]
         /\ \A q \in Requests \ {r} : req'[q] = req[q]
         /\ req'[r].pc = p /\ req'[r].cred = c /\ req'[r].got = req[r].got
BY Parts DEF With, RequestStates

\* A request that ends forgets its credentials and changes nothing of the others.
LEMMA RestChanges ==
  ASSUME AuthInv, NEW r \in Requests, Rest(r)
  PROVE  /\ req' \in [Requests -> RequestStates]
         /\ \A q \in Requests \ {r} : req'[q] = req[q]
         /\ req'[r].pc = "idle" /\ req'[r].cred = NoCredentials /\ req'[r].got = NoCredentials
<1>1. Resting \in RequestStates /\ Resting.pc = "idle" /\ Resting.cred = NoCredentials /\ Resting.got = NoCredentials
  BY Parts DEF Resting, RequestStates, AuthPlaces
<1> QED BY <1>1, Parts DEF Rest

\* A request that moves on, neither from nor to the store, with the stored pair, its own or
\* none, changes nothing.
LEMMA QuietKeepsInv ==
  ASSUME AuthInv, NEW r \in Requests,
         UNCHANGED <<tokens, rotates, issued, usable, login, lost>>,
         req' \in [Requests -> RequestStates],
         \A q \in Requests \ {r} : req'[q] = req[q],
         req[r].pc # "save", req'[r].pc # "save",
         req'[r].cred \in {tokens, req[r].cred, NoCredentials},
         req'[r].got \in {req[r].got, NoCredentials}
  PROVE  AuthInv'
<1>1. AuthTypeOK'
  BY DEF AuthInv, AuthTypeOK
<1>2. \A q \in Requests : At(q, "save")' <=> At(q, "save")
  BY DEF At
<1>3. \A q \in Requests : At(q, "save") => OnItsWay(q)' = OnItsWay(q)
  BY DEF At, OnItsWay
<1>4. \A n : InHands(n)' => InHands(n) \/ n = 0
  BY Parts DEF InHands
<1>5. NothingIsAhead'
  BY Parts DEF AuthInv, NothingIsAhead
<1>6. NewIsGood'
  <2> SUFFICES ASSUME NEW q \in Requests, At(q, "save")
               PROVE  /\ OnItsWay(q) \in usable
                      /\ rotates => /\ ~InHands(OnItsWay(q))' /\ OnItsWay(q) # login /\ OnItsWay(q) # 0
                                    /\ \A s \in Requests \ {q} : At(s, "save") => OnItsWay(s) # OnItsWay(q)
    BY <1>2, <1>3 DEF NewIsGood, InHands
  <2>1. InHands(OnItsWay(q))' => InHands(OnItsWay(q)) \/ OnItsWay(q) = 0
    BY <1>2, <1>3, <1>4
  <2> QED BY <2>1 DEF AuthInv, NewIsGood
<1>7. LoginIsGood'
  BY <1>4 DEF AuthInv, LoginIsGood
<1>8. StoredIsGood'
  BY <1>2 DEF AuthInv, StoredIsGood
<1> QED BY <1>1, <1>5, <1>6, <1>7, <1>8 DEF AuthInv

\* The steps that neither spend nor store a token.
LEMMA WalkKeepsInv ==
  ASSUME AuthInv, NEW r \in Requests,
         \/ Authorize(r) \/ TakeLock(r) \/ LoadAgain(r) \/ RefreshRefused(r) \/ Recheck(r) \/ SendRequest(r)
  PROVE  AuthInv'
<1>1. UNCHANGED <<tokens, rotates, issued, usable, login, lost>> /\ req[r].pc # "save"
  BY DEF Authorize, TakeLock, LoadAgain, RefreshRefused, Recheck, SendRequest, Issuer, At
<1>2. \/ \E p \in AuthPlaces \ {"save"} : To(r, p)
      \/ \E p \in AuthPlaces \ {"save"} : With(r, p, tokens)
      \/ Rest(r)
      \/ req' = [req EXCEPT ![r].pc = "lock after", ![r].tries = 1]
  <2>1. CASE Authorize(r)
    BY <2>1 DEF Authorize, AuthPlaces
  <2>2. CASE TakeLock(r)
    BY <2>2 DEF TakeLock, AuthPlaces
  <2>3. CASE LoadAgain(r)
    BY <2>3 DEF LoadAgain, AuthPlaces
  <2>4. CASE RefreshRefused(r)
    BY <2>4 DEF RefreshRefused, AuthPlaces
  <2>5. CASE Recheck(r)
    BY <2>5 DEF Recheck, AuthPlaces
  <2>6. CASE SendRequest(r)
    BY <2>6 DEF SendRequest
  <2> QED BY <2>1, <2>2, <2>3, <2>4, <2>5, <2>6
<1>3. CASE \E p \in AuthPlaces \ {"save"} : To(r, p)
  BY <1>1, <1>3, ToChanges, QuietKeepsInv
<1>4. CASE \E p \in AuthPlaces \ {"save"} : With(r, p, tokens)
  BY <1>1, <1>4, Parts, WithChanges, QuietKeepsInv
<1>5. CASE Rest(r)
  BY <1>1, <1>5, RestChanges, QuietKeepsInv
<1>6. CASE req' = [req EXCEPT ![r].pc = "lock after", ![r].tries = 1]
  <2>1. /\ req' \in [Requests -> RequestStates]
        /\ \A q \in Requests \ {r} : req'[q] = req[q]
        /\ req'[r].pc = "lock after" /\ req'[r].cred = req[r].cred /\ req'[r].got = req[r].got
    BY ZenonT(60), <1>6, Parts DEF RequestStates, AuthPlaces
  <2> QED BY <1>1, <2>1, QuietKeepsInv
<1> QED BY <1>2, <1>3, <1>4, <1>5, <1>6

\* Spending the token one has leaves the ones on their way alone, and puts the new one on
\* its way or loses it.
LEMMA RefreshKeepsInv ==
  ASSUME AuthInv, NEW r \in Requests, Refresh(r)
  PROVE  AuthInv'
<1> DEFINE old == req[r].cred.refresh
           new == issued + 1
<1>0. issued \in Nat /\ issued' = new /\ old \in Nat /\ old <= issued
  BY Parts DEF Refresh, AuthInv, NothingIsAhead
<1>1. /\ old \in usable /\ usable' = IF rotates THEN (usable \ {old}) \cup {new} ELSE usable
      /\ UNCHANGED <<tokens, rotates, login>> /\ req[r].pc \in {"refresh", "refresh after"}
  BY Parts DEF Refresh
<1>2. rotates \in BOOLEAN /\ lost \in BOOLEAN
  BY DEF AuthInv, AuthTypeOK
<1>10. /\ issued' \in Nat \ {0} /\ new \in Nat \ {0} /\ issued < new /\ old < new
       /\ \A n \in Nat : n <= issued => n <= new /\ n # new
  BY <1>0
<1>3. InHands(old)
  BY DEF InHands
<1>4. \A q \in Requests : At(q, "save") => OnItsWay(q) \in usable'
  BY <1>1, <1>3 DEF AuthInv, NewIsGood
<1>5. login # 0 => login \in usable'
  BY <1>1, <1>3 DEF AuthInv, LoginIsGood
<1>6. /\ tokens.refresh <= issued /\ login <= issued
      /\ \A q \in Requests : req[q].cred.refresh <= issued /\ req[q].got.refresh <= issued
  BY DEF AuthInv, NothingIsAhead
<1>7. CASE /\ req' = [req EXCEPT ![r].pc = "save", ![r].got = [access |-> new, refresh |-> Kept(r)]]
           /\ UNCHANGED lost
  <2>1. /\ rotates => Kept(r) = new
        /\ ~rotates => Kept(r) = old
        /\ Kept(r) \in Nat /\ Kept(r) <= new
    <3>1. CASE rotates
      BY <1>0, <1>10, <3>1 DEF Kept
    <3>2. CASE ~rotates
      BY <1>0, <1>10, <3>2 DEF Kept
    <3> QED BY <3>1, <3>2
  <2>2. /\ req' \in [Requests -> RequestStates]
        /\ req'[r].pc = "save" /\ req'[r].cred = req[r].cred /\ req'[r].got.refresh = Kept(r)
        /\ \A q \in Requests \ {r} : req'[q] = req[q]
    <3>1. [access |-> new, refresh |-> Kept(r)] \in TokenPairs
      BY <1>10, <2>1 DEF TokenPairs
    <3> QED BY ZenonT(60), <1>7, <3>1, Parts DEF RequestStates, AuthPlaces
  <2>3. AuthTypeOK'
    BY <1>0, <1>1, <1>2, <1>7, <1>10, <2>2 DEF AuthInv, AuthTypeOK
  <2>4. NothingIsAhead'
    BY <1>0, <1>1, <1>6, <1>10, <2>1, <2>2, Parts DEF NothingIsAhead
  <2>5. \A n : InHands(n)' <=> InHands(n)
    BY <1>1, <2>2 DEF InHands
  <2>6. ~InHands(new) /\ new # login /\ new # 0 /\ (\A q \in Requests : OnItsWay(q) # new)
    BY <1>6, <1>10, Parts DEF InHands, OnItsWay
  <2>7. OnItsWay(r)' \in usable'
    BY <1>1, <2>1, <2>2 DEF OnItsWay
  <2>8. NewIsGood'
    <3> SUFFICES ASSUME NEW q \in Requests, At(q, "save")'
                 PROVE  /\ OnItsWay(q)' \in usable'
                        /\ rotates => /\ ~InHands(OnItsWay(q)') /\ OnItsWay(q)' # login /\ OnItsWay(q)' # 0
                                      /\ \A s \in Requests \ {q} :
                                           At(s, "save")' => OnItsWay(s)' # OnItsWay(q)'
      BY <1>1, <2>5 DEF NewIsGood, InHands
    <3>1. CASE q = r
      <4>1. rotates => OnItsWay(q)' = new
        BY <2>1, <2>2, <3>1 DEF OnItsWay
      <4>2. \A s \in Requests \ {r} : OnItsWay(s)' = OnItsWay(s)
        BY <2>2 DEF OnItsWay
      <4> QED BY <2>6, <2>7, <3>1, <4>1, <4>2
    <3>2. CASE q # r
      <4>1. At(q, "save") /\ OnItsWay(q)' = OnItsWay(q)
        BY <2>2, <3>2 DEF At, OnItsWay
      <4>2. rotates => OnItsWay(r)' = new
        BY <2>1, <2>2 DEF OnItsWay
      <4>3. \A s \in Requests \ {r} : OnItsWay(s)' = OnItsWay(s) /\ (At(s, "save")' <=> At(s, "save"))
        BY <2>2 DEF OnItsWay, At
      <4>4. rotates => /\ ~InHands(OnItsWay(q)) /\ OnItsWay(q) # login /\ OnItsWay(q) # 0
                       /\ \A s \in Requests \ {q} : At(s, "save") => OnItsWay(s) # OnItsWay(q)
        BY <4>1 DEF AuthInv, NewIsGood
      <4> QED BY <1>4, <2>6, <4>1, <4>2, <4>3, <4>4
    <3> QED BY <3>1, <3>2
  <2>9. LoginIsGood' /\ StoredIsGood'
    <3>1. At(r, "save")'
      BY <2>2 DEF At
    <3>2. login # 0 /\ rotates => ~InHands(login)
      BY DEF AuthInv, LoginIsGood
    <3> QED BY <1>1, <1>5, <2>5, <3>1, <3>2 DEF LoginIsGood, StoredIsGood, InHands
  <2> QED BY <2>3, <2>4, <2>8, <2>9 DEF AuthInv
<1>8. CASE lost' = TRUE /\ (To(r, "recheck") \/ Rest(r))
  <2>1. /\ req' \in [Requests -> RequestStates]
        /\ req'[r].pc # "save" /\ req'[r].cred \in {req[r].cred, NoCredentials}
        /\ req'[r].got \in {req[r].got, NoCredentials}
        /\ \A q \in Requests \ {r} : req'[q] = req[q]
    <3>1. "recheck" \in AuthPlaces
      BY DEF AuthPlaces
    <3> QED BY <1>8, <3>1, ToChanges, RestChanges
  <2>2. AuthTypeOK'
    BY <1>0, <1>1, <1>2, <1>8, <1>10, <2>1 DEF AuthInv, AuthTypeOK
  <2>3. NothingIsAhead'
    <3>1. tokens'.refresh <= issued' /\ login' <= issued'
      BY <1>0, <1>1, <1>6, <1>10, Parts
    <3>2. \A q \in Requests : /\ req'[q].cred.refresh \in Nat /\ req'[q].cred.refresh <= issued
                             /\ req'[q].got.refresh \in Nat /\ req'[q].got.refresh <= issued
      BY <1>0, <1>6, <2>1, Parts
    <3> QED BY <1>0, <1>10, <3>1, <3>2 DEF NothingIsAhead
  <2>4. \A n : InHands(n)' => InHands(n) \/ n = 0
    BY <1>1, <2>1, Parts DEF InHands
  <2>5. \A q \in Requests : At(q, "save")' => At(q, "save") /\ OnItsWay(q)' = OnItsWay(q)
    BY <2>1 DEF At, OnItsWay
  <2>6. NewIsGood'
    <3> SUFFICES ASSUME NEW q \in Requests, At(q, "save"), OnItsWay(q)' = OnItsWay(q)
                 PROVE  /\ OnItsWay(q) \in usable'
                        /\ rotates => /\ ~InHands(OnItsWay(q))' /\ OnItsWay(q) # login /\ OnItsWay(q) # 0
                                      /\ \A s \in Requests \ {q} : At(s, "save") => OnItsWay(s) # OnItsWay(q)
      BY <1>1, <2>5 DEF NewIsGood, InHands
    <3>1. InHands(OnItsWay(q))' => InHands(OnItsWay(q)) \/ OnItsWay(q) = 0
      BY <2>4
    <3> QED BY <1>4, <3>1 DEF AuthInv, NewIsGood
  <2>7. LoginIsGood' /\ StoredIsGood'
    BY <1>1, <1>5, <1>8, <2>4 DEF AuthInv, LoginIsGood, StoredIsGood
  <2> QED BY <2>2, <2>3, <2>6, <2>7 DEF AuthInv
<1>9. \/ /\ req' = [req EXCEPT ![r].pc = "save", ![r].got = [access |-> new, refresh |-> Kept(r)]]
         /\ UNCHANGED lost
      \/ lost' = TRUE /\ (To(r, "recheck") \/ Rest(r))
  BY DEF Refresh
<1> QED BY <1>7, <1>8, <1>9

\* A pair that is forgotten on its way is lost, and with it the promise.
LEMMA LossKeepsInv ==
  ASSUME AuthInv, NEW r \in Requests, Rest(r), lost' = TRUE,
         UNCHANGED <<tokens, rotates, issued, usable, login>>
  PROVE  AuthInv'
<1>1. /\ req' \in [Requests -> RequestStates]
      /\ \A q \in Requests \ {r} : req'[q] = req[q]
      /\ req'[r].pc = "idle" /\ req'[r].cred = NoCredentials /\ req'[r].got = NoCredentials
  BY RestChanges
<1>2. AuthTypeOK'
  BY <1>1 DEF AuthInv, AuthTypeOK
<1>3. NothingIsAhead'
  BY <1>1, Parts DEF AuthInv, NothingIsAhead
<1>4. \A n : InHands(n)' => InHands(n) \/ n = 0
  BY <1>1, Parts DEF InHands
<1>5. \A q \in Requests : At(q, "save")' => At(q, "save") /\ OnItsWay(q)' = OnItsWay(q)
  BY <1>1 DEF At, OnItsWay
<1>6. NewIsGood'
  <2> SUFFICES ASSUME NEW q \in Requests, At(q, "save"), OnItsWay(q)' = OnItsWay(q)
               PROVE  /\ OnItsWay(q) \in usable
                      /\ rotates => /\ ~InHands(OnItsWay(q))' /\ OnItsWay(q) # login /\ OnItsWay(q) # 0
                                    /\ \A s \in Requests \ {q} : At(s, "save") => OnItsWay(s) # OnItsWay(q)
    BY <1>5 DEF NewIsGood, InHands
  <2>1. InHands(OnItsWay(q))' => InHands(OnItsWay(q)) \/ OnItsWay(q) = 0
    BY <1>4
  <2> QED BY <2>1 DEF AuthInv, NewIsGood
<1>7. LoginIsGood' /\ StoredIsGood'
  BY <1>4 DEF AuthInv, LoginIsGood, StoredIsGood
<1> QED BY <1>2, <1>3, <1>6, <1>7 DEF AuthInv

\* What is stored was good and in nobody else's hands.
LEMMA SaveKeepsInv ==
  ASSUME AuthInv, NEW r \in Requests, Save(r)
  PROVE  AuthInv'
<1>1. CASE Rest(r) /\ lost' = TRUE /\ UNCHANGED tokens
  <2>1. UNCHANGED <<tokens, rotates, issued, usable, login>>
    BY <1>1 DEF Save, Issuer
  <2> QED BY <1>1, <2>1, LossKeepsInv
<1>2. CASE tokens' = req[r].got /\ With(r, "send", req[r].got) /\ UNCHANGED lost
  <2>1. UNCHANGED <<rotates, issued, usable, login>> /\ At(r, "save")
    BY DEF Save, Issuer
  <2>2. /\ req' \in [Requests -> RequestStates]
        /\ \A q \in Requests \ {r} : req'[q] = req[q]
        /\ req'[r].pc = "send" /\ req'[r].cred = req[r].got /\ req'[r].got = req[r].got
    <3>1. "send" \in AuthPlaces
      BY DEF AuthPlaces
    <3> QED BY <1>2, <3>1, Parts, WithChanges
  <2>3. AuthTypeOK'
    BY <1>2, <2>1, <2>2, Parts DEF AuthInv, AuthTypeOK
  <2>4. NothingIsAhead'
    BY <1>2, <2>1, <2>2 DEF AuthInv, NothingIsAhead
  <2>5. \A n : InHands(n)' => InHands(n) \/ n = OnItsWay(r)
    BY <1>2, <2>2 DEF InHands, OnItsWay
  <2>6. \A q \in Requests : At(q, "save")' => q # r /\ At(q, "save") /\ OnItsWay(q)' = OnItsWay(q)
    BY <2>2 DEF At, OnItsWay
  <2>7. NewIsGood'
    <3> SUFFICES ASSUME NEW q \in Requests \ {r}, At(q, "save"), OnItsWay(q)' = OnItsWay(q)
                 PROVE  /\ OnItsWay(q) \in usable
                        /\ rotates => /\ ~InHands(OnItsWay(q))' /\ OnItsWay(q) # login /\ OnItsWay(q) # 0
                                      /\ \A s \in Requests \ {q} : At(s, "save") => OnItsWay(s) # OnItsWay(q)
      BY <2>1, <2>6 DEF NewIsGood, InHands
    <3>1. InHands(OnItsWay(q))' => InHands(OnItsWay(q)) \/ OnItsWay(q) = OnItsWay(r)
      BY <2>5
    <3> QED BY <2>1, <3>1 DEF AuthInv, NewIsGood
  <2>8. LoginIsGood'
    BY <2>1, <2>5 DEF AuthInv, LoginIsGood, NewIsGood
  <2>9. StoredIsGood'
    BY <1>2, <2>1 DEF AuthInv, StoredIsGood, NewIsGood, OnItsWay
  <2> QED BY <2>3, <2>4, <2>7, <2>8, <2>9 DEF AuthInv
<1> QED BY <1>1, <1>2 DEF Save

\* A sign-in stores a pair of which nobody knows.
LEMMA SignInKeepsInv ==
  ASSUME AuthInv, SignIn \/ StoreLogin
  PROVE  AuthInv'
<1>1. CASE SignIn
  <2> DEFINE new == issued + 1
  <2>1. /\ issued' = new /\ login' = new /\ usable' = usable \cup {new}
        /\ UNCHANGED <<tokens, rotates, req, lost>>
    BY <1>1 DEF SignIn
  <2>2. new \in Nat \ {0} /\ (\A n \in Nat : n <= issued => n <= new /\ n # new)
    BY Parts
  <2> HIDE DEF new
  <2>3. AuthTypeOK'
    BY <2>1, <2>2 DEF AuthInv, AuthTypeOK
  <2>4. NothingIsAhead'
    BY <2>1, <2>2, Parts DEF AuthInv, NothingIsAhead
  <2>5. ~InHands(new) /\ (\A q \in Requests : OnItsWay(q) # new)
    BY <2>2, Parts DEF AuthInv, NothingIsAhead, InHands, OnItsWay
  <2>6. \A n : InHands(n)' <=> InHands(n)
    BY <2>1 DEF InHands
  <2>7. NewIsGood'
    BY <2>1, <2>5, <2>6 DEF AuthInv, NewIsGood, At, OnItsWay, InHands
  <2>8. LoginIsGood' /\ StoredIsGood'
    BY <2>1, <2>5 DEF AuthInv, LoginIsGood, StoredIsGood, At, InHands
  <2> QED BY <2>3, <2>4, <2>7, <2>8 DEF AuthInv
<1>2. CASE StoreLogin
  <2>1. /\ login # 0 /\ tokens' = [access |-> login, refresh |-> login] /\ login' = 0
        /\ UNCHANGED <<rotates, issued, usable, req, lost>>
    BY <1>2 DEF StoreLogin, Issuer
  <2>2. AuthTypeOK'
    BY <2>1 DEF AuthInv, AuthTypeOK, TokenPairs
  <2>3. NothingIsAhead'
    BY <2>1, Parts DEF AuthInv, NothingIsAhead
  <2>4. \A n : InHands(n)' => InHands(n) \/ n = login
    BY <2>1 DEF InHands
  <2>5. NewIsGood'
    <3> SUFFICES ASSUME NEW q \in Requests, At(q, "save")
                 PROVE  /\ OnItsWay(q) \in usable
                        /\ rotates => /\ ~InHands(OnItsWay(q))' /\ OnItsWay(q) # 0
                                      /\ \A s \in Requests \ {q} : At(s, "save") => OnItsWay(s) # OnItsWay(q)
      BY <2>1 DEF NewIsGood, InHands, At, OnItsWay
    <3>1. InHands(OnItsWay(q))' => InHands(OnItsWay(q)) \/ OnItsWay(q) = login
      BY <2>1, <2>4 DEF OnItsWay
    <3> QED BY <3>1 DEF AuthInv, NewIsGood
  <2>6. LoginIsGood' /\ StoredIsGood'
    BY <2>1 DEF AuthInv, LoginIsGood, StoredIsGood
  <2> QED BY <2>2, <2>3, <2>5, <2>6 DEF AuthInv
<1> QED BY <1>1, <1>2

\* Every step keeps the invariant.
LEMMA NextKeepsAuthInv == AuthInv /\ [AuthNext]_authVars => AuthInv'
<1> SUFFICES ASSUME AuthInv, [AuthNext]_authVars PROVE AuthInv'
  OBVIOUS
<1>1. ASSUME NEW r \in Requests, AuthStep(r) PROVE AuthInv'
  <2>1. CASE Drop(r)
    <3>1. UNCHANGED <<tokens, rotates, issued, usable, login>> /\ Rest(r)
      BY <2>1 DEF Drop, Issuer
    <3>2. CASE At(r, "save")
      <4>1. lost' = TRUE
        BY <2>1, <3>2 DEF Drop
      <4> QED BY <3>1, <4>1, LossKeepsInv
    <3>3. CASE ~At(r, "save")
      <4>1. UNCHANGED lost
        <5>1. lost \in BOOLEAN
          BY DEF AuthInv, AuthTypeOK
        <5> QED BY <2>1, <3>3, <5>1 DEF Drop
      <4> QED BY <3>1, <3>3, <4>1, RestChanges, QuietKeepsInv DEF At
    <3> QED BY <3>2, <3>3
  <2> QED BY <1>1, <2>1, WalkKeepsInv, RefreshKeepsInv, SaveKeepsInv DEF AuthStep
<1>2. CASE Expire \/ UNCHANGED authVars
  <2>1. UNCHANGED <<tokens, rotates, issued, usable, req, login, lost>>
    BY <1>2 DEF Expire, authVars, Issuer
  <2> QED BY <2>1 DEF AuthInv, AuthTypeOK, NothingIsAhead, NewIsGood, LoginIsGood, StoredIsGood,
                      At, OnItsWay, InHands
<1> QED BY <1>1, <1>2, SignInKeepsInv DEF AuthNext

\* The stored refresh token is one the issuer takes, once nobody is between the issuer's
\* answer and the store, unless a pair was lost on that way (codex/auth.rs 245-292).
THEOREM SignedIn == AuthSpec => []StaysSignedIn
<1>1. AuthInv => StaysSignedIn
  BY DEF AuthInv, StoredIsGood, StaysSignedIn
<1> QED BY <1>1, InitAuthInv, NextKeepsAuthInv, PTL DEF AuthSpec

=============================================================================
