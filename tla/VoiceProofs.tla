------------------------------- MODULE VoiceProofs -------------------------
(***************************************************************************)
(* Proofs about VoiceEngine and its AudioPlayer for sounds and utterances  *)
(* of any length and any number of commands and replies: the types, that   *)
(* recordings are fresh, that observers agree with the session, and that a *)
(* stop cuts the sound that is being written within one frame.             *)
(*                                                                         *)
(* The argument about the stop: sounds are numbered as they are asked for  *)
(* and wait in that order behind the one the thread is at. The sound that  *)
(* was cut has begun, so the flag is not lowered before a later sound      *)
(* begins, and that one has another number.                                *)
(*                                                                         *)
(* And about Hearing for queues, speech and hangover of any length: the    *)
(* detector agrees with the frames it was given. Whether they end inside a *)
(* segment follows from whether they did before and from the last frame,   *)
(* and its two counters tell what the last frame opens or closes.          *)
(***************************************************************************)
EXTENDS VoiceEngine, Hearing, TLAPS

Commands == {"listen", "stop", "speak"}

\* The empty sequence, of any type.
LEMMA None ==
  ASSUME NEW S
  PROVE  <<>> \in Seq(S) /\ Len(<<>>) = 0
OBVIOUS

\* Taking the first element.
LEMMA HeadTail ==
  ASSUME NEW S, NEW s \in Seq(S), s # <<>>
  PROVE  /\ Head(s) \in S /\ Tail(s) \in Seq(S)
         /\ Len(s) \in Nat \ {0} /\ Len(Tail(s)) = Len(s) - 1
         /\ \A i \in 1..Len(Tail(s)) : Tail(s)[i] = s[i + 1]
         /\ Head(s) = s[1]
OBVIOUS

\* The type of an item that is added may be larger than that of the others.
LEMMA Appended ==
  ASSUME NEW S, NEW T, S \subseteq T, NEW s \in Seq(S), NEW e \in T
  PROVE  /\ Append(s, e) \in Seq(T)
         /\ Len(s) \in Nat /\ Len(Append(s, e)) = Len(s) + 1
         /\ \A i \in 1..Len(s) : Append(s, e)[i] = s[i]
         /\ Append(s, e)[Len(s) + 1] = e
<1>1. s \in Seq(T)
  OBVIOUS
<1>. QED
  BY <1>1

----------------------------------------------------------------------------
\* The player.

\* Sounds wait in the order they were asked for, behind the one the thread is at.
InOrder ==
  /\ \A i \in 1..Len(queue) : queue[i] > 0 => queue[i] > sound
  /\ \A i, j \in 1..Len(queue) :
       i < j /\ queue[i] > 0 /\ queue[j] > 0 => queue[i] < queue[j]

\* The sound that was cut has begun before, and the flag stays up while it is the one the
\* thread is at.
CutStands ==
  /\ cut <= sound
  /\ sound = cut /\ sound # 0 =>
       /\ stop
       /\ thread \notin {"taken", "begun"}
       /\ late <= 1
       /\ thread = "writing" => late = 0

\* A frame that is being written is one that is left.
FrameLeft == thread = "writing" => left > 0

PlayerInv == PlayerTypeOK /\ InOrder /\ CutStands /\ FrameLeft

\* The inductive invariant of the player holds initially.
LEMMA PlayerStarts == PlayerInit => PlayerInv
<1>. SUFFICES ASSUME PlayerInit PROVE PlayerInv
  OBVIOUS
<1>1. queue \in Seq(Cmd) /\ Len(queue) = 0
  BY None DEF PlayerInit
<1>2. PlayerTypeOK
  <2>1. 0 \in 0..0 /\ 0 \in 0..SoundFrames /\ 0 \in 0..MaxDeviceFaults
    BY AudioPlayerAssumption
  <2>. QED
    BY <1>1, <2>1 DEF PlayerInit, PlayerTypeOK
<1>3. InOrder
  <2>1. 1..Len(queue) = {}
    BY <1>1
  <2>. QED
    BY <2>1 DEF InOrder
<1>4. CutStands /\ FrameLeft
  BY DEF PlayerInit, CutStands, FrameLeft
<1>. QED
  BY <1>2, <1>3, <1>4 DEF PlayerInv

\* What is added waits in order if it is no sound, or a later one than all others.
LEMMA AddedInOrder ==
  ASSUME PlayerTypeOK, InOrder, sound' = sound, NEW e \in Int,
         Len(queue') = Len(queue) + 1,
         \A i \in 1..Len(queue) : queue'[i] = queue[i],
         queue'[Len(queue) + 1] = e,
         e <= 0 \/ (e > sound /\ \A i \in 1..Len(queue) : queue[i] < e)
  PROVE  InOrder'
<1>1. Len(queue) \in Nat
  BY DEF PlayerTypeOK
<1>2. \A i \in 1..Len(queue') : i \in 1..Len(queue) \/ i = Len(queue) + 1
  BY <1>1
<1>3. ASSUME NEW i \in 1..Len(queue'), queue'[i] > 0
      PROVE  queue'[i] > sound'
  BY <1>2, <1>3 DEF InOrder
<1>4. ASSUME NEW i \in 1..Len(queue'), NEW j \in 1..Len(queue'),
             i < j, queue'[i] > 0, queue'[j] > 0
      PROVE  queue'[i] < queue'[j]
  <2>1. i \in 1..Len(queue)
    BY <1>1, <1>2, <1>4
  <2>. QED
    BY <1>2, <1>4, <2>1 DEF InOrder
<1>. QED
  BY <1>3, <1>4 DEF InOrder

\* A sound put in the queue keeps the order of the commands.
LEMMA PlayKeeps ==
  ASSUME PlayerInv, Play
  PROVE  PlayerInv'
<1>. USE DEF PlayerInv, PlayerTypeOK
<1>0. Cmd \subseteq Cmd' /\ asked + 1 \in Cmd' /\ queue \in Seq(Cmd)
  BY DEF Play, Cmd
<1>1. ASSUME thread # "gone"
      PROVE  /\ queue' \in Seq(Cmd')
             /\ Len(queue) \in Nat /\ Len(queue') = Len(queue) + 1
             /\ \A i \in 1..Len(queue) : queue'[i] = queue[i] /\ queue[i] \in Cmd
             /\ queue'[Len(queue) + 1] = asked + 1
  <2>1. queue' = Append(queue, asked + 1)
    BY <1>1 DEF Play, Enqueue
  <2>. QED
    BY <1>0, <2>1, Appended
<1>2. PlayerTypeOK'
  <2>1. queue' \in Seq(Cmd')
    <3>1. CASE thread = "gone"
      <4>1. queue' = queue
        BY <3>1 DEF Play, Enqueue
      <4>. QED
        BY <1>0, <4>1
    <3>2. CASE thread # "gone"
      BY <1>1, <3>2
    <3>. QED
      BY <3>1, <3>2
  <2>2. /\ asked' \in Nat /\ 0..asked \subseteq 0..asked' /\ 0 \in 0..asked'
    BY DEF Play
  <2>. QED
    BY <2>1, <2>2 DEF Play, threadVars
<1>3. InOrder'
  <2>1. asked + 1 \in Int /\ asked + 1 > sound /\ sound' = sound
    BY DEF Play, threadVars
  <2>2. CASE thread # "gone"
    <3>1. \A i \in 1..Len(queue) : queue[i] < asked + 1
      BY <1>1, <2>2 DEF Cmd, Silence, Shutdown
    <3>. QED
      BY <1>1, <2>1, <2>2, <3>1, AddedInOrder
  <2>3. CASE thread = "gone"
    <3>1. queue' = queue
      BY <2>3 DEF Play, Enqueue
    <3>. QED
      BY <2>1, <3>1 DEF InOrder
  <2>. QED
    BY <2>2, <2>3
<1>4. CutStands'
  BY DEF CutStands, Play, threadVars
<1>5. FrameLeft'
  BY DEF FrameLeft, Play, threadVars
<1>. QED
  BY <1>2, <1>3, <1>4, <1>5

\* Commands that are no sounds.
LEMMA QueueOther ==
  ASSUME PlayerInv, NEW cmd \in {Silence, Shutdown},
         Enqueue(cmd), asked' = asked, sound' = sound
  PROVE  queue' \in Seq(Cmd') /\ InOrder'
<1>. USE DEF PlayerInv, PlayerTypeOK
<1>1. Cmd \subseteq Cmd' /\ cmd \in Cmd' /\ queue \in Seq(Cmd)
  BY DEF Cmd
<1>2. CASE thread # "gone"
  <2>1. queue' = Append(queue, cmd)
    BY <1>2 DEF Enqueue
  <2>2. /\ queue' \in Seq(Cmd')
        /\ Len(queue) \in Nat /\ Len(queue') = Len(queue) + 1
        /\ \A i \in 1..Len(queue) : queue'[i] = queue[i]
        /\ queue'[Len(queue) + 1] = cmd
    BY <1>1, <2>1, Appended
  <2>3. cmd \in Int /\ cmd <= 0
    BY DEF Silence, Shutdown
  <2>. QED
    BY <2>2, <2>3, AddedInOrder
<1>3. CASE thread = "gone"
  <2>1. queue' = queue
    BY <1>3 DEF Enqueue
  <2>. QED
    BY <1>1, <2>1 DEF InOrder
<1>. QED
  BY <1>2, <1>3

\* A stop of the playback keeps the invariant of the player.
LEMMA StopKeeps ==
  ASSUME PlayerInv, StopPlayback
  PROVE  PlayerInv'
<1>. USE DEF PlayerInv, PlayerTypeOK
<1>1. queue' \in Seq(Cmd') /\ InOrder'
  BY QueueOther DEF StopPlayback, threadVars
<1>2. PlayerTypeOK'
  BY <1>1 DEF StopPlayback, threadVars
<1>3. CutStands'
  BY DEF CutStands, StopPlayback, threadVars
<1>5. FrameLeft'
  BY DEF FrameLeft, StopPlayback, threadVars
<1>. QED
  BY <1>1, <1>2, <1>3, <1>5

\* The end of the player leaves what was asked before it.
LEMMA DropKeeps ==
  ASSUME PlayerInv, DropPlayer
  PROVE  PlayerInv'
<1>. USE DEF PlayerInv, PlayerTypeOK
<1>1. queue' \in Seq(Cmd') /\ InOrder'
  BY QueueOther DEF DropPlayer, threadVars
<1>2. PlayerTypeOK'
  BY <1>1 DEF DropPlayer, threadVars
<1>3. CutStands'
  BY DEF CutStands, DropPlayer, threadVars
<1>5. FrameLeft'
  BY DEF FrameLeft, DropPlayer, threadVars
<1>. QED
  BY <1>1, <1>2, <1>3, <1>5

\* Taking a command keeps the rest in order, behind a sound if it was one.
LEMMA TakeKeeps ==
  ASSUME PlayerInv, NEW there, Take(there), asked' = asked,
         sound' = IF Head(queue) > 0 THEN Head(queue) ELSE sound
  PROVE  /\ queue' \in Seq(Cmd') /\ InOrder'
         /\ Head(queue) \in Cmd /\ (Head(queue) > 0 => Head(queue) > sound)
<1>. USE DEF PlayerInv, PlayerTypeOK
<1>1. /\ Head(queue) \in Cmd /\ queue' \in Seq(Cmd)
      /\ Len(queue) \in Nat \ {0} /\ Len(queue') = Len(queue) - 1
      /\ \A i \in 1..Len(queue') : queue'[i] = queue[i + 1]
      /\ Head(queue) = queue[1]
  <2>1. queue \in Seq(Cmd) /\ queue # <<>> /\ queue' = Tail(queue)
    BY DEF Cmd, Take
  <2>. QED
    BY <2>1, HeadTail
<1>2. Cmd' = Cmd
  BY DEF Cmd
<1>3. Head(queue) > 0 => Head(queue) > sound
  BY <1>1 DEF InOrder
<1>4. \A i \in 1..Len(queue') : i + 1 \in 1..Len(queue) /\ 1 < i + 1
  BY <1>1
<1>5. \A i \in 1..Len(queue') : queue'[i] > 0 => queue'[i] > sound'
  BY <1>1, <1>4 DEF InOrder
<1>6. \A i, j \in 1..Len(queue') :
        i < j /\ queue'[i] > 0 /\ queue'[j] > 0 => queue'[i] < queue'[j]
  BY SMTT(40), <1>1, <1>4 DEF InOrder
<1>. QED
  BY <1>1, <1>2, <1>3, <1>5, <1>6 DEF InOrder

\* The steps of the playback thread keep the invariant of the player and ask for nothing.
LEMMA ThreadKeeps ==
  ASSUME PlayerInv, PlayerStep
  PROVE  PlayerInv' /\ asked' = asked
<1>. USE DEF PlayerInv, PlayerTypeOK
<1>1. CASE TakeSound
  <2>1. /\ queue' \in Seq(Cmd') /\ InOrder'
        /\ Head(queue) \in Cmd /\ Head(queue) > sound /\ sound' = Head(queue)
    BY <1>1, TakeKeeps DEF TakeSound
  <2>2. sound' \in 1..asked
    BY <2>1 DEF Cmd, Silence, Shutdown
  <2>3. PlayerTypeOK'
    BY <1>1, <2>1, <2>2, AudioPlayerAssumption DEF TakeSound, Take, At
  <2>4. CutStands'
    BY <1>1, <2>1, <2>2 DEF CutStands, TakeSound, Take, At
  <2>5. FrameLeft'
    BY <1>1 DEF FrameLeft, TakeSound, Take, At
  <2>. QED
    BY <1>1, <2>1, <2>3, <2>4, <2>5 DEF TakeSound
<1>2. CASE TakeSilence
  <2>1. queue' \in Seq(Cmd') /\ InOrder'
    BY <1>2, TakeKeeps DEF TakeSilence, Silence
  <2>2. PlayerTypeOK'
    BY <1>2, <2>1 DEF TakeSilence, Take, At
  <2>3. CutStands'
    BY <1>2 DEF CutStands, TakeSilence, Take, At
  <2>4. FrameLeft'
    BY <1>2 DEF FrameLeft, TakeSilence, Take, At
  <2>. QED
    BY <1>2, <2>1, <2>2, <2>3, <2>4 DEF TakeSilence
<1>3. CASE TakeShutdown
  <2>1. queue' \in Seq(Cmd') /\ InOrder'
    BY <1>3, TakeKeeps DEF TakeShutdown, Shutdown
  <2>2. PlayerTypeOK'
    BY <1>3, <2>1 DEF TakeShutdown, Take, At
  <2>3. CutStands'
    BY <1>3 DEF CutStands, TakeShutdown, Take, At
  <2>4. FrameLeft'
    BY <1>3 DEF FrameLeft, TakeShutdown, Take, At
  <2>. QED
    BY <1>3, <2>1, <2>2, <2>3, <2>4 DEF TakeShutdown
<1>4. CASE Begin
  <2>1. queue' = queue /\ asked' = asked /\ Cmd' = Cmd
    BY <1>4 DEF Begin, handleVars, Cmd
  <2>2. PlayerTypeOK'
    BY <1>4, <2>1, AudioPlayerAssumption DEF Begin, At, handleVars, FrameLeft
  <2>3. InOrder'
    BY <1>4, <2>1 DEF Begin, InOrder
  <2>4. CutStands' /\ FrameLeft'
    BY <1>4 DEF Begin, At, handleVars, CutStands, FrameLeft
  <2>. QED
    BY <2>1, <2>2, <2>3, <2>4
<1>5. CASE ForgetStop
  <2>1. queue' = queue /\ asked' = asked /\ Cmd' = Cmd
    BY <1>5 DEF ForgetStop, Cmd
  <2>2. PlayerTypeOK'
    BY <1>5, <2>1, AudioPlayerAssumption DEF ForgetStop, At, FrameLeft
  <2>3. InOrder'
    BY <1>5, <2>1 DEF ForgetStop, InOrder
  <2>4. CutStands' /\ FrameLeft'
    BY <1>5 DEF ForgetStop, At, CutStands, FrameLeft
  <2>. QED
    BY <2>1, <2>2, <2>3, <2>4
<1>6. CASE Look
  <2>1. queue' = queue /\ asked' = asked /\ Cmd' = Cmd
    BY <1>6 DEF Look, handleVars, Cmd
  <2>2. PlayerTypeOK'
    BY <1>6, <2>1, AudioPlayerAssumption DEF Look, At, handleVars, FrameLeft
  <2>3. InOrder'
    BY <1>6, <2>1 DEF Look, InOrder
  <2>4. CutStands' /\ FrameLeft'
    BY <1>6 DEF Look, At, handleVars, CutStands, FrameLeft
  <2>. QED
    BY <2>1, <2>2, <2>3, <2>4
<1>7. CASE Write
  <2>1. queue' = queue /\ asked' = asked /\ Cmd' = Cmd
    BY <1>7 DEF Write, handleVars, Cmd
  <2>2. PlayerTypeOK'
    BY <1>7, <2>1, AudioPlayerAssumption DEF Write, At, handleVars, FrameLeft
  <2>3. InOrder'
    BY <1>7, <2>1 DEF Write, InOrder
  <2>4. CutStands' /\ FrameLeft'
    BY <1>7 DEF Write, At, handleVars, CutStands, FrameLeft
  <2>. QED
    BY <2>1, <2>2, <2>3, <2>4
<1>8. CASE RunOut
  <2>1. queue' = queue /\ asked' = asked /\ Cmd' = Cmd
    BY <1>8 DEF RunOut, handleVars, Cmd
  <2>2. PlayerTypeOK'
    BY <1>8, <2>1, AudioPlayerAssumption DEF RunOut, At, handleVars, FrameLeft
  <2>3. InOrder'
    BY <1>8, <2>1 DEF RunOut, InOrder
  <2>4. CutStands' /\ FrameLeft'
    BY <1>8 DEF RunOut, At, handleVars, CutStands, FrameLeft
  <2>. QED
    BY <2>1, <2>2, <2>3, <2>4
<1>9. CASE End
  <2>1. queue' = queue /\ asked' = asked /\ Cmd' = Cmd
    BY <1>9 DEF End, handleVars, Cmd
  <2>2. PlayerTypeOK'
    BY <1>9, <2>1, AudioPlayerAssumption DEF End, At, handleVars, FrameLeft
  <2>3. InOrder'
    BY <1>9, <2>1 DEF End, InOrder
  <2>4. CutStands' /\ FrameLeft'
    BY <1>9 DEF End, At, handleVars, CutStands, FrameLeft
  <2>. QED
    BY <2>1, <2>2, <2>3, <2>4
<1>10. CASE Flush
  <2>1. queue' = queue /\ asked' = asked /\ Cmd' = Cmd
    BY <1>10 DEF Flush, handleVars, Cmd
  <2>2. PlayerTypeOK'
    BY <1>10, <2>1, AudioPlayerAssumption DEF Flush, At, handleVars, FrameLeft
  <2>3. InOrder'
    BY <1>10, <2>1 DEF Flush, InOrder
  <2>4. CutStands' /\ FrameLeft'
    BY <1>10 DEF Flush, At, handleVars, CutStands, FrameLeft
  <2>. QED
    BY <2>1, <2>2, <2>3, <2>4
<1>11. CASE OpenStream
  <2>1. queue' = queue /\ asked' = asked /\ Cmd' = Cmd
    BY <1>11 DEF OpenStream, handleVars, Cmd
  <2>2. PlayerTypeOK'
    BY <1>11, <2>1 DEF OpenStream, At, handleVars
  <2>3. InOrder'
    BY <1>11, <2>1 DEF OpenStream, InOrder
  <2>4. CutStands' /\ FrameLeft'
    BY <1>11 DEF OpenStream, At, handleVars, CutStands, FrameLeft
  <2>. QED
    BY <2>1, <2>2, <2>3, <2>4
<1>12. CASE OpenFails
  <2>1. queue' \in Seq(Cmd') /\ Len(queue') = 0 /\ asked' = asked
    BY <1>12, None DEF OpenFails
  <2>2. faults' \in 0..MaxDeviceFaults
    BY <1>12, AudioPlayerAssumption DEF OpenFails, DeviceFails
  <2>3. PlayerTypeOK'
    BY <1>12, <2>1, <2>2 DEF OpenFails, At
  <2>4. InOrder'
    <3>1. 1..Len(queue') = {}
      BY <2>1
    <3>. QED
      BY <3>1 DEF InOrder
  <2>5. CutStands' /\ FrameLeft'
    BY <1>12 DEF OpenFails, At, CutStands, FrameLeft
  <2>. QED
    BY <2>1, <2>3, <2>4, <2>5
<1>13. CASE WriteFails
  <2>1. queue' = queue /\ asked' = asked /\ Cmd' = Cmd
    BY <1>13 DEF WriteFails, handleVars, Cmd
  <2>2. faults' \in 0..MaxDeviceFaults
    BY <1>13, AudioPlayerAssumption DEF WriteFails, DeviceFails
  <2>3. PlayerTypeOK'
    BY <1>13, <2>1, <2>2 DEF WriteFails, At, handleVars
  <2>4. InOrder'
    BY <1>13, <2>1 DEF WriteFails, InOrder
  <2>5. CutStands' /\ FrameLeft'
    BY <1>13 DEF WriteFails, At, handleVars, CutStands, FrameLeft
  <2>. QED
    BY <2>1, <2>3, <2>4, <2>5
<1>. QED
  BY <1>1, <1>2, <1>3, <1>4, <1>5, <1>6, <1>7, <1>8, <1>9, <1>10, <1>11, <1>12, <1>13
  DEF PlayerStep, PlayerBegins

\* The handle is used by the engine as follows; the thread does not use it.
HandleStep == Play \/ StopPlayback \/ DropPlayer \/ UNCHANGED playerVars

\* So do the steps of the handle, which may ask for one sound more.
LEMMA HandleKeeps ==
  ASSUME PlayerInv, HandleStep
  PROVE  PlayerInv' /\ asked' \in Nat /\ asked <= asked'
<1>1. CASE Play
  <2>1. PlayerInv'
    BY <1>1, PlayKeeps
  <2>. QED
    BY <1>1, <2>1 DEF PlayerInv, PlayerTypeOK, Play
<1>2. CASE StopPlayback
  <2>1. PlayerInv'
    BY <1>2, StopKeeps
  <2>. QED
    BY <1>2, <2>1 DEF PlayerInv, PlayerTypeOK, StopPlayback
<1>3. CASE DropPlayer
  <2>1. PlayerInv'
    BY <1>3, DropKeeps
  <2>. QED
    BY <1>3, <2>1 DEF PlayerInv, PlayerTypeOK, DropPlayer
<1>4. CASE UNCHANGED playerVars
  <2>1. Cmd' = Cmd
    BY <1>4 DEF Cmd, playerVars, handleVars
  <2>. QED
    BY <1>4, <2>1
    DEF PlayerInv, PlayerTypeOK, InOrder, CutStands, FrameLeft, playerVars, handleVars, threadVars
<1>. QED
  BY <1>1, <1>2, <1>3, <1>4 DEF HandleStep

----------------------------------------------------------------------------
\* The session.

\* The thread's place determines the session's state where observers may lag behind it.
Placed ==
  /\ pc = "stt" => session.state = "transcribing"
  /\ pc = "llm" => session.state = "thinking"
  /\ pc \in {"speak", "answer"} => session.state = "speaking"
  /\ pc = "speak" => slot = said
  /\ pc = "answer" => said = "speaking"
  /\ session.state = "listening" => session.utterance = 0

SessionInv == EngineTypeOK /\ UtteranceIsFresh /\ ObserversAgree /\ Placed

\* The inductive invariant of the session holds initially.
LEMMA SessionStarts == Init => SessionInv
<1>. SUFFICES ASSUME Init PROVE SessionInv
  OBVIOUS
<1>1. cmds \in Seq(Commands)
  BY None DEF Init
<1>2. /\ 0 \in 0..MaxUtterance /\ 0 \in 0..ListenTimeout
      /\ 0 \in 0..MaxCommands /\ 0 \in 0..MaxReplies
  BY VoiceEngineAssumption
<1>3. finished \in 0..asked
  BY DEF Init, PlayerInit
<1>4. 0 < ListenTimeout
  BY VoiceEngineAssumption
<1>5. EngineTypeOK
  BY <1>1, <1>2, <1>3, <1>4 DEF Init, EngineTypeOK, Sessions, AtRest, States, Commands
<1>6. UtteranceIsFresh /\ ObserversAgree /\ Placed
  BY DEF Init, UtteranceIsFresh, ObserversAgree, Placed, AtRest
<1>. QED
  BY <1>5, <1>6 DEF SessionInv

\* What a command or a frame leaves to the session and the publication of its state.
LEMMA CommandTypes ==
  ASSUME SessionInv, NEW cmd \in Commands, NEW there, TakeCommand(cmd, there)
  PROVE  cmds' \in Seq(Commands)
<1>1. cmds \in Seq(Commands) /\ cmds # <<>> /\ cmds' = Tail(cmds)
  BY DEF SessionInv, EngineTypeOK, Commands, TakeCommand
<1>. QED
  BY <1>1, HeadTail

\* The parts of a session.
LEMMA SessionTypes ==
  ASSUME session \in Sessions
  PROVE  /\ session.state \in States
         /\ session.utterance \in 0..MaxUtterance /\ session.frames \in 0..MaxUtterance
         /\ session.silence \in 0..ListenTimeout
BY DEF Sessions

\* A session is made of its parts.
LEMMA SessionOf ==
  ASSUME NEW s \in States, NEW u \in 0..MaxUtterance, NEW f \in 0..MaxUtterance,
         NEW n \in 0..ListenTimeout
  PROVE  [state |-> s, utterance |-> u, frames |-> f, silence |-> n] \in Sessions
BY DEF Sessions

\* A step of a recording, or to one, on a frame of speech.
LEMMA Records ==
  ASSUME SessionInv, asked \in Nat, asked' \in Nat, asked <= asked',
         StartRecording \/ KeepRecording \/ Interrupt
  PROVE  SessionInv'
<1>. DEFINE Recorded(n) == [state |-> "recording", utterance |-> n, frames |-> n,
                            silence |-> session.silence]
<1>0. /\ session \in Sessions
      /\ 1 \in 0..MaxUtterance /\ 1 < MaxUtterance
  BY VoiceEngineAssumption DEF SessionInv, EngineTypeOK
<1>1. PICK n \in 0..MaxUtterance : n < MaxUtterance /\ session' = Recorded(n)
  <2>1. CASE StartRecording
    <3>1. session.utterance + 1 = 1
      BY <2>1 DEF StartRecording, SessionInv, Placed
    <3>2. session' = [session EXCEPT !.state = "recording", !.utterance = 1, !.frames = 1]
      BY <2>1, <3>1 DEF StartRecording
    <3>3. session' = Recorded(1)
      BY <1>0, <3>2 DEF Sessions
    <3>. QED
      BY <1>0, <3>3
  <2>2. CASE KeepRecording
    <3>1. /\ session.state = "recording" /\ session.utterance = session.frames
          /\ session.frames \in 0..MaxUtterance
      BY <1>0, <2>2, SessionTypes DEF KeepRecording, SessionInv, UtteranceIsFresh
    <3>2. session.frames + 1 \in 0..MaxUtterance /\ session.frames + 1 < MaxUtterance
      BY <2>2, <3>1, VoiceEngineAssumption DEF KeepRecording, TooLong
    <3>3. session' = Recorded(session.frames + 1)
      BY <1>0, <2>2, <3>1 DEF KeepRecording, Sessions
    <3>. QED
      BY <3>2, <3>3
  <2>3. CASE Interrupt
    <3>1. session' = Recorded(1)
      BY <1>0, <2>3 DEF Interrupt, Sessions
    <3>. QED
      BY <1>0, <3>1
  <2>. QED
    BY <2>1, <2>2, <2>3
<1>2. session' \in Sessions
  BY <1>1, SessionTypes, SessionOf DEF SessionInv, EngineTypeOK, States
<1>3. /\ pc' = "poll" /\ speech' = TRUE
      /\ UNCHANGED <<cmds, sent, replies, was, polled, finished>>
  BY DEF StartRecording, KeepRecording, Interrupt, Frame, Goto
<1>4. slot' = "recording" /\ said' = "recording"
  BY DEF StartRecording, KeepRecording, Interrupt, TellAndPublish, Frame, Goto,
     SessionInv, ObserversAgree, AtRest
<1>5. EngineTypeOK'
  BY <1>1, <1>2, <1>3, <1>4 DEF SessionInv, EngineTypeOK, States
<1>. QED
  BY <1>1, <1>3, <1>4, <1>5 DEF SessionInv, UtteranceIsFresh, ObserversAgree, Placed

\* A frame of silence while listening, that may end the wait for speech.
LEMMA Hears ==
  ASSUME SessionInv, asked \in Nat, asked' \in Nat, asked <= asked', KeepListening
  PROVE  SessionInv'
<1>. DEFINE n == session.silence + 1
            state == IF HeardNobody(n) THEN "idle" ELSE "listening"
<1>1. /\ session \in Sessions
      /\ session.state = "listening" /\ session.utterance = 0 /\ 0 \in 0..MaxUtterance
      /\ session.frames \in 0..MaxUtterance
      /\ session.silence \in 0..ListenTimeout /\ session.silence < ListenTimeout
  BY SessionTypes, VoiceEngineAssumption DEF KeepListening, SessionInv, EngineTypeOK, Placed
<1>2. n \in 0..ListenTimeout /\ (state = "listening" => n < ListenTimeout)
  BY <1>1, VoiceEngineAssumption DEF HeardNobody
<1>3. state \in {"idle", "listening"}
  OBVIOUS
<1>4. session' = [session EXCEPT !.state = state, !.silence = n] /\ Publish(state)
  BY DEF KeepListening
<1>. HIDE DEF n, state
<1>5. session' = [state |-> state, utterance |-> 0, frames |-> session.frames, silence |-> n]
  BY <1>1, <1>4 DEF Sessions
<1>6. session' \in Sessions
  BY <1>1, <1>2, <1>3, <1>5, SessionOf DEF States
<1>7. /\ pc' = "poll" /\ speech' \in BOOLEAN
      /\ UNCHANGED <<cmds, sent, replies, was, polled, finished>>
  BY DEF KeepListening, Frame, Goto, SessionInv, EngineTypeOK
<1>8. slot' = state /\ said' = state
  BY <1>4 DEF Publish, KeepListening, Frame, Goto, SessionInv, ObserversAgree, AtRest
<1>9. EngineTypeOK'
  BY <1>2, <1>3, <1>5, <1>6, <1>7, <1>8 DEF SessionInv, EngineTypeOK, States
<1>. QED
  BY <1>3, <1>5, <1>7, <1>8, <1>9 DEF SessionInv, UtteranceIsFresh, ObserversAgree, Placed

\* A frame of silence that ends the utterance.
LEMMA Finishes ==
  ASSUME SessionInv, asked \in Nat, asked' \in Nat, asked <= asked', FinishUtterance
  PROVE  SessionInv'
<1>1. /\ session \in Sessions /\ 0 \in 0..MaxUtterance
      /\ session.frames + 1 \in 0..MaxUtterance
      /\ session.silence \in 0..ListenTimeout
  BY SMTT(40), SessionTypes, VoiceEngineAssumption
  DEF FinishUtterance, SessionInv, EngineTypeOK, UtteranceIsFresh
<1>2. session' = [state |-> "transcribing", utterance |-> 0, frames |-> session.frames + 1,
                  silence |-> session.silence]
  BY <1>1 DEF FinishUtterance, Sessions
<1>3. session' \in Sessions
  BY <1>1, <1>2, SessionOf DEF States
<1>4. /\ pc' = "stt" /\ speech' \in BOOLEAN /\ said' = "transcribing" /\ slot' = slot
      /\ UNCHANGED <<cmds, sent, replies, was, polled, finished>>
  BY DEF FinishUtterance, Frame, Goto, Tell
<1>5. EngineTypeOK'
  BY <1>2, <1>3, <1>4 DEF SessionInv, EngineTypeOK, AtRest, States
<1>. QED
  BY <1>2, <1>4, <1>5 DEF SessionInv, UtteranceIsFresh, ObserversAgree, AtRest, Placed

\* Every step of the engine keeps the invariant of the session.
LEMMA EngineKeeps ==
  ASSUME SessionInv, playing \in BOOLEAN, asked \in Nat, asked' \in Nat, asked <= asked',
         Send \/ Engine \/ CaptureEnds
  PROVE  SessionInv'
<1>a. CASE StartRecording \/ KeepRecording \/ Interrupt
  BY <1>a, Records
<1>b. CASE KeepListening
  BY <1>b, Hears
<1>c. CASE FinishUtterance
  BY <1>c, Finishes
<1>. USE DEF SessionInv, EngineTypeOK, Sessions, UtteranceIsFresh, ObserversAgree, Placed, AtRest,
         States
<1>0. finished \in 0..asked'
  OBVIOUS
<1>1. CASE Send
  <2>1. PICK cmd \in Commands : cmds' = Append(cmds, cmd)
    BY <1>1 DEF Send, Commands
  <2>2. cmds' \in Seq(Commands)
    BY <2>1, Appended DEF Commands
  <2>3. sent' \in 0..MaxCommands
    BY <1>1, VoiceEngineAssumption DEF Send
  <2>. QED
    BY <1>0, <1>1, <2>2, <2>3 DEF Send, Commands
<1>2. CASE Listen
  <2>1. cmds' \in Seq(Commands)
    BY <1>2, CommandTypes DEF Listen, Commands
  <2>2. 0 \in 0..MaxUtterance /\ 0 \in 0..ListenTimeout /\ 0 < ListenTimeout
    BY VoiceEngineAssumption
  <2>. QED
    BY <1>0, <1>2, <2>1, <2>2 DEF Listen, TakeCommand, Goto, EnterListening, Publish, Commands
<1>3. CASE ForceIdle
  <2>1. cmds' \in Seq(Commands)
    BY <1>3, CommandTypes DEF ForceIdle, Commands
  <2>2. 0 \in 0..MaxUtterance
    BY VoiceEngineAssumption
  <2>. QED
    BY <1>0, <1>3, <2>1, <2>2 DEF ForceIdle, TakeCommand, Goto, Publish, Commands
<1>4. CASE Speak
  <2>1. cmds' \in Seq(Commands)
    BY <1>4, CommandTypes DEF Speak, Commands
  <2>. QED
    BY <1>0, <1>4, <2>1 DEF Speak, TakeCommand, Goto, To, Commands
<1>5. CASE NoCommand
  BY <1>0, <1>5 DEF NoCommand, Goto
<1>6. CASE Synthesize("speak", "commands")
  BY <1>0, <1>6 DEF Synthesize, Goto, Publish
<1>7. CASE Synthesize("answer", "poll")
  BY <1>0, <1>7 DEF Synthesize, Goto, Publish
<1>8. CASE IgnoreFrame
  BY <1>0, <1>8 DEF IgnoreFrame, Frame, Goto, Quiet
<1>9. CASE NoFrame
  BY <1>0, <1>9 DEF NoFrame, Goto
<1>10. CASE Nothing("stt") \/ Nothing("llm")
  BY <1>0, <1>10 DEF Nothing, Goto, To, TellAndPublish
<1>11. CASE OnTranscript
  BY <1>0, <1>11 DEF OnTranscript, Goto, To, Tell
<1>12. CASE OnReply
  <2>1. replies' \in 0..MaxReplies
    BY <1>12, VoiceEngineAssumption DEF OnReply
  <2>. QED
    BY <1>0, <1>12, <2>1 DEF OnReply, Goto, To, Tell
<1>13. CASE Poll
  <2>1. asked' = asked
    BY <1>13 DEF Poll, playerVars, handleVars
  <2>2. CASE was /\ ~playing /\ session.state = "speaking"
    <3>1. OnPlaybackFinished /\ asked \in 0..asked
      BY <1>13, <2>2 DEF Poll
    <3>. QED
      BY <1>13, <2>1, <3>1 DEF Poll, Goto, To, OnPlaybackFinished, TellAndPublish
  <2>3. CASE ~(was /\ ~playing /\ session.state = "speaking")
    BY <1>13, <2>1, <2>3 DEF Poll, Goto
  <2>. QED
    BY <2>2, <2>3
<1>14. CASE CaptureEnds
  BY <1>0, <1>14 DEF CaptureEnds, Goto
<1>. QED
  BY <1>a, <1>b, <1>c, <1>1, <1>2, <1>3, <1>4, <1>5, <1>6, <1>7, <1>8, <1>9, <1>10, <1>11, <1>12,
     <1>13, <1>14 DEF Engine

----------------------------------------------------------------------------
\* Both together.

Inv == PlayerInv /\ SessionInv

\* Both invariants hold initially.
LEMMA Starts == Init => Inv
BY PlayerStarts, SessionStarts DEF Init, Inv

\* The engine reaches the player by its handle alone.
LEMMA EngineUsesHandle == Send \/ Engine \/ CaptureEnds => HandleStep
BY DEF HandleStep, Send, Engine, CaptureEnds, Listen, ForceIdle, Speak, NoCommand, Synthesize,
   IgnoreFrame, StartRecording, KeepListening, KeepRecording, FinishUtterance, Interrupt,
   NoFrame, Nothing, OnTranscript, OnReply, Poll

\* Every step of the two threads keeps both invariants.
LEMMA Keeps == Inv /\ [Next]_vars => Inv'
<1>. SUFFICES ASSUME Inv, [Next]_vars PROVE Inv'
  OBVIOUS
<1>1. CASE Send \/ Engine \/ CaptureEnds
  <2>1. PlayerInv' /\ asked' \in Nat /\ asked <= asked'
    BY <1>1, EngineUsesHandle, HandleKeeps DEF Inv
  <2>2. SessionInv'
    BY <1>1, <2>1, EngineKeeps DEF Inv, PlayerInv, PlayerTypeOK
  <2>. QED
    BY <2>1, <2>2 DEF Inv
<1>2. CASE Thread
  <2>1. PlayerInv' /\ asked' = asked
    BY <1>2, ThreadKeeps DEF Inv, Thread
  <2>2. polled' \in BOOLEAN
    BY <1>2 DEF Inv, SessionInv, EngineTypeOK, Thread, PlayerStep, PlayerBegins
  <2>3. SessionInv'
    BY <1>2, <2>1, <2>2 DEF Inv, SessionInv, EngineTypeOK, UtteranceIsFresh, ObserversAgree,
       Placed, AtRest, Thread
  <2>. QED
    BY <2>1, <2>3 DEF Inv
<1>3. CASE UNCHANGED vars
  <2>1. PlayerInv' /\ asked' = asked
    BY <1>3, HandleKeeps DEF Inv, HandleStep, vars, playerVars, handleVars
  <2>2. SessionInv'
    BY <1>3, <2>1 DEF vars, engineVars, Inv, SessionInv, EngineTypeOK, UtteranceIsFresh,
       ObserversAgree, Placed, AtRest
  <2>. QED
    BY <2>1, <2>2 DEF Inv
<1>. QED
  BY <1>1, <1>2, <1>3 DEF Next

\* Both invariants hold throughout.
LEMMA Invariance == Spec => []Inv
BY Starts, Keeps, PTL DEF Spec

\* The types, whatever the interleaving of the two threads.
THEOREM TypeCorrect == Spec => []TypeOK
<1>1. Inv => TypeOK
  BY DEF Inv, PlayerInv, SessionInv, TypeOK
<1>. QED
  BY <1>1, Invariance, PTL

\* A recording holds its own frames only (Session::enter_listening, on_speaking), and ends
\* before it is longer than the longest utterance.
THEOREM RecordingsAreFresh == Spec => []UtteranceIsFresh
<1>1. Inv => UtteranceIsFresh
  BY DEF Inv, SessionInv
<1>. QED
  BY <1>1, Invariance, PTL

\* Between two turns of the engine's loop the published state and the one observers were
\* told last are the session's (publish_state, apply_actions).
THEOREM ObserversAreTold == Spec => []ObserversAgree
<1>1. Inv => ObserversAgree
  BY DEF Inv, SessionInv
<1>. QED
  BY <1>1, Invariance, PTL

\* A stop cuts the sound that is being written within a frame (player_loop), however many
\* commands are queued and wherever the thread is.
THEOREM StopCuts == Spec => []StopCutsPlaying
<1>1. Inv => StopCutsPlaying
  BY DEF Inv, PlayerInv, CutStands, StopCutsPlaying
<1>. QED
  BY <1>1, Invariance, PTL

----------------------------------------------------------------------------
\* The detector of speech.

\* A run of frames of one kind, and what it opens and closes, in any sequence of frames.
RunOf(fs, from, to, voiced) == from \in 1..to /\ \A k \in from..to : fs[k] = voiced

\* Opens, Closes and inside of VadAgrees.
OpensAt(fs, k) == RunOf(fs, k + 1 - MinSpeech, k, TRUE)
ClosesAt(fs, k) == RunOf(fs, k + 1 - Hangover, k, FALSE)
InsideAt(fs, m) == \E i \in 1..m : OpensAt(fs, i) /\ \A j \in i..m : ~ClosesAt(fs, j)

\* The types of the detector.
HearingTypes ==
  /\ queued \in Seq(BOOLEAN) /\ heard \in Seq(BOOLEAN)
  /\ inSpeech \in BOOLEAN /\ speechFrames \in Nat /\ silenceFrames \in Nat

\* speechFrames counts the voiced frames at the end.
CountsVoiced ==
  /\ speechFrames <= Len(heard)
  /\ \A k \in 1..Len(heard) : k > Len(heard) - speechFrames => heard[k] = TRUE
  /\ speechFrames < Len(heard) => heard[Len(heard) - speechFrames] = FALSE
  /\ ~inSpeech => speechFrames < MinSpeech

\* Inside a segment, silenceFrames counts the silent frames at the end.
CountsSilent ==
  inSpeech =>
    /\ silenceFrames < Len(heard) /\ silenceFrames < Hangover
    /\ heard[Len(heard) - silenceFrames] = TRUE
    /\ \A k \in 1..Len(heard) : k > Len(heard) - silenceFrames => heard[k] = FALSE

\* The inductive invariant of the detector.
HearingInv == HearingTypes /\ CountsVoiced /\ CountsSilent /\ VadAgrees

\* VadAgrees is about the sequence of what was heard.
LEMMA VadOf ==
  VadAgrees <=>
    /\ inSpeech <=> InsideAt(heard, Len(heard))
    /\ decision = IF InsideAt(heard, Len(heard)) THEN "speech"
                  ELSE IF Len(heard) > 0 /\ InsideAt(heard, Len(heard) - 1) THEN "ended" ELSE "silence"
BY DEF VadAgrees, InsideAt, OpensAt, ClosesAt, RunOf, Opens, Closes, Run

\* One more frame decides nothing anew about the ones before it, and a segment goes on unless
\* this frame closes it.
LEMMA OneMoreFrame ==
  ASSUME NEW fs \in Seq(BOOLEAN), NEW gs \in Seq(BOOLEAN), NEW n \in Nat, n = Len(fs), Len(gs) = n + 1,
         \A k \in 1..n : gs[k] = fs[k]
  PROVE  /\ InsideAt(gs, n) <=> InsideAt(fs, n)
         /\ InsideAt(gs, n + 1) <=> (InsideAt(fs, n) \/ OpensAt(gs, n + 1)) /\ ~ClosesAt(gs, n + 1)
<1>. MinSpeech \in Nat \ {0} /\ Hangover \in Nat \ {0}
  BY HearingAssumption
<1>1. ASSUME NEW from \in Int, NEW k \in 1..n, NEW v \in BOOLEAN PROVE RunOf(gs, from, k, v) <=> RunOf(fs, from, k, v)
  BY DEF RunOf
<1>2. \A k \in 1..n : (OpensAt(gs, k) <=> OpensAt(fs, k)) /\ (ClosesAt(gs, k) <=> ClosesAt(fs, k))
  <2>. SUFFICES ASSUME NEW k \in 1..n PROVE (OpensAt(gs, k) <=> OpensAt(fs, k)) /\ (ClosesAt(gs, k) <=> ClosesAt(fs, k))
    OBVIOUS
  <2>1. k + 1 - MinSpeech \in Int /\ k + 1 - Hangover \in Int
    OBVIOUS
  <2>. QED
    BY <1>1, <2>1 DEF OpensAt, ClosesAt
<1>3. InsideAt(gs, n) <=> InsideAt(fs, n)
  <2>1. \A i \in 1..n : \A j \in i..n : j \in 1..n
    OBVIOUS
  <2>. QED
    BY <1>2, <2>1 DEF InsideAt
<1>4. ASSUME InsideAt(gs, n + 1) PROVE (InsideAt(fs, n) \/ OpensAt(gs, n + 1)) /\ ~ClosesAt(gs, n + 1)
  <2>1. PICK i \in 1..(n + 1) : OpensAt(gs, i) /\ \A j \in i..(n + 1) : ~ClosesAt(gs, j)
    BY <1>4 DEF InsideAt
  <2>2. n + 1 \in i..(n + 1)
    OBVIOUS
  <2>3. CASE i = n + 1
    BY <2>1, <2>2, <2>3
  <2>4. CASE i # n + 1
    <3>1. i \in 1..n /\ \A j \in i..n : j \in i..(n + 1)
      BY <2>4
    <3>2. InsideAt(gs, n)
      BY <2>1, <3>1 DEF InsideAt
    <3>. QED
      BY <1>3, <2>1, <2>2, <3>2
  <2>. QED
    BY <2>3, <2>4
<1>5. ASSUME InsideAt(fs, n) \/ OpensAt(gs, n + 1), ~ClosesAt(gs, n + 1) PROVE InsideAt(gs, n + 1)
  <2>1. CASE OpensAt(gs, n + 1)
    <3>1. n + 1 \in 1..(n + 1) /\ \A j \in (n + 1)..(n + 1) : j = n + 1
      OBVIOUS
    <3>. QED
      BY <1>5, <2>1, <3>1 DEF InsideAt
  <2>2. CASE InsideAt(fs, n)
    <3>1. PICK i \in 1..n : OpensAt(gs, i) /\ \A j \in i..n : ~ClosesAt(gs, j)
      BY <1>3, <2>2 DEF InsideAt
    <3>2. i \in 1..(n + 1) /\ \A j \in i..(n + 1) : j \in i..n \/ j = n + 1
      OBVIOUS
    <3>. QED
      BY <1>5, <3>1, <3>2 DEF InsideAt
  <2>. QED
    BY <1>5, <2>1, <2>2
<1>. QED
  BY <1>3, <1>4, <1>5

\* The queue holds frames.
LEMMA QueueTypes ==
  ASSUME queued \in Seq(BOOLEAN), [HearingNext]_hearingVars
  PROVE  queued' \in Seq(BOOLEAN)
<1>1. ASSUME NEW v \in BOOLEAN, CaptureFrame(v) PROVE queued' \in Seq(BOOLEAN)
  <2>1. Append(queued, v) \in Seq(BOOLEAN)
    OBVIOUS
  <2>2. queued' = Append(queued, v) \/ queued' = queued
    BY <1>1 DEF CaptureFrame
  <2>. QED
    BY <2>1, <2>2
<1>2. CASE Push
  <2>1. queued # <<>> /\ queued' = Tail(queued)
    BY <1>2 DEF Push
  <2>. QED
    BY <2>1
<1>3. CASE DropCapture
  <2>1. queued' = <<>>
    BY <1>3 DEF DropCapture
  <2>. QED
    BY <2>1
<1>4. CASE CaptureStops \/ UNCHANGED hearingVars
  BY <1>4 DEF CaptureStops, hearingVars
<1>. QED
  BY <1>1, <1>2, <1>3, <1>4 DEF HearingNext

\* What the detector says of one frame.
LEMMA PushHears ==
  ASSUME HearingInv, Push
  PROVE  HearingInv'
<1>. MinSpeech \in Nat \ {0} /\ Hangover \in Nat \ {0}
  BY HearingAssumption
<1>1. PICK v \in BOOLEAN, fs \in Seq(BOOLEAN), gs \in Seq(BOOLEAN), n \in Nat :
        /\ fs = heard /\ gs = heard' /\ v = Head(queued) /\ n = Len(fs) /\ Len(gs) = n + 1
        /\ gs[n + 1] = v /\ \A k \in 1..n : gs[k] = fs[k]
  <2>1. heard \in Seq(BOOLEAN) /\ queued \in Seq(BOOLEAN) /\ queued # <<>> /\ heard' = Append(heard, Head(queued))
    BY DEF HearingInv, HearingTypes, Push
  <2>2. Head(queued) \in BOOLEAN
    BY <2>1
  <2>3. /\ Append(heard, Head(queued)) \in Seq(BOOLEAN)
        /\ Len(Append(heard, Head(queued))) = Len(heard) + 1 /\ Len(heard) \in Nat
        /\ Append(heard, Head(queued))[Len(heard) + 1] = Head(queued)
        /\ \A k \in 1..Len(heard) : Append(heard, Head(queued))[k] = heard[k]
    BY <2>1, <2>2
  <2>. QED
    BY <2>1, <2>2, <2>3
<1>2. \A k \in 1..(n + 1) : k \in 1..n \/ k = n + 1
  OBVIOUS
<1>3. /\ inSpeech \in BOOLEAN /\ speechFrames \in Nat /\ silenceFrames \in Nat
      /\ speechFrames <= n
      /\ \A k \in 1..n : k > n - speechFrames => fs[k] = TRUE
      /\ speechFrames < n => fs[n - speechFrames] = FALSE
      /\ ~inSpeech => speechFrames < MinSpeech
      /\ inSpeech => /\ silenceFrames < n /\ silenceFrames < Hangover
                     /\ fs[n - silenceFrames] = TRUE
                     /\ \A k \in 1..n : k > n - silenceFrames => fs[k] = FALSE
  BY <1>1 DEF HearingInv, HearingTypes, CountsVoiced, CountsSilent
<1>4. inSpeech <=> InsideAt(fs, n)
  BY <1>1, VadOf DEF HearingInv
<1>5. /\ InsideAt(gs, n) <=> InsideAt(fs, n)
      /\ InsideAt(gs, n + 1) <=> (InsideAt(fs, n) \/ OpensAt(gs, n + 1)) /\ ~ClosesAt(gs, n + 1)
  BY <1>1, OneMoreFrame
<1>6. queued' \in Seq(BOOLEAN) /\ heard' \in Seq(BOOLEAN)
  BY <1>1, QueueTypes DEF HearingInv, HearingTypes, HearingNext
<1>7. CASE v
  <2>1. /\ speechFrames' = speechFrames + 1 /\ silenceFrames' = 0
        /\ inSpeech' = (inSpeech \/ speechFrames + 1 >= MinSpeech)
        /\ decision' = IF inSpeech \/ speechFrames + 1 >= MinSpeech THEN "speech" ELSE "silence"
    BY <1>1, <1>7 DEF Push, Voiced
  <2>2. gs[n + 1] = TRUE
    BY <1>1, <1>7
  <2>3. ~ClosesAt(gs, n + 1)
    BY <2>2 DEF ClosesAt, RunOf
  <2>4. speechFrames + 1 >= MinSpeech => OpensAt(gs, n + 1)
    <3>1. \A k \in 1..(n + 1) : k > n - speechFrames => gs[k] = TRUE
      BY <1>1, <1>2, <1>3, <2>2
    <3>2. speechFrames + 1 >= MinSpeech =>
            n + 2 - MinSpeech \in 1..(n + 1) /\ \A k \in (n + 2 - MinSpeech)..(n + 1) : k \in 1..(n + 1) /\ k > n - speechFrames
      BY <1>3
    <3>3. n + 1 + 1 - MinSpeech = n + 2 - MinSpeech
      OBVIOUS
    <3>. QED
      BY <3>1, <3>2, <3>3 DEF OpensAt, RunOf
  <2>5. OpensAt(gs, n + 1) => speechFrames + 1 >= MinSpeech
    <3>. SUFFICES ASSUME OpensAt(gs, n + 1), speechFrames + 1 < MinSpeech PROVE FALSE
      BY <1>3
    <3>1. n + 1 + 1 - MinSpeech \in 1..(n + 1) /\ \A k \in (n + 1 + 1 - MinSpeech)..(n + 1) : gs[k] = TRUE
      BY DEF OpensAt, RunOf
    <3>2. n - speechFrames \in (n + 1 + 1 - MinSpeech)..(n + 1) /\ speechFrames < n /\ n - speechFrames \in 1..n
      BY <1>3, <3>1
    <3>. QED
      BY <1>1, <1>3, <3>1, <3>2
  <2>6. inSpeech' <=> InsideAt(gs, n + 1)
    BY <1>4, <1>5, <2>1, <2>3, <2>4, <2>5
  <2>7. VadAgrees'
    <3>1. /\ inSpeech' <=> InsideAt(heard', Len(heard'))
          /\ decision' = IF InsideAt(heard', Len(heard')) THEN "speech"
                         ELSE IF Len(heard') > 0 /\ InsideAt(heard', Len(heard') - 1) THEN "ended" ELSE "silence"
      <4>1. Len(heard') = n + 1 /\ heard' = gs /\ n + 1 - 1 = n
        BY <1>1
      <4>2. decision' = IF InsideAt(gs, n + 1) THEN "speech" ELSE "silence"
        BY <2>1, <2>6
      <4>3. ~InsideAt(gs, n + 1) => ~InsideAt(gs, n)
        BY <1>5, <2>3
      <4>. QED
        BY <2>6, <4>1, <4>2, <4>3
    <3>. QED
      BY <3>1 DEF VadAgrees, InsideAt, OpensAt, ClosesAt, RunOf, Opens, Closes, Run
  <2>8. HearingTypes'
    BY <1>3, <1>6, <2>1 DEF HearingTypes
  <2>9. CountsVoiced'
    <3>1. \A k \in 1..(n + 1) : k > n + 1 - (speechFrames + 1) => gs[k] = TRUE
      BY <1>1, <1>2, <1>3, <2>2
    <3>2. speechFrames + 1 < n + 1 => gs[n + 1 - (speechFrames + 1)] = FALSE
      <4>1. n + 1 - (speechFrames + 1) = n - speechFrames /\ (speechFrames + 1 < n + 1 => speechFrames < n)
        BY <1>3
      <4>2. speechFrames < n => n - speechFrames \in 1..n
        BY <1>3
      <4>3. speechFrames < n => gs[n - speechFrames] = FALSE
        BY <1>1, <1>3, <4>2
      <4>. QED
        BY <4>1, <4>3
    <3>3. ~inSpeech' => speechFrames + 1 < MinSpeech
      <4>1. ~inSpeech' => ~(speechFrames + 1 >= MinSpeech)
        BY <2>1
      <4>2. ~(speechFrames + 1 >= MinSpeech) => speechFrames + 1 < MinSpeech
        BY <1>3
      <4>. QED
        BY <4>1, <4>2
    <3>. QED
      BY <1>1, <1>3, <2>1, <3>1, <3>2, <3>3 DEF CountsVoiced
  <2>10. CountsSilent'
    BY <1>1, <2>1, <2>2 DEF CountsSilent
  <2>. QED
    BY <2>7, <2>8, <2>9, <2>10 DEF HearingInv
<1>8. CASE ~v
  <2>1. /\ speechFrames' = 0
        /\ ~inSpeech => decision' = "silence" /\ inSpeech' = inSpeech /\ silenceFrames' = silenceFrames
        /\ inSpeech /\ silenceFrames + 1 >= Hangover => decision' = "ended" /\ inSpeech' = FALSE /\ silenceFrames' = 0
        /\ inSpeech /\ ~(silenceFrames + 1 >= Hangover) =>
             decision' = "speech" /\ silenceFrames' = silenceFrames + 1 /\ inSpeech' = inSpeech
    BY <1>1, <1>8 DEF Push, Silent, AfterSilence
  <2>2. gs[n + 1] = FALSE
    BY <1>1, <1>8
  <2>3. ~OpensAt(gs, n + 1)
    BY <2>2 DEF OpensAt, RunOf
  <2>4. inSpeech /\ silenceFrames + 1 >= Hangover => ClosesAt(gs, n + 1)
    <3>. SUFFICES ASSUME inSpeech, silenceFrames + 1 >= Hangover PROVE ClosesAt(gs, n + 1)
      OBVIOUS
    <3>1. \A k \in 1..(n + 1) : k > n - silenceFrames => gs[k] = FALSE
      BY ZenonT(60), <1>1, <1>2, <1>3, <2>2
    <3>2. n + 1 + 1 - Hangover \in 1..(n + 1) /\ \A k \in (n + 1 + 1 - Hangover)..(n + 1) : k \in 1..(n + 1) /\ k > n - silenceFrames
      BY <1>3
    <3>. QED
      BY <3>1, <3>2 DEF ClosesAt, RunOf
  <2>5. inSpeech /\ ClosesAt(gs, n + 1) => silenceFrames + 1 >= Hangover
    <3>. SUFFICES ASSUME inSpeech, ClosesAt(gs, n + 1), silenceFrames + 1 < Hangover PROVE FALSE
      BY <1>3
    <3>1. n + 1 + 1 - Hangover \in 1..(n + 1) /\ \A k \in (n + 1 + 1 - Hangover)..(n + 1) : gs[k] = FALSE
      BY DEF ClosesAt, RunOf
    <3>2. n - silenceFrames \in (n + 1 + 1 - Hangover)..(n + 1) /\ n - silenceFrames \in 1..n
      BY <1>3, <3>1
    <3>. QED
      BY <1>1, <1>3, <3>1, <3>2
  <2>6. inSpeech' <=> InsideAt(gs, n + 1)
    BY <1>4, <1>5, <2>1, <2>3, <2>4, <2>5
  <2>7. VadAgrees'
    <3>1. /\ inSpeech' <=> InsideAt(heard', Len(heard'))
          /\ decision' = IF InsideAt(heard', Len(heard')) THEN "speech"
                         ELSE IF Len(heard') > 0 /\ InsideAt(heard', Len(heard') - 1) THEN "ended" ELSE "silence"
      <4>1. Len(heard') = n + 1 /\ heard' = gs /\ n + 1 - 1 = n /\ n + 1 > 0
        BY <1>1
      <4>2. decision' = IF InsideAt(gs, n + 1) THEN "speech" ELSE IF InsideAt(gs, n) THEN "ended" ELSE "silence"
        BY <1>4, <1>5, <2>1, <2>6
      <4>. QED
        BY <2>6, <4>1, <4>2
    <3>. QED
      BY <3>1 DEF VadAgrees, InsideAt, OpensAt, ClosesAt, RunOf, Opens, Closes, Run
  <2>8. HearingTypes'
    <3>1. inSpeech' \in BOOLEAN
      BY <1>3, <2>1
    <3>2. silenceFrames' \in Nat
      BY <1>3, <2>1
    <3>. QED
      BY <1>6, <2>1, <3>1, <3>2 DEF HearingTypes
  <2>9. CountsVoiced'
    BY <1>1, <2>1, <2>2 DEF CountsVoiced
  <2>10. CountsSilent'
    <3>. SUFFICES ASSUME inSpeech' PROVE CountsSilent'
      BY DEF CountsSilent
    <3>1. inSpeech /\ silenceFrames' = silenceFrames + 1 /\ silenceFrames + 1 < Hangover
      <4>1. inSpeech /\ ~(silenceFrames + 1 >= Hangover)
        BY <2>1
      <4>2. ~(silenceFrames + 1 >= Hangover) => silenceFrames + 1 < Hangover
        BY <1>3
      <4>. QED
        BY <2>1, <4>1, <4>2
    <3>2. gs[n - silenceFrames] = TRUE
      <4>1. n - silenceFrames \in 1..n
        BY <1>3, <3>1
      <4>. QED
        BY <1>1, <1>3, <3>1, <4>1
    <3>3. \A k \in 1..(n + 1) : k > n - silenceFrames => gs[k] = FALSE
      BY ZenonT(60), <1>1, <1>2, <1>3, <2>2, <3>1
    <3>4. n + 1 - (silenceFrames + 1) = n - silenceFrames /\ silenceFrames + 1 < n + 1
      BY <1>3, <3>1
    <3>. QED
      BY <1>1, <3>1, <3>2, <3>3, <3>4 DEF CountsSilent
  <2>. QED
    BY <2>7, <2>8, <2>9, <2>10 DEF HearingInv
<1>. QED
  BY <1>7, <1>8

\* However many frames the queue lost, the detector is inside a segment exactly when enough voiced
\* frames have followed each other since enough silent ones last did, and says once that the segment has
\* ended (Detector::push of ira-vad), for any lengths of the queue, of speech and of hangover.
THEOREM DetectorAgrees == HearingSpec => []VadAgrees
<1>1. HearingInit => HearingInv
  <2> SUFFICES ASSUME HearingInit PROVE HearingInv
    OBVIOUS
  <2>1. heard = <<>> /\ queued = <<>> /\ Len(heard) = 0 /\ inSpeech = FALSE /\ speechFrames = 0 /\ silenceFrames = 0
        /\ decision = "silence" /\ <<>> \in Seq(BOOLEAN)
    BY DEF HearingInit
  <2>2. HearingTypes /\ CountsSilent
    BY <2>1 DEF HearingTypes, CountsSilent
  <2>4. CountsVoiced
    <3>1. MinSpeech \in Nat \ {0}
      BY HearingAssumption
    <3>2. 0 < MinSpeech /\ 0 <= 0 /\ 1..0 = {}
      BY <3>1
    <3>. QED
      BY <2>1, <3>2 DEF CountsVoiced
  <2>3. ~InsideAt(heard, 0)
    BY DEF InsideAt
  <2>. QED
    BY <2>1, <2>2, <2>3, <2>4, VadOf DEF HearingInv
<1>2. HearingInv /\ [HearingNext]_hearingVars => HearingInv'
  <2> SUFFICES ASSUME HearingInv, [HearingNext]_hearingVars PROVE HearingInv'
    OBVIOUS
  <2>1. CASE UNCHANGED <<inSpeech, speechFrames, silenceFrames, decision, heard>> /\ queued' \in Seq(BOOLEAN)
    BY <2>1 DEF HearingInv, HearingTypes, CountsVoiced, CountsSilent, VadAgrees, Opens, Closes, Run
  <2>2. queued' \in Seq(BOOLEAN)
    BY QueueTypes DEF HearingInv, HearingTypes
  <2>3. ASSUME NEW v \in BOOLEAN, CaptureFrame(v) PROVE HearingInv'
    BY <2>1, <2>2, <2>3 DEF CaptureFrame
  <2>4. CASE CaptureStops \/ DropCapture \/ UNCHANGED hearingVars
    BY <2>1, <2>2, <2>4 DEF CaptureStops, DropCapture, hearingVars
  <2>. QED
    BY <2>3, <2>4, PushHears DEF HearingNext
<1>3. HearingInv => VadAgrees
  BY DEF HearingInv
<1>. QED
  BY <1>1, <1>2, <1>3, PTL DEF HearingSpec

=============================================================================
