---------------------------- MODULE VoiceEngine ----------------------------
(***************************************************************************)
(* The voice session and the thread that runs it: Session and run_engine   *)
(* of ira-core, over the player of ira-audio.                              *)
(*                                                                         *)
(* The thread takes all commands, then waits for a frame of the microphone *)
(* for at most 20 ms, then looks whether the player still plays: that it   *)
(* no longer does, when it did at the last look, is the end of playback.   *)
(* Recognition and the model run on the same thread.                       *)
(*                                                                         *)
(* As the daemon builds it: the wake word never hits (load_wake returns    *)
(* NoopWake) and synthesis never fails (NullTts). Abstracted: samples, the *)
(* thresholds of speech detection (its events are kept), texts.            *)
(***************************************************************************)
EXTENDS AudioPlayer

CONSTANTS
  BargeIn,        \* cfg.barge_in
  ListenTimeout,  \* silent frames before listening is given up (200)
  MaxUtterance,   \* frames of the longest utterance (750)
  MaxCommands,    \* bound: commands sent
  MaxReplies      \* bound: replies of the model that are not empty

ASSUME VoiceEngineAssumption ==
  /\ BargeIn \in BOOLEAN
  /\ ListenTimeout \in Nat \ {0}
  /\ MaxUtterance \in Nat \ {0, 1}
  /\ MaxCommands \in Nat /\ MaxReplies \in Nat

VARIABLES
  session,  \* its state, the frames it keeps, and its two counters
  pc,       \* where the thread is
  cmds,     \* the channel of commands
  sent,     \* commands sent so far
  replies,  \* replies so far
  speech,   \* speech detection is inside a segment
  was,      \* was_playing
  polled,   \* the player was looked at since it began the sound it is at
  slot,     \* the published state
  said,     \* the last state observers were told
  finished  \* history: sounds whose end the session was told of

engineVars == <<session, pc, cmds, sent, replies, speech, was, polled, slot, said, finished>>
vars == <<playerVars, engineVars>>

States == {"idle", "listening", "recording", "transcribing", "thinking", "speaking"}

Init ==
  /\ PlayerInit
  /\ session = [state |-> "idle", utterance |-> 0, frames |-> 0, silence |-> 0]
  /\ pc = "commands"
  /\ cmds = <<>> /\ sent = 0 /\ replies = 0
  /\ speech = FALSE
  /\ was = FALSE /\ polled = FALSE
  /\ slot = "idle" /\ said = "idle"
  /\ finished = 0

Goto(here, there) == pc = here /\ pc' = there

\* A state that observers are told before it is published.
Tell(state) == said' = state /\ UNCHANGED slot

\* publish_state tells them only when the slot changes.
Publish(state) == slot' = state /\ said' = IF slot # state THEN state ELSE said

TellAndPublish(state) == slot' = state /\ said' = state

To(state) == [session EXCEPT !.state = state]

----------------------------------------------------------------------------
\* Commands.

Send ==
  /\ sent < MaxCommands
  /\ sent' = sent + 1
  /\ \E cmd \in {"listen", "stop", "speak"} : cmds' = Append(cmds, cmd)
  /\ UNCHANGED <<playerVars, session, pc, replies, speech, was, polled, slot, said, finished>>

TakeCommand(cmd, there) ==
  /\ Goto("commands", there)
  /\ cmds # <<>> /\ Head(cmds) = cmd
  /\ cmds' = Tail(cmds)
  /\ UNCHANGED <<sent, replies, speech, was, polled, finished>>

\* Mutant: what was recorded is kept.
EnterListeningOnly == [session EXCEPT !.state = "listening", !.frames = 0, !.silence = 0]

EnterListening ==
  [state |-> "listening", utterance |-> 0, frames |-> 0, silence |-> 0]

Listen ==
  /\ TakeCommand("listen", "commands")
  /\ session' = EnterListening
  /\ StopPlayback
  /\ Publish("listening")

ForceIdle ==
  /\ TakeCommand("stop", "commands")
  /\ session' = [session EXCEPT !.state = "idle", !.utterance = 0]
  /\ StopPlayback
  /\ Publish("idle")

\* Nothing that plays or is queued is stopped.
Speak ==
  /\ TakeCommand("speak", "speak")
  /\ session' = To("speaking")
  /\ UNCHANGED <<playerVars, slot, said>>

NoCommand ==
  /\ cmds = <<>>
  /\ Goto("commands", "frame")
  /\ UNCHANGED <<playerVars, session, cmds, sent, replies, speech, was, polled, slot, said, finished>>

\* The sound is queued, not played.
Synthesize(here, there) ==
  /\ Goto(here, there)
  /\ Play
  /\ Publish(session.state)
  /\ UNCHANGED <<session, cmds, sent, replies, speech, was, polled, finished>>

----------------------------------------------------------------------------
\* Frames. A frame is in a segment of speech, outside of one, or ends one; a recording
\* begins and goes on inside a segment.

Frame(event, there) ==
  /\ Goto("frame", there)
  /\ \/ event = "speech" /\ speech' = TRUE
     \/ event = "silence" /\ ~speech /\ UNCHANGED speech
     \/ event = "ended" /\ speech /\ speech' = FALSE
  /\ UNCHANGED <<cmds, sent, replies, was, polled, finished>>

Quiet == {"silence", "ended"}

\* Nothing but the detector sees it: the session is idle, or speaks and is not to be
\* interrupted.
IgnoreFrame ==
  /\ \/ session.state = "idle" /\ \E event \in {"speech"} \union Quiet : Frame(event, "poll")
     \/ session.state = "speaking" /\ \E event \in {"speech"} \union Quiet : Frame(event, "poll")
  /\ UNCHANGED <<playerVars, session, slot, said>>

\* The first frame of a recording is already in the utterance.
StartRecording ==
  /\ session.state = "listening"
  /\ Frame("speech", "poll")
  /\ session' = [session EXCEPT !.state = "recording", !.utterance = @ + 1, !.frames = 1]
  /\ TellAndPublish("recording")
  /\ UNCHANGED playerVars

HeardNobody(n) == n >= ListenTimeout

KeepListening ==
  /\ session.state = "listening"
  /\ \E event \in Quiet : Frame(event, "poll")
  /\ LET n == session.silence + 1
         state == IF HeardNobody(n) THEN "idle" ELSE "listening"
     IN  /\ session' = [session EXCEPT !.state = state, !.silence = n]
         /\ Publish(state)
  /\ UNCHANGED playerVars

TooLong == session.frames + 1 >= MaxUtterance

KeepRecording ==
  /\ session.state = "recording" /\ ~TooLong
  /\ Frame("speech", "poll")
  /\ session' = [session EXCEPT !.utterance = @ + 1, !.frames = @ + 1]
  /\ UNCHANGED <<playerVars, slot, said>>

\* The utterance is handed to recognition.
FinishUtterance ==
  /\ session.state = "recording"
  /\ \/ Frame("ended", "stt")
     \/ TooLong /\ Frame("speech", "stt")
  /\ session' = [session EXCEPT !.state = "transcribing", !.utterance = 0, !.frames = @ + 1]
  /\ Tell("transcribing")
  /\ UNCHANGED playerVars

\* A loud frame of speech interrupts the reply and begins the next utterance.
Interrupt ==
  /\ session.state = "speaking" /\ BargeIn
  /\ Frame("speech", "poll")
  /\ session' = [session EXCEPT !.state = "recording", !.utterance = 1, !.frames = 1]
  /\ StopPlayback
  /\ TellAndPublish("recording")

NoFrame ==
  /\ Goto("frame", "poll")
  /\ UNCHANGED <<playerVars, session, cmds, sent, replies, speech, was, polled, slot, said, finished>>

\* The microphone is gone: the thread ends and drops the player.
CaptureEnds ==
  /\ Goto("frame", "ended")
  /\ DropPlayer
  /\ UNCHANGED <<session, cmds, sent, replies, speech, was, polled, slot, said, finished>>

----------------------------------------------------------------------------
\* Recognition and the model, on the same thread. Either may give nothing.

Nothing(here) ==
  /\ Goto(here, "poll")
  /\ session' = To("idle")
  /\ TellAndPublish("idle")
  /\ UNCHANGED <<playerVars, cmds, sent, replies, speech, was, polled, finished>>

OnTranscript ==
  /\ Goto("stt", "llm")
  /\ session' = To("thinking")
  /\ Tell("thinking")
  /\ UNCHANGED <<playerVars, cmds, sent, replies, speech, was, polled, finished>>

\* The reply, or a sentence about the failure.
OnReply ==
  /\ replies < MaxReplies
  /\ Goto("llm", "answer")
  /\ replies' = replies + 1
  /\ session' = To("speaking")
  /\ Tell("speaking")
  /\ UNCHANGED <<playerVars, cmds, sent, speech, was, polled, finished>>

----------------------------------------------------------------------------
OnPlaybackFinished ==
  /\ session' = To("idle")
  /\ finished' = asked
  /\ TellAndPublish("idle")

Poll ==
  /\ Goto("poll", "commands")
  /\ was' = playing
  /\ polled' = TRUE
  /\ IF was /\ ~playing /\ session.state = "speaking"
       THEN OnPlaybackFinished
       ELSE UNCHANGED <<session, slot, said, finished>>
  /\ UNCHANGED <<playerVars, cmds, sent, replies, speech>>

\* The player's thread. A sound lasts longer than the engine's loop takes (180 ms or
\* more against 20 ms), unless recognition or the model make it wait.
Paced == polled \/ pc \in {"stt", "llm", "ended"}

PlayerBegins == Begin /\ polled' = FALSE

PlayerStep ==
  \/ PlayerBegins
  \/ /\ OpenStream \/ OpenFails \/ TakeSound \/ TakeSilence \/ TakeShutdown
          \/ ForgetStop \/ Look \/ Write \/ WriteFails \/ (Paced /\ RunOut) \/ End \/ Flush
     /\ UNCHANGED polled

Thread ==
  /\ PlayerStep
  /\ UNCHANGED <<session, pc, cmds, sent, replies, speech, was, slot, said, finished>>

Engine ==
  \/ Listen \/ ForceIdle \/ Speak \/ NoCommand
  \/ Synthesize("speak", "commands") \/ Synthesize("answer", "poll")
  \/ IgnoreFrame \/ StartRecording \/ KeepListening \/ KeepRecording \/ FinishUtterance
  \/ Interrupt \/ NoFrame
  \/ Nothing("stt") \/ Nothing("llm") \/ OnTranscript \/ OnReply
  \/ Poll

Next == Send \/ Engine \/ Thread \/ CaptureEnds

Spec == Init /\ [][Next]_vars

\* Both threads run; recognition and the model answer.
FairSpec == Spec /\ WF_vars(Engine) /\ WF_vars(Thread)

----------------------------------------------------------------------------
AtRest == pc \in {"commands", "frame", "poll", "ended"}

Sessions ==
  [state : States, utterance : 0..MaxUtterance, frames : 0..MaxUtterance,
   silence : 0..ListenTimeout]

EngineTypeOK ==
  /\ session \in Sessions
  /\ session.state = "listening" => session.silence < ListenTimeout
  /\ pc \in {"commands", "frame", "poll", "stt", "llm", "speak", "answer", "ended"}
  /\ AtRest => session.state \notin {"transcribing", "thinking"}
  /\ cmds \in Seq({"listen", "stop", "speak"})
  /\ sent \in 0..MaxCommands /\ replies \in 0..MaxReplies
  /\ speech \in BOOLEAN /\ was \in BOOLEAN /\ polled \in BOOLEAN
  /\ slot \in States /\ said \in States
  /\ finished \in 0..asked

\* Type invariant; a session is only transcribing or thinking inside one turn of the loop.
TypeOK == PlayerTypeOK /\ EngineTypeOK

\* Audio of a recording that was given up never reaches recognition: the utterance is
\* the frames of this recording, and no longer than the longest one.
UtteranceIsFresh ==
  session.state = "recording" =>
    session.utterance = session.frames /\ session.frames < MaxUtterance

\* Between two turns of the loop, what `ira-ctl status` reads and what observers were told
\* last is what the session is in.
ObserversAgree == AtRest => slot = session.state /\ said = session.state

\* A sound that was being written when a stop was asked for goes on for one frame at
\* most (player.rs: "frame-boundary cancellation"), unless another was asked for since.
StopCutsPlaying == sound = cut /\ sound # 0 => late <= 1

\* The session does not stay in speaking: the end of its sound is noticed, whatever was
\* stopped, queued or asked for meanwhile.  Not so once the device has failed: nothing is
\* ever played by a thread whose stream did not open, a sound cut off by a refused frame may
\* be over between two polls, and the engine does not look at what play returns.
SpeakingIsLeft ==
  session.state = "speaking" ~> session.state # "speaking" \/ pc = "ended" \/ faults > 0

\* What the command is for (ipc.md: "Cancel listen or playback"; ira-ctl: "cancel listen or
\* playback"): what was asked for before is not played after, one frame apart.
StopSilences == late <= 1

\* What the session relies on (session.rs: "The engine must deliver STT, LLM, and playback
\* results in order"): when it is told that playback finished, so has what it asked for.
PlaybackInOrder == finished <= ended

=============================================================================
