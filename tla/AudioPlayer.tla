---------------------------- MODULE AudioPlayer ----------------------------
(***************************************************************************)
(* Playback: the handle and the thread of ira-audio/src/player.rs.         *)
(*                                                                         *)
(* The handle sets a flag and queues a command; the thread takes commands  *)
(* in order and looks at the flag before each frame. The thread sets the   *)
(* flag too, when it begins a sound.                                       *)
(*                                                                         *)
(* One thread calls the handle (VoiceEngine), and the player's thread sees *)
(* flag and queue at different moments, so setting the one and adding to   *)
(* the other are one step. The device may fail: a stream that does not     *)
(* open ends the thread, and whatever is asked of the handle from then on  *)
(* is lost; a frame that is refused ends its sound. Abstracted: samples,   *)
(* resampling (it takes time, between taking a sound and beginning it).    *)
(***************************************************************************)
EXTENDS Integers, Sequences

CONSTANTS
  SoundFrames,     \* frames of a sound
  MaxDeviceFaults  \* bound: times the device fails

ASSUME AudioPlayerAssumption == SoundFrames \in Nat \ {0} /\ MaxDeviceFaults \in Nat

VARIABLES
  queue,    \* commands: the number of a sound, or Silence or Shutdown
  stop,     \* the flag
  playing,  \* what is_playing reports
  thread,   \* "opening", "idle", "taken", "begun", "looping", "writing", "over", "flushing", "gone"
  sound,    \* the sound it is at
  left,     \* its frames that are not written
  asked,    \* sounds asked for so far
  ended,    \* sounds the thread is done with
  faults,   \* times the device failed so far
  stopped,  \* history: the sounds asked for before the last stop
  cut,      \* history: the one being written at that moment, 0 when another was asked
  late      \* history: frames of stopped sounds written since

handleVars == <<queue, stop, asked, stopped, cut>>
threadVars == <<playing, thread, sound, left, ended, faults>>
playerVars == <<handleVars, threadVars, late>>

\* Commands beside the sounds, which are numbered from 1.
Silence == 0
Shutdown == -1

Cmd == {Shutdown, Silence} \union 1..asked

PlayerInit ==
  /\ queue = <<>> /\ stop = FALSE /\ playing = FALSE
  /\ thread = "opening" /\ sound = 0 /\ left = 0 /\ faults = 0
  /\ asked = 0 /\ ended = 0
  /\ stopped = 0 /\ cut = 0 /\ late = 0

----------------------------------------------------------------------------
\* The handle.

\* tx.send: nobody receives when the thread has ended, and the callers ignore the error.
Enqueue(cmd) == queue' = IF thread = "gone" THEN queue ELSE Append(queue, cmd)

Play ==
  /\ stop' = FALSE
  /\ asked' = asked + 1
  /\ Enqueue(asked + 1)
  /\ cut' = 0
  /\ UNCHANGED <<stopped, late, threadVars>>

StopPlayback ==
  /\ stop' = TRUE
  /\ Enqueue(Silence)
  /\ stopped' = asked
  /\ cut' = IF thread \in {"looping", "writing"} THEN sound ELSE 0
  /\ late' = 0
  /\ UNCHANGED <<asked, threadVars>>

\* The handle is dropped.
DropPlayer ==
  /\ stop' = TRUE
  /\ Enqueue(Shutdown)
  /\ UNCHANGED <<asked, stopped, cut, late, threadVars>>

----------------------------------------------------------------------------
\* The thread.

At(here, there) == thread = here /\ thread' = there

OpenStream ==
  /\ At("opening", "idle")
  /\ UNCHANGED <<handleVars, late, playing, sound, left, ended, faults>>

DeviceFails == faults < MaxDeviceFaults /\ faults' = faults + 1

\* The thread ends with the error, and its end of the channel with it.
OpenFails ==
  /\ At("opening", "gone")
  /\ DeviceFails
  /\ queue' = <<>>
  /\ UNCHANGED <<stop, asked, stopped, cut, late, playing, sound, left, ended>>

Take(there) == queue # <<>> /\ At("idle", there) /\ queue' = Tail(queue)

TakeSound ==
  /\ Take("taken") /\ Head(queue) > 0
  /\ sound' = Head(queue)
  /\ left' = SoundFrames
  /\ UNCHANGED <<stop, asked, stopped, cut, late, playing, ended, faults>>

TakeSilence ==
  /\ Take("idle") /\ Head(queue) = Silence
  /\ playing' = FALSE
  /\ UNCHANGED <<stop, asked, stopped, cut, late, sound, left, ended, faults>>

TakeShutdown ==
  /\ Take("gone") /\ Head(queue) = Shutdown
  /\ UNCHANGED <<stop, asked, stopped, cut, late, playing, sound, left, ended, faults>>

Begin ==
  /\ At("taken", "begun")
  /\ playing' = TRUE
  /\ UNCHANGED <<handleVars, late, sound, left, ended, faults>>

\* A stop asked for since the sound was queued is forgotten.
ForgetStop ==
  /\ At("begun", "looping")
  /\ stop' = FALSE
  /\ UNCHANGED <<queue, asked, stopped, cut, late, playing, sound, left, ended, faults>>

\* Mutant: the flag is looked at before the first frame only.
LookOnce ==
  /\ left > 0
  /\ At("looping", IF stop /\ left = SoundFrames THEN "over" ELSE "writing")
  /\ UNCHANGED <<handleVars, late, playing, sound, left, ended, faults>>

Look ==
  /\ left > 0
  /\ At("looping", IF stop THEN "over" ELSE "writing")
  /\ UNCHANGED <<handleVars, late, playing, sound, left, ended, faults>>

Write ==
  /\ At("writing", "looping")
  /\ left' = left - 1
  /\ late' = IF sound <= stopped THEN late + 1 ELSE late
  /\ UNCHANGED <<handleVars, playing, sound, ended, faults>>

\* The device refuses a frame: the rest of the sound is given up.
WriteFails ==
  /\ At("writing", "over")
  /\ DeviceFails
  /\ UNCHANGED <<handleVars, late, playing, sound, left, ended>>

\* The frames are written.
RunOut ==
  /\ left = 0
  /\ At("looping", "over")
  /\ UNCHANGED <<handleVars, late, playing, sound, left, ended, faults>>

\* Mutant: the report is left to the command that silences.
EndIfStopped ==
  /\ At("over", "flushing")
  /\ playing' = (playing /\ ~stop)
  /\ ended' = sound
  /\ UNCHANGED <<handleVars, late, sound, left, faults>>

End ==
  /\ At("over", "flushing")
  /\ playing' = FALSE
  /\ ended' = sound
  /\ UNCHANGED <<handleVars, late, sound, left, faults>>

\* What the device holds is discarded if the flag is up.
Flush ==
  /\ At("flushing", "idle")
  /\ UNCHANGED <<handleVars, late, playing, sound, left, ended, faults>>

PlayerTypeOK ==
  /\ asked \in Nat /\ ended \in 0..asked /\ stopped \in 0..asked
  /\ queue \in Seq(Cmd)
  /\ stop \in BOOLEAN /\ playing \in BOOLEAN
  /\ thread \in {"opening", "idle", "taken", "begun", "looping", "writing", "over", "flushing", "gone"}
  /\ sound \in 0..asked /\ cut \in 0..asked
  /\ left \in 0..SoundFrames
  /\ faults \in 0..MaxDeviceFaults
  /\ late \in Nat

=============================================================================
