------------------------------- MODULE Hearing --------------------------------
(***************************************************************************)
(* What the voice engine hears: the capture thread (ira-audio/src/         *)
(* capture.rs), its queue of a few frames, which loses those that find it  *)
(* full, and the detector that cuts the frames into segments of speech     *)
(* (ira-vad/src/lib.rs).                                                   *)
(*                                                                         *)
(* A frame is voiced or silent, as the WebRTC classifier says; every frame *)
(* has the length the detector expects (20 ms of the device, resampled).   *)
(* Abstracted: samples and rates.                                          *)
(***************************************************************************)
EXTENDS Naturals, Sequences

CONSTANTS
  QueueSize,  \* frames the queue holds (8)
  MinSpeech,  \* voiced frames that make a segment (8)
  Hangover,   \* silent frames that close it (25, or what the settings say)
  MaxFrames   \* bound: frames captured

ASSUME HearingAssumption ==
  /\ {QueueSize, MinSpeech, Hangover} \subseteq Nat \ {0}
  /\ MaxFrames \in Nat

VARIABLES
  mic,       \* the capture thread: "on", "off"
  quit,      \* its stop flag
  listening, \* the engine holds the other end of the queue
  queued,    \* frames in the queue
  inSpeech, speechFrames, silenceFrames,  \* the detector
  decision,  \* what it said of the last frame
  captured,  \* frames captured so far
  heard      \* history: the frames the detector was given

hearingVars == <<mic, quit, listening, queued, inSpeech, speechFrames, silenceFrames, decision,
                 captured, heard>>

HearingInit ==
  /\ mic = "on" /\ quit = FALSE /\ listening = TRUE
  /\ queued = <<>>
  /\ inSpeech = FALSE /\ speechFrames = 0 /\ silenceFrames = 0
  /\ decision = "silence"
  /\ captured = 0 /\ heard = <<>>

\* A frame of the microphone; try_send never waits.
CaptureFrame(voiced) ==
  /\ mic = "on" /\ ~quit /\ captured < MaxFrames
  /\ captured' = captured + 1
  /\ mic' = IF listening THEN "on" ELSE "off"
  /\ queued' = IF listening /\ Len(queued) < QueueSize THEN Append(queued, voiced) ELSE queued
  /\ UNCHANGED <<quit, listening, inSpeech, speechFrames, silenceFrames, decision, heard>>

\* The device fails, or the thread sees the flag: the engine reads what is queued, then the end.
CaptureStops ==
  /\ mic = "on" /\ mic' = "off"
  /\ UNCHANGED <<quit, listening, queued, inSpeech, speechFrames, silenceFrames, decision,
                 captured, heard>>

\* Capture is dropped: the flag is set and the queue goes with it.
DropCapture ==
  /\ listening /\ listening' = FALSE /\ quit' = TRUE
  /\ queued' = <<>>
  /\ UNCHANGED <<mic, inSpeech, speechFrames, silenceFrames, decision, captured, heard>>

\* Mutant: voiced frames need not follow each other.
SilentGivingBack == speechFrames

\* A silent frame begins the count of voiced ones again.
AfterSilence == 0

Voiced ==
  LET begins == inSpeech \/ speechFrames + 1 >= MinSpeech IN
    /\ speechFrames' = speechFrames + 1
    /\ silenceFrames' = 0
    /\ inSpeech' = begins
    /\ decision' = IF begins THEN "speech" ELSE "silence"

Silent ==
  /\ speechFrames' = AfterSilence
  /\ IF ~inSpeech
       THEN decision' = "silence" /\ UNCHANGED <<inSpeech, silenceFrames>>
     ELSE IF silenceFrames + 1 >= Hangover
       THEN decision' = "ended" /\ inSpeech' = FALSE /\ silenceFrames' = 0
     ELSE decision' = "speech" /\ silenceFrames' = silenceFrames + 1 /\ UNCHANGED inSpeech

\* The engine gives every frame to the detector, in whatever state it is.
Push ==
  /\ listening /\ queued # <<>>
  /\ queued' = Tail(queued)
  /\ heard' = Append(heard, Head(queued))
  /\ IF Head(queued) THEN Voiced ELSE Silent
  /\ UNCHANGED <<mic, quit, listening, captured>>

HearingNext == CaptureStops \/ DropCapture \/ Push \/ \E v \in BOOLEAN : CaptureFrame(v)

HearingSpec == HearingInit /\ [][HearingNext]_hearingVars

----------------------------------------------------------------------------
Run(from, to, voiced) == from \in 1 .. to /\ \A k \in from .. to : heard[k] = voiced

\* MinSpeech voiced frames on end up at k open a segment, Hangover silent ones close it.
Opens(k) == Run(k + 1 - MinSpeech, k, TRUE)
Closes(k) == Run(k + 1 - Hangover, k, FALSE)

\* However many frames were lost on the way, the detector is inside a segment exactly when
\* enough voiced frames have followed each other since enough silent ones last did; it says so of
\* every frame, and says once that the segment has ended, on the frame that ends it.
VadAgrees ==
  LET n == Len(heard)
      inside(m) == \E i \in 1 .. m : Opens(i) /\ \A j \in i .. m : ~Closes(j) IN
    /\ inSpeech <=> inside(n)
    /\ decision = IF inside(n) THEN "speech"
                  ELSE IF n > 0 /\ inside(n - 1) THEN "ended" ELSE "silence"

===============================================================================
