-------------------------------- MODULE MC_Voice -------------------------------
(***************************************************************************)
(* The voice daemon: its engine and player, the capture and the detector   *)
(* of speech that feed it, and the commands that reach it.  A behaviour is *)
(* one of the three.                                                       *)
(*                                                                         *)
(* Two commands, two replies' worth of sounds of two frames and utterances *)
(* of at most three frames let every pair of sounds, commands and          *)
(* interruptions meet; runs of two frames open and close a segment; two    *)
(* daemons and two clients let one take the socket of the other with       *)
(* commands waiting.                                                       *)
(***************************************************************************)
EXTENDS VoiceEngine, Hearing, Daemon

VARIABLE subject

allVars == <<vars, hearingVars, daemonVars, subject>>

Engines(action) == subject = "engine" /\ action /\ UNCHANGED <<hearingVars, daemonVars, subject>>
Hears(action) == subject = "hearing" /\ action /\ UNCHANGED <<vars, daemonVars, subject>>
Commands(action) == subject = "commands" /\ action /\ UNCHANGED <<vars, hearingVars, subject>>

MCVoiceInit ==
  /\ subject \in {"engine", "hearing", "commands"}
  /\ Init /\ HearingInit /\ DaemonInit

\* When the device fails, one sound less is asked for.
Fewer == faults' > 0 => sent' + replies' <= 2

MCVoiceNext == Engines(Next /\ Fewer) \/ Hears(HearingNext) \/ Commands(DaemonNext)

\* The fairness of VoiceEngine and of Daemon.
MCVoiceSpec ==
  /\ MCVoiceInit /\ [][MCVoiceNext]_allVars
  /\ WF_allVars(Engines(Engine)) /\ WF_allVars(Engines(Thread))
  /\ \A d \in Daemons : WF_allVars(Commands(DaemonRuns(d)))
  /\ \A c \in Ctls : WF_allVars(Commands(SendRequest(c)))

==============================================================================
