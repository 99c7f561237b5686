CONSTANTS
  SoundFrames = 2
  MaxDeviceFaults = 1
  BargeIn = TRUE
  ListenTimeout = 2
  MaxUtterance = 3
  MaxCommands = 2
  MaxReplies = 1
  QueueSize = 2
  MinSpeech = 2
  Hangover = 2
  MaxFrames = 7
  Daemons = {d1, d2}
  Ctls = {c1, c2}
  MaxRuns = 2
  MaxConnects = 3
  MaxKills = 2
SPECIFICATION MCVoiceSpec
INVARIANTS UtteranceIsFresh StopCutsPlaying VadAgrees
PROPERTIES SpeakingIsLeft EveryCommandEnds
CHECK_DEADLOCK FALSE
