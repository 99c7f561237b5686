CONSTANTS
  SoundFrames = 2
  MaxDeviceFaults = 0
  BargeIn = TRUE
  ListenTimeout = 2
  MaxUtterance = 3
  MaxCommands = 2
  MaxReplies = 1
SPECIFICATION Spec
CHECK_DEADLOCK FALSE
INVARIANT PlaybackInOrder
