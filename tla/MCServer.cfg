SPECIFICATION Spec
CONSTANTS
  MaxPayload = 1048576
  Frames <- MCFrames
  MaxReadBuffer = 1064960
  MaxFrames = 2
  Asked <- MCAsked
  MaxWorkers = 3
CHECK_DEADLOCK FALSE
INVARIANTS
  FramesInStep
  NothingLeftBehind
  RefusedRightly
  EchoReadsBack
  WorkersKept
PROPERTIES
  FramesTaken
  WorkersEnd
