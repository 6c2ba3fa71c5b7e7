SPECIFICATION Spec
CONSTANTS
  Streams <- StalledStreams
  MaxBodyLen = 13
  Keep = 2
INVARIANT FalseOnlyIfIncomplete
CHECK_DEADLOCK FALSE
