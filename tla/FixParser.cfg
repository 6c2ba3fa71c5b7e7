SPECIFICATION Spec
CONSTANTS
  Streams <- MCStreams
  MaxBodyLen = 13
  Keep = 2
INVARIANTS TypeOK BuiltIsDelivered GoodMessageKept
CHECK_DEADLOCK FALSE
