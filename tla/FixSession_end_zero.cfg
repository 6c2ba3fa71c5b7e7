SPECIFICATION Spec
CONSTANTS
  TestMode = FALSE
  Inbound <- MCInbound
  Starts <- MCStarts
  LineTypes = {"D"}
  MaxSeq = 4
  RxBound = 2
  SeqLimit = 2000000000
INVARIANT OpenEndedRequestServed
