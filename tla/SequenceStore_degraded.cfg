SPECIFICATION Spec
CONSTANTS
  Admin = {Logon, ResendRequest}
  App = {Order}
  Logon = Logon
  ResendRequest = ResendRequest
  NoMessage = NoMessage
  Deviations = {"testMode", "unnumbered", "appendFails", "saveFails"}
  MaxSeq = 2
INVARIANTS NothingForged NoInboundForgotten
