SPECIFICATION Spec
CONSTANTS
  Admin = {Logon, ResendRequest}
  App = {Order}
  Logon = Logon
  ResendRequest = ResendRequest
  NoMessage = NoMessage
  Deviations = {"testMode"}
  MaxSeq = 3
INVARIANT ResendFileComplete
