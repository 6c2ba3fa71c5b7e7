SPECIFICATION Spec
CONSTANTS
  Admin = {Logon, ResendRequest}
  App = {Order}
  Logon = Logon
  ResendRequest = ResendRequest
  NoMessage = NoMessage
  Deviations = {}
  MaxSeq = 3
INVARIANTS TypeOK ResendsWhatWasSent EveryMessagePersisted TokenLagsAtMostOne NeverHandledTwice
PROPERTY ImplementsOutboundLog
