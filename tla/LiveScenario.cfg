SPECIFICATION Spec
CONSTANTS
  ConfigFiles <- MCConfigFiles
  Texts <- MCTexts
  Atoi <- MCAtoi
  Scenarios <- MCScenarios
  FirstNumbers = {1, 3}
  SessionName = "A"
  MaxPause = 1
  MaxAnswers = 1
  TimeMod = 2
  SeqMod = 4
  CountMod = 2
  Blank = Blank
  Yes = Yes
  FIX44 = FIX44
  Zero = Zero
  Sender = Sender
  Other = Other
  Target = Target
  OrgClrId = OrgClrId
  Empty = Empty
  NoId = NoId
INVARIANTS TypeOK LoadedAsWritten SentAsConfigured OriginalOfFile ClOrdIdOfOneOrder
CHECK_DEADLOCK FALSE
