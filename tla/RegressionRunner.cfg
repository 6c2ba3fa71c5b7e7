SPECIFICATION Spec
CONSTANTS
  Regressions <- MCRegressions
  MaxClr = 1
  DrainReads = 3
  Deadline <- MCDeadline
  MaxMessages = 4
  Blank = Blank
  Ignore = Ignore
  None = None
INVARIANTS TypeOK PassedOnOwnAnswers VerdictsCounted DrainedBeforeBegin
PROPERTY ScriptEnds
CHECK_DEADLOCK FALSE
