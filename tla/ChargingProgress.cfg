SPECIFICATION LiveSpec
CONSTANTS
  Ids = {s1}
  NoSession = NoSession
  MinOn = 2
  MinOff = 1
  StopDelay = 1
  ConfirmTimeout = 1
  FailLimit = 2
  Cap = 2
  SavesFail = TRUE
  Modes = {"live"}
PROPERTIES RelayRest ConfirmationEnds DeadSessionEnds
