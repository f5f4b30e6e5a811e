SPECIFICATION Spec
CONSTANTS
  Ids = {s1, s2}
  NoSession = NoSession
  MinOn = 2
  MinOff = 1
  StopDelay = 1
  ConfirmTimeout = 1
  FailLimit = 2
  Cap = 2
  SavesFail = FALSE
  Modes = {"live"}
SYMMETRY SessionSymmetry
INVARIANT OpenIsLive
