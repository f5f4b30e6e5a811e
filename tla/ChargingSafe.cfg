SPECIFICATION Spec
CONSTANTS
  Ids = {s1, s2}
  NoSession = NoSession
  MinOn = 1
  MinOff = 1
  StopDelay = 1
  ConfirmTimeout = 1
  FailLimit = 2
  Cap = 1
  SavesFail = TRUE
  Modes = {"live", "shadow", "disabled"}
SYMMETRY SessionSymmetry
INVARIANTS SessionOwned CommandIsRecorded
