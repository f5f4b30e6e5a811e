SPECIFICATION Spec
CONSTANTS
  Requests = {r1, r2}
  Keys = {a, b, c}
  LaneCap = 2
  PerLane = 1
  Cancellable = {r2}
  Nesting = {r1, r2}
  NoKey = NoKey
INVARIANTS LeaseHolds WithinBudget
PROPERTIES RequestEnds CloseEnds
CHECK_DEADLOCK FALSE
