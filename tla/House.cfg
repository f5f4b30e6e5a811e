SPECIFICATION HouseSpec
CONSTANTS
  Requests = {r1, r2}
  Pairers = {r1, r2, r3}
  Voters = {voter}
  Options = {x1, x2}
  Entities = {x1, x2}
  Orgs = {x1, x2}
  None = None
  NoOrg = None
  Houses = {h1}
  GrantRoles = {"manager", "admin"}
  ManualRoles = {"owner", "manager"}
  BallotHorizon = 2
  Deadline = 2
  Reminder = 1
  Quarter = 2
  Hold = 2
  Start = 1
  EnergyHorizon = 5
  Codes = 2
  Creds = 3
  Units = 3
  Million = 10
  Common = 6
  DaysIn <- SmallDays
  Periods <- SmallPeriods
SYMMETRY Symmetry
INVARIANTS GrantsCovered Restores CountsTrue RemindedOnce NothingRevived QuarterObserved CodeOnce ReadingsOwned CentsConserved SharesFair
CHECK_DEADLOCK FALSE
