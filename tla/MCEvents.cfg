SPECIFICATION Spec
CONSTANTS
  LogSize = 3
  Partitions = {1}
  Plans <- MCPlans
  Commands = {"AcPowerFailure", "AcPowerRestored", "ZoneChanged", "LightChanged", "OutputChanged"}
  MaxChildren = 2
INVARIANT LogHoldsLatest
INVARIANT ListsAgreeWithLog
INVARIANT EventsHeardInOrder
INVARIANT ScriptsKnow
INVARIANT NoZombieForgotten
