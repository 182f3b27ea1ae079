SPECIFICATION Spec
CONSTANTS
  ZonesOf <- MCZonesOf
  TypedPlans <- MCTyped
  MaxChanges = 2
  Runs <- AllRuns
  HaveReadline = FALSE
  Has = {0, 1, 2, 7, 95}
  Statuses <- MCStatuses
INVARIANT ExitTellsFailure
INVARIANT ScreenCurrent
INVARIANT KeysInOrder
PROPERTY KeypadEnds
CHECK_DEADLOCK FALSE
