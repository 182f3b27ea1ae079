SPECIFICATION FairSpec
CONSTANTS
  Partitions = {1}
  Zones = {1}
  Outputs = {1}
  Lights = {0}
  Devices = {1, 2}
  ZoneBits = {"BYPASSED"}
  Levels = {1, 2}
  MaxKeys = 2
  Plans <- CallPlans
INVARIANT RefreshedCompletely
INVARIANT OutputAsAsked
INVARIANT ArmedAsAsked
PROPERTY RefreshEnds
