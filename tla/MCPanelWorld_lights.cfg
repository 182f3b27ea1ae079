SPECIFICATION Spec
CONSTANTS
  Partitions = {1}
  Zones = {}
  Outputs = {}
  Lights = {0, 1, 2}
  Devices = {}
  ZoneBits = {}
  Levels = {1}
  MaxKeys = 1
  Plans <- LightPlans
INVARIANT LightsAsReported
