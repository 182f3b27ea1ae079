SPECIFICATION Spec
CONSTANTS
  Partitions = {1}
  Zones = {}
  Outputs = {}
  Lights = {0}
  Devices = {}
  ZoneBits = {}
  Levels = {1, 2}
  MaxKeys = 1
  Plans <- SirenPlans
INVARIANT ForbiddenOnlyBySiren
