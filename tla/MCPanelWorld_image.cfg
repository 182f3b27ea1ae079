SPECIFICATION Spec
CONSTANTS
  Partitions = {1, 2}
  Zones = {1}
  Outputs = {1}
  Lights = {0, 1}
  Devices = {}
  ZoneBits = {"TRIPPED"}
  Levels = {1, 2}
  MaxKeys = 1
  Plans <- ViewPlans
INVARIANT TypeOK
INVARIANT QuietImage
INVARIANT LightsAsReported
INVARIANT PartitionViewCurrent
INVARIANT ZoneViewCurrent
INVARIANT SirenHeard
INVARIANT DisarmSilences
