----------------------------- MODULE PanelProofs -----------------------------
(***************************************************************************)
(* The image of the panel agrees with the panel, whatever the panel has    *)
(* and reports, whichever requests clients make, refreshes and lost        *)
(* reports in between, for every size of the daemon's arrays.              *)
(***************************************************************************)
EXTENDS PanelWorld, FiniteSetTheorems, FunctionTheorems, SequenceTheorems, TLAPS

-----------------------------------------------------------------------------
(* What is under way between the daemon and the panel.                     *)

\* The frames the panel sends: they are about what it has.
ZoneFrame == [cmd : {"ZONE_STATUS"}, zone : plan.zones, state : ZoneStates]
ListedZone ==
  [cmd : {"ZONE_STATUS", "EQUIP_LIST_ZONE_DATA"}, zone : plan.zones, state : ZoneStates,
   partition : {1}]
KeyfobFrame == [cmd : {"KEYFOB"}, zone : plan.zones, code : Codes]
OutputFrame == [cmd : {"OUTPUT_EVENT"}, output : plan.outputs, on : BOOLEAN]
ListedOutput == [cmd : {"EQUIP_LIST_OUTPUT_DATA"}, output : plan.outputs, state : BOOLEAN]
LevelFrame ==
  [cmd : {"LEVEL", "EQUIP_LIST_PARTITION_DATA"}, partition : plan.partitions, level : Levels]
DelayFrame ==
  [cmd : {"ENTRY_EXIT_DELAY"}, partition : plan.partitions, exit : BOOLEAN, begin : BOOLEAN]
ModeFrame == [cmd : {"PROGRAMMING_MODE"}, partition : plan.partitions, begin : BOOLEAN]
TextFrame == [cmd : {"TOUCHPAD_DISPLAY"}, partition : plan.partitions, text : Texts]
FeatureFrame == [cmd : {"FEATURE_STATE"}, partition : plan.partitions, state : BOOLEAN]
SirenFrame == [cmd : {"SIREN_SETUP"}, partition : plan.partitions, repeat : {0, 1}]
PlainPartition ==
  [cmd : {"SIREN_STOP", "EQUIP_LIST_LIGHT_TO_SENSOR_DATA"}, partition : plan.partitions]
LightsFrame == [cmd : {"LIGHTS_STATE"}, partition : plan.partitions, on : [Lights -> BOOLEAN]]
LightFrame ==
  [cmd : {"USER_LIGHTS"}, partition : plan.partitions, light : Lights, on : BOOLEAN]
DeviceFrame == [cmd : {"EQUIP_LIST_SUPERBUS_DEV_DATA"}, device : Devices]
UserFrame == [cmd : {"EQUIP_LIST_USER_DATA"}, code : {"set"}]
PlainFrame ==
  [cmd : {"EQUIP_LIST_COMPLETE", "TIME_AND_DATE", "CLEAR_AUTOMATION_DYNAMIC_IMAGE", "SIREN_GO"}]

Frame ==
  ZoneFrame \union ListedZone \union KeyfobFrame \union OutputFrame \union ListedOutput
  \union LevelFrame \union DelayFrame \union ModeFrame \union TextFrame \union FeatureFrame
  \union SirenFrame \union PlainPartition \union LightsFrame \union LightFrame
  \union DeviceFrame \union UserFrame \union PlainFrame

\* The messages the daemon sends.
BypassZones == IF "BYPASSED" \in ZoneBits THEN plan.zones ELSE {}

Key ==
  [cmd : {"EQUIP_LIST_REQUEST", "DYNAMIC_DATA_REFRESH"}]
  \union [cmd : {"OUTPUT"}, output : plan.outputs]
  \union [cmd : {"ARM"}, partition : plan.partitions, level : Levels]
  \union [cmd : {"LIGHT"}, partition : plan.partitions, light : Lights, on : BOOLEAN]
  \union [cmd : {"BYPASS"}, zone : BypassZones]

\* What the panel has yet to list.
Entry ==
  ({"EQUIP_LIST_ZONE_DATA", "ZONE_STATUS"} \X plan.zones)
  \union ({"EQUIP_LIST_PARTITION_DATA", "LEVEL", "EQUIP_LIST_LIGHT_TO_SENSOR_DATA",
           "LIGHTS_STATE"} \X plan.partitions)
  \union ({"EQUIP_LIST_OUTPUT_DATA"} \X plan.outputs)
  \union ({"EQUIP_LIST_SUPERBUS_DEV_DATA"} \X Devices)
  \union ({"EQUIP_LIST_USER_DATA", "EQUIP_LIST_COMPLETE", "TIME_AND_DATE"} \X {0})

\* The client's account has the shape of get_info.
IsView(v) ==
  /\ DOMAIN v = {"fresh", "zone", "output", "light", "partition"}
  /\ v.fresh \subseteq Zones
  /\ DOMAIN v.partition = Partitions
  /\ \A p \in Partitions : DOMAIN v.partition[p] = Shown
  /\ DOMAIN v.zone = Zones

\* What the panel does not have is never active.
OthersInactive ==
  /\ \A z \in Zones \ plan.zones : ~ self.zone[z].active
  /\ \A o \in Outputs \ plan.outputs : ~ self.output[o].active
  /\ \A p \in Partitions \ plan.partitions : ~ self.partition[p].active

Types ==
  /\ TypeOK
  /\ line \in Seq(Frame)
  /\ keys \in Seq(Key)
  /\ listing \in Seq(Entry)
  /\ OthersInactive
  /\ view # <<>> => IsView(view)

-----------------------------------------------------------------------------
\* What a plan names is what the daemon has entries for.
LEMMA PlanThings ==
  ASSUME plan \in Plans
  PROVE  /\ plan.zones \subseteq Zones /\ plan.outputs \subseteq Outputs
         /\ plan.partitions \subseteq Partitions /\ plan.levels \subseteq Levels
         /\ plan.line \in Nat
         /\ "bypass" \in plan.requests => "BYPASSED" \in ZoneBits
         /\ 1 \in Partitions /\ 0 \in Lights /\ Levels \subseteq Nat /\ 1 \in Levels
BY PanelAssumption DEF Plan

\* A frame has what its kind tells of.
LEMMA FrameFields ==
  ASSUME NEW f \in Frame
  PROVE  /\ f.cmd \in {"ZONE_STATUS", "EQUIP_LIST_ZONE_DATA"} =>
              f.zone \in plan.zones /\ f.state \in ZoneStates
         /\ f.cmd = "EQUIP_LIST_ZONE_DATA" => f.partition = 1
         /\ f.cmd = "KEYFOB" => f.zone \in plan.zones /\ f.code \in Codes
         /\ f.cmd = "OUTPUT_EVENT" => f.output \in plan.outputs /\ f.on \in BOOLEAN
         /\ f.cmd = "EQUIP_LIST_OUTPUT_DATA" => f.output \in plan.outputs /\ f.state \in BOOLEAN
         /\ f.cmd \in {"LEVEL", "EQUIP_LIST_PARTITION_DATA"} =>
              f.partition \in plan.partitions /\ f.level \in Levels
         /\ f.cmd = "ENTRY_EXIT_DELAY" =>
              f.partition \in plan.partitions /\ f.exit \in BOOLEAN /\ f.begin \in BOOLEAN
         /\ f.cmd = "PROGRAMMING_MODE" => f.partition \in plan.partitions /\ f.begin \in BOOLEAN
         /\ f.cmd = "TOUCHPAD_DISPLAY" => f.partition \in plan.partitions /\ f.text \in Texts
         /\ f.cmd = "FEATURE_STATE" => f.partition \in plan.partitions /\ f.state \in BOOLEAN
         /\ f.cmd = "SIREN_SETUP" => f.partition \in plan.partitions /\ f.repeat \in {0, 1}
         /\ f.cmd \in {"SIREN_STOP", "EQUIP_LIST_LIGHT_TO_SENSOR_DATA"} =>
              f.partition \in plan.partitions
         /\ f.cmd = "LIGHTS_STATE" =>
              f.partition \in plan.partitions /\ f.on \in [Lights -> BOOLEAN]
         /\ f.cmd = "USER_LIGHTS" =>
              f.partition \in plan.partitions /\ f.light \in Lights /\ f.on \in BOOLEAN
         /\ f.cmd = "EQUIP_LIST_SUPERBUS_DEV_DATA" => f.device \in Devices
         /\ f.cmd = "EQUIP_LIST_USER_DATA" => f.code = "set"
<1>1. CASE f \in ZoneFrame \union ListedZone \union KeyfobFrame
  BY <1>1 DEF ZoneFrame, ListedZone, KeyfobFrame
<1>2. CASE f \in OutputFrame \union ListedOutput \union LevelFrame \union DelayFrame
  BY <1>2 DEF OutputFrame, ListedOutput, LevelFrame, DelayFrame
<1>3. CASE f \in ModeFrame \union TextFrame \union FeatureFrame \union SirenFrame
  BY <1>3 DEF ModeFrame, TextFrame, FeatureFrame, SirenFrame
<1>4. CASE f \in PlainPartition \union LightsFrame \union LightFrame
  BY <1>4 DEF PlainPartition, LightsFrame, LightFrame
<1>5. CASE f \in DeviceFrame \union UserFrame \union PlainFrame
  BY <1>5 DEF DeviceFrame, UserFrame, PlainFrame
<1> QED BY <1>1, <1>2, <1>3, <1>4, <1>5 DEF Frame

\* A handler takes the next frame.
LEMMA Taken ==
  ASSUME Types, NEW cmd, Takes(cmd)
  PROVE  /\ Head(line) \in Frame /\ Head(line).cmd = cmd
         /\ line' \in Seq(Frame) /\ Len(line') <= plan.line
         /\ line # <<>> /\ line' \in {line, Tail(line)}
         /\ UNCHANGED <<real, listing, asked, plan>>
<1>1. line \in Seq(Frame) /\ line # <<>>
  BY DEF Types, Takes
<1>2. Head(line) \in Frame /\ Tail(line) \in Seq(Frame) /\ Len(Tail(line)) = Len(line) - 1
  BY <1>1
<1>3. Len(line) <= plan.line /\ Len(line) \in Nat /\ plan.line \in Nat
  BY <1>1, PlanThings DEF Types, TypeOK
<1> QED BY <1>1, <1>2, <1>3 DEF Takes


\* What may be under way depends on the plan, which is the same throughout.
LEMMA SamePlan ==
  ASSUME plan' = plan
  PROVE  Frame' = Frame /\ Key' = Key /\ Entry' = Entry
<1>1. Frame' = Frame
  BY DEF Frame, ZoneFrame, ListedZone, KeyfobFrame, OutputFrame, ListedOutput, LevelFrame,
         DelayFrame, ModeFrame, TextFrame, FeatureFrame, SirenFrame, PlainPartition, LightsFrame,
         LightFrame, DeviceFrame, UserFrame, PlainFrame
<1>2. Key' = Key
  BY DEF Key, BypassZones
<1>3. Entry' = Entry
  BY DEF Entry
<1> QED BY <1>1, <1>2, <1>3

\* The parts of the image.
LEMMA Parts ==
  ASSUME self \in Instance
  PROVE  /\ self.zone \in [Zones -> [active : BOOLEAN, state : ZoneStates, last_kc : Codes,
                                     partition_id : Partitions \union {0}]]
         /\ self.output \in [Outputs -> [active : BOOLEAN, state : BOOLEAN]]
         /\ self.partition \in [Partitions -> Partition]
         /\ self.light \in [Partitions -> [Lights -> [state : BOOLEAN, changed : BOOLEAN]]]
         /\ self.bus_device \in Seq(Devices)
         /\ self.refresh_pending \in BOOLEAN
BY DEF Instance

\* The image after one zone, output, partition or light changed.
ZoneEntry == [active : BOOLEAN, state : ZoneStates, last_kc : Codes,
              partition_id : Partitions \union {0}]
OutputEntry == [active : BOOLEAN, state : BOOLEAN]
LightEntry == [state : BOOLEAN, changed : BOOLEAN]

\* Storing one zone changes that zone only,
LEMMA ZoneStored ==
  ASSUME self \in Instance, NEW z \in Zones, NEW q \in ZoneEntry,
         self' = [self EXCEPT !.zone[z] = q]
  PROVE  /\ self' \in Instance
         /\ self'.zone = [self.zone EXCEPT ![z] = q]
         /\ \A f \in DOMAIN self \ {"zone"} : self'[f] = self[f]
BY DEF Instance, ZoneEntry

\* as storing an output does,
LEMMA OutputStored ==
  ASSUME self \in Instance, NEW o \in Outputs, NEW q \in OutputEntry,
         self' = [self EXCEPT !.output[o] = q]
  PROVE  /\ self' \in Instance
         /\ self'.output = [self.output EXCEPT ![o] = q]
         /\ \A f \in DOMAIN self \ {"output"} : self'[f] = self[f]
BY DEF Instance, OutputEntry

\* a partition,
LEMMA PartitionStored ==
  ASSUME self \in Instance, NEW p \in Partitions, NEW q \in Partition,
         self' = [self EXCEPT !.partition[p] = q]
  PROVE  /\ self' \in Instance
         /\ self'.partition = [self.partition EXCEPT ![p] = q]
         /\ \A f \in DOMAIN self \ {"partition"} : self'[f] = self[f]
BY DEF Instance

\* a partition whose siren is set up,
LEMMA SirenStored ==
  ASSUME self \in Instance, NEW p \in Partitions, NEW q \in Partition,
         self' = [self EXCEPT !.siren_go_partition_id = p, !.partition[p] = q]
  PROVE  /\ self' \in Instance
         /\ self'.partition = [self.partition EXCEPT ![p] = q]
         /\ self'.siren_go_partition_id = p
         /\ \A f \in DOMAIN self \ {"partition", "siren_go_partition_id"} : self'[f] = self[f]
<1> DEFINE partitions == [self.partition EXCEPT ![p] = q]
<1>1. partitions \in [Partitions -> Partition]
  BY Parts
<1>2. self' = [self EXCEPT !.siren_go_partition_id = p, !.partition = partitions]
  BY DEF Instance
<1> HIDE DEF partitions
<1>3. /\ self' \in Instance /\ self'.partition = partitions /\ self'.siren_go_partition_id = p
      /\ \A f \in DOMAIN self \ {"partition", "siren_go_partition_id"} : self'[f] = self[f]
  BY <1>1, <1>2 DEF Instance
<1> QED BY <1>3 DEF partitions

\* and the lights of a partition.
LEMMA LightsStored ==
  ASSUME self \in Instance, NEW p \in Partitions, NEW q \in [Lights -> LightEntry],
         self' = [self EXCEPT !.light[p] = q]
  PROVE  /\ self' \in Instance
         /\ self'.light = [self.light EXCEPT ![p] = q]
         /\ \A f \in DOMAIN self \ {"light"} : self'[f] = self[f]
BY DEF Instance, LightEntry

\* A refresh makes everything inactive, and changes nothing else of it.
LEMMA UnlistedStored ==
  ASSUME self \in Instance, self' = Unlisted
  PROVE  /\ self' \in Instance
         /\ \A z \in Zones : self'.zone[z] = [self.zone[z] EXCEPT !.active = FALSE]
         /\ \A o \in Outputs : self'.output[o] = [self.output[o] EXCEPT !.active = FALSE]
         /\ \A p \in Partitions : self'.partition[p] =
              [self.partition[p] EXCEPT !.active = FALSE, !.entry_delay_active = FALSE,
                                        !.exit_delay_active = FALSE]
         /\ self'.light = self.light /\ self'.refresh_pending /\ self'.bus_device = <<>>
<1>1. /\ self.zone \in [Zones -> ZoneEntry] /\ self.output \in [Outputs -> OutputEntry]
      /\ self.partition \in [Partitions -> Partition]
  BY Parts DEF ZoneEntry, OutputEntry
<1>2. /\ Inactive(self.zone) \in [Zones -> ZoneEntry]
      /\ \A z \in Zones : Inactive(self.zone)[z] = [self.zone[z] EXCEPT !.active = FALSE]
  BY <1>1 DEF Inactive, ZoneEntry
<1>3. /\ Inactive(self.output) \in [Outputs -> OutputEntry]
      /\ \A o \in Outputs : Inactive(self.output)[o] = [self.output[o] EXCEPT !.active = FALSE]
  BY <1>1 DEF Inactive, OutputEntry
<1>4. /\ Inactive(self.partition) \in [Partitions -> Partition]
      /\ \A p \in Partitions : Inactive(self.partition)[p] = [self.partition[p] EXCEPT !.active = FALSE]
  <2>1. Inactive(self.partition) = [p \in Partitions |-> [self.partition[p] EXCEPT !.active = FALSE]]
    BY <1>1 DEF Inactive
  <2>2. ASSUME NEW p \in Partitions PROVE [self.partition[p] EXCEPT !.active = FALSE] \in Partition
    <3>1. self.partition[p] \in Partition
      BY <1>1
    <3> QED BY <3>1 DEF Partition
  <2> QED BY <2>1, <2>2
<1> DEFINE old == Inactive(self.partition)
<1> HIDE DEF old
<1>5. /\ NoDelays(old) \in [Partitions -> Partition]
      /\ \A p \in Partitions : NoDelays(old)[p] =
           [old[p] EXCEPT !.entry_delay_active = FALSE, !.exit_delay_active = FALSE]
  <2>1. old \in [Partitions -> Partition]
    BY <1>4 DEF old
  <2> QED BY <2>1 DEF NoDelays, Partition
<1> DEFINE zones == Inactive(self.zone)
           outputs == Inactive(self.output)
           partitions == NoDelays(old)
<1>6. self' = [self EXCEPT !.refresh_pending = TRUE, !.bus_device = <<>>, !.zone = zones,
                           !.partition = partitions, !.output = outputs]
  BY DEF Unlisted, old
<1> HIDE DEF zones, outputs, partitions
<1>7. /\ self' \in Instance
      /\ self'.zone = zones /\ self'.output = outputs /\ self'.partition = partitions
      /\ self'.light = self.light /\ self'.refresh_pending /\ self'.bus_device = <<>>
  <2>1. zones \in [Zones -> ZoneEntry]
    BY <1>2 DEF zones
  <2>2. outputs \in [Outputs -> OutputEntry]
    BY <1>3 DEF outputs
  <2>3. partitions \in [Partitions -> Partition]
    BY <1>5 DEF partitions
  <2>4. <<>> \in Seq(Devices)
    OBVIOUS
  <2> QED BY <1>6, <2>1, <2>2, <2>3, <2>4 DEF Instance, ZoneEntry, OutputEntry
<1>8. \A p \in Partitions : partitions[p] =
        [self.partition[p] EXCEPT !.active = FALSE, !.entry_delay_active = FALSE,
                                  !.exit_delay_active = FALSE]
  BY <1>4, <1>5 DEF partitions, old
<1> QED BY <1>2, <1>3, <1>7, <1>8 DEF zones, outputs

\* It leaves nothing active.
LEMMA UnlistedInactive ==
  ASSUME self \in Instance, self' = Unlisted
  PROVE  /\ \A z \in Zones : ~ self'.zone[z].active
         /\ \A o \in Outputs : ~ self'.output[o].active
         /\ \A p \in Partitions : ~ self'.partition[p].active
<1>1. ASSUME NEW z \in Zones PROVE ~ self'.zone[z].active
  <2>1. self.zone[z] \in [active : BOOLEAN, state : ZoneStates, last_kc : Codes,
                          partition_id : Partitions \union {0}]
    BY Parts
  <2>2. self'.zone[z] = [self.zone[z] EXCEPT !.active = FALSE]
    BY UnlistedStored
  <2> QED BY <2>1, <2>2
<1>2. ASSUME NEW o \in Outputs PROVE ~ self'.output[o].active
  <2>1. self.output[o] \in [active : BOOLEAN, state : BOOLEAN]
    BY Parts
  <2>2. self'.output[o] = [self.output[o] EXCEPT !.active = FALSE]
    BY UnlistedStored
  <2> QED BY <2>1, <2>2
<1>3. ASSUME NEW p \in Partitions PROVE ~ self'.partition[p].active
  <2>1. self.partition[p] \in Partition
    BY Parts
  <2>2. self'.partition[p] = [self.partition[p] EXCEPT !.active = FALSE, !.entry_delay_active = FALSE,
                                                       !.exit_delay_active = FALSE]
    BY UnlistedStored
  <2> QED BY <2>1, <2>2 DEF Partition
<1> QED BY <1>1, <1>2, <1>3

-----------------------------------------------------------------------------
(* The client.                                                             *)

\* A signal tells of one thing, or nothing is told; a refresh outdates the zones.
Tells ==
  \/ TellNothing
  \/ ForgetZones
  \/ \E z \in Zones : TellZone(z)
  \/ \E o \in Outputs : TellOutput(o)
  \/ \E p \in Partitions, lights \in SUBSET Lights : TellLights(p, lights)
  \/ \E p \in Partitions, fields \in SUBSET Shown : TellPartition(p, fields)

\* What a client is told leaves it with a view of the same shape.
LEMMA ToldView ==
  ASSUME view # <<>> => IsView(view), Tells
  PROVE  view' # <<>> => view # <<>> /\ IsView(view')
<1>1. CASE TellNothing
  BY <1>1 DEF TellNothing
<1>2. CASE view = <<>>
  <2>1. view' = view
    BY <1>2 DEF Tells, TellNothing, TellZone, TellOutput, TellLights, TellPartition, ForgetZones
  <2> QED BY <1>2, <2>1
<1>3. ASSUME view # <<>>, NEW z \in Zones, TellZone(z) PROVE IsView(view')
  BY <1>3 DEF TellZone, IsView
<1>4. ASSUME view # <<>>, NEW o \in Outputs, TellOutput(o) PROVE IsView(view')
  BY <1>4 DEF TellOutput, IsView
<1>5. ASSUME view # <<>>, NEW p \in Partitions, NEW lights, TellLights(p, lights) PROVE IsView(view')
  BY <1>5 DEF TellLights, IsView
<1>6. ASSUME view # <<>>, NEW p \in Partitions, NEW fields, TellPartition(p, fields) PROVE IsView(view')
  BY <1>6 DEF TellPartition, IsView
<1>7. ASSUME view # <<>>, ForgetZones PROVE IsView(view')
  BY <1>7 DEF ForgetZones, IsView
<1> QED BY <1>1, <1>2, <1>3, <1>4, <1>5, <1>6, <1>7 DEF Tells

-----------------------------------------------------------------------------
(* Types.                                                                  *)

\* A handler that stores what has its type keeps all types: the line only gets
\* shorter, and the panel does not change.
LEMMA TakenTypes ==
  ASSUME Types, NEW cmd, Takes(cmd), Tells, keys' \in Seq(Key), self' \in Instance,
         OthersInactive'
  PROVE  Types'
<1>1. /\ line' \in Seq(Frame) /\ Len(line') <= plan.line
      /\ UNCHANGED <<real, listing, asked, plan>>
  BY Taken
<1>2. view' # <<>> => IsView(view')
  BY ToldView DEF Types
<1> QED BY <1>1, <1>2, SamePlan DEF Types, TypeOK

\* A handler that stores a zone keeps the types,
LEMMA ZoneHandled ==
  ASSUME Types, NEW cmd, Takes(cmd), Tells, keys' = keys,
         NEW z \in plan.zones, NEW q \in ZoneEntry, self' = [self EXCEPT !.zone[z] = q]
  PROVE  Types'
<1>1. z \in Zones /\ self \in Instance /\ plan' = plan
  BY PlanThings DEF Types, TypeOK, Takes
<1>2. /\ self' \in Instance /\ self'.zone = [self.zone EXCEPT ![z] = q]
      /\ self'.output = self.output /\ self'.partition = self.partition
  BY <1>1, ZoneStored DEF Instance
<1>3. OthersInactive'
  BY <1>1, <1>2, Parts DEF Types, OthersInactive
<1> QED BY <1>2, <1>3, TakenTypes DEF Types

\* as one that stores an output does,
LEMMA OutputHandled ==
  ASSUME Types, NEW cmd, Takes(cmd), Tells, keys' = keys,
         NEW o \in plan.outputs, NEW q \in OutputEntry, self' = [self EXCEPT !.output[o] = q]
  PROVE  Types'
<1>1. o \in Outputs /\ self \in Instance /\ plan' = plan
  BY PlanThings DEF Types, TypeOK, Takes
<1>2. /\ self' \in Instance /\ self'.output = [self.output EXCEPT ![o] = q]
      /\ self'.zone = self.zone /\ self'.partition = self.partition
  BY <1>1, OutputStored DEF Instance
<1>3. OthersInactive'
  BY <1>1, <1>2, Parts DEF Types, OthersInactive
<1> QED BY <1>2, <1>3, TakenTypes DEF Types

\* a partition,
LEMMA PartitionHandled ==
  ASSUME Types, NEW cmd, Takes(cmd), Tells, keys' = keys,
         NEW p \in plan.partitions, NEW q \in Partition,
         \/ self' = [self EXCEPT !.partition[p] = q]
         \/ self' = [self EXCEPT !.siren_go_partition_id = p, !.partition[p] = q]
  PROVE  Types'
<1>1. p \in Partitions /\ self \in Instance /\ plan' = plan
  BY PlanThings DEF Types, TypeOK, Takes
<1>2. /\ self' \in Instance /\ self'.partition = [self.partition EXCEPT ![p] = q]
      /\ self'.zone = self.zone /\ self'.output = self.output
  BY <1>1, PartitionStored, SirenStored DEF Instance
<1>3. OthersInactive'
  BY <1>1, <1>2, Parts DEF Types, OthersInactive
<1> QED BY <1>2, <1>3, TakenTypes DEF Types

\* or lights.
LEMMA LightsHandled ==
  ASSUME Types, NEW cmd, Takes(cmd), Tells, keys' = keys,
         NEW p \in plan.partitions, NEW q \in [Lights -> LightEntry],
         self' = [self EXCEPT !.light[p] = q]
  PROVE  Types'
<1>1. p \in Partitions /\ self \in Instance /\ plan' = plan
  BY PlanThings DEF Types, TypeOK, Takes
<1>2. /\ self' \in Instance /\ self'.partition = self.partition
      /\ self'.zone = self.zone /\ self'.output = self.output
  BY <1>1, LightsStored DEF Instance
<1>3. OthersInactive'
  BY <1>1, <1>2, Parts DEF Types, OthersInactive
<1> QED BY <1>2, <1>3, TakenTypes DEF Types

\* What each handler stores, and of which thing.
ZoneAfter(f) ==
  CASE f.cmd = "ZONE_STATUS" -> [self.zone[f.zone] EXCEPT !.state = f.state, !.active = TRUE]
    [] f.cmd = "EQUIP_LIST_ZONE_DATA" ->
         [self.zone[f.zone] EXCEPT !.state = f.state, !.partition_id = f.partition, !.active = TRUE]
    [] f.cmd = "KEYFOB" -> [self.zone[f.zone] EXCEPT !.last_kc = f.code, !.active = TRUE]

HandleZone == HandleZoneStatus \/ HandleEquipListZoneData \/ HandleKeyfob

\* The handlers of zone frames, as one: what they store is ZoneAfter.
LEMMA ZoneMoves ==
  ASSUME Types, HandleZone
  PROVE  /\ Takes(Head(line).cmd) /\ Tells /\ keys' = keys
         /\ Head(line).cmd \in {"ZONE_STATUS", "EQUIP_LIST_ZONE_DATA", "KEYFOB"}
         /\ Head(line).zone \in plan.zones /\ Head(line).zone \in Zones
         /\ ZoneAfter(Head(line)) \in ZoneEntry
         /\ \/ self' = [self EXCEPT !.zone[Head(line).zone] = ZoneAfter(Head(line))]
            \/ Head(line).cmd = "KEYFOB" /\ self' = self
<1> DEFINE f == Head(line)
<1>1. /\ Takes(f.cmd) /\ keys' = keys /\ f \in Frame
      /\ f.cmd \in {"ZONE_STATUS", "EQUIP_LIST_ZONE_DATA", "KEYFOB"}
  BY Taken DEF HandleZone, HandleZoneStatus, HandleEquipListZoneData, HandleKeyfob, Takes
<1>2. /\ f.zone \in plan.zones /\ f.zone \in Zones
      /\ f.cmd \in {"ZONE_STATUS", "EQUIP_LIST_ZONE_DATA"} => f.state \in ZoneStates
      /\ f.cmd = "EQUIP_LIST_ZONE_DATA" => f.partition = 1
      /\ f.cmd = "KEYFOB" => f.code \in Codes
  BY <1>1, FrameFields, PlanThings DEF Types, TypeOK
<1>3. Tells
  BY <1>2 DEF HandleZone, HandleZoneStatus, HandleEquipListZoneData, HandleKeyfob, Tells
<1>4. /\ self.zone[f.zone] \in ZoneEntry
  BY <1>2, Parts DEF Types, TypeOK, ZoneEntry
<1>5. ZoneAfter(f) \in ZoneEntry
  <2> DEFINE q == self.zone[f.zone]
  <2> HIDE DEF q, f
  <2>1. q \in ZoneEntry
    BY <1>4 DEF q, f
  <2> QED BY <1>1, <1>2, <2>1, PlanThings DEF ZoneAfter, ZoneEntry, q, Types, TypeOK
<1>6. \/ self' = [self EXCEPT !.zone[f.zone] = ZoneAfter(f)]
      \/ f.cmd = "KEYFOB" /\ self' = self
  BY <1>1 DEF HandleZone, HandleZoneStatus, HandleEquipListZoneData, HandleKeyfob, Takes,
       ZoneAfter, StoredState
<1> QED BY <1>1, <1>2, <1>3, <1>5, <1>6

\* The fields of a partition that a client is told of whenever they change.
Followed == {"arm_level", "touchpad_text", "feature_state"}

PartitionAfter(f) ==
  LET part == self.partition[f.partition]
  IN CASE f.cmd = "EQUIP_LIST_PARTITION_DATA" ->
            [part EXCEPT !.active = TRUE, !.arm_level = f.level]
       [] f.cmd = "LEVEL" ->
            [part EXCEPT !.active = TRUE, !.arm_level = f.level, !.entry_delay_active = FALSE]
       [] f.cmd = "EQUIP_LIST_LIGHT_TO_SENSOR_DATA" -> [part EXCEPT !.active = TRUE]
       [] f.cmd = "ENTRY_EXIT_DELAY" ->
            IF f.exit THEN [part EXCEPT !.exit_delay_active = f.begin]
            ELSE [part EXCEPT !.entry_delay_active = f.begin]
       [] f.cmd = "TOUCHPAD_DISPLAY" -> [part EXCEPT !.active = TRUE, !.touchpad_text = f.text]
       [] f.cmd = "FEATURE_STATE" -> [part EXCEPT !.active = TRUE, !.feature_state = f.state]
       [] f.cmd = "SIREN_SETUP" ->
            [part EXCEPT !.active = TRUE, !.siren_repeat = f.repeat, !.siren_cadence = TRUE,
                         !.siren_started_at = TRUE]
       [] f.cmd = "SIREN_STOP" -> [part EXCEPT !.siren_cadence = FALSE]
       [] f.cmd = "PROGRAMMING_MODE" -> [part EXCEPT !.programming_mode = f.begin]

PartitionCmds ==
  {"EQUIP_LIST_PARTITION_DATA", "LEVEL", "EQUIP_LIST_LIGHT_TO_SENSOR_DATA", "ENTRY_EXIT_DELAY",
   "TOUCHPAD_DISPLAY", "FEATURE_STATE", "SIREN_SETUP", "SIREN_STOP", "PROGRAMMING_MODE"}

HandlePartition ==
  \/ HandleEquipListPartitionData \/ HandleLevel \/ HandleEquipListLightToSensorData
  \/ HandleEntryExitDelay \/ HandleTouchpadDisplay \/ HandleFeatureState
  \/ HandleSirenSetup \/ HandleSirenStop \/ HandleProgrammingMode

\* What a frame makes of its partition is a partition.
LEMMA PartitionAfterType ==
  ASSUME Types, NEW f \in Frame, f.cmd \in PartitionCmds
  PROVE  /\ f.partition \in plan.partitions /\ f.partition \in Partitions
         /\ PartitionAfter(f) \in Partition
<1>1. f.partition \in plan.partitions /\ f.partition \in Partitions
  BY FrameFields, PlanThings DEF Types, TypeOK, PartitionCmds
<1> DEFINE part == self.partition[f.partition]
<1>2. part \in Partition
  BY <1>1, Parts DEF Types, TypeOK
<1> HIDE DEF part
<1>3. CASE f.cmd \in {"EQUIP_LIST_PARTITION_DATA", "LEVEL", "EQUIP_LIST_LIGHT_TO_SENSOR_DATA"}
  <2>1. f.cmd \in {"EQUIP_LIST_PARTITION_DATA", "LEVEL"} => f.level \in Levels
    BY FrameFields
  <2>2. [part EXCEPT !.active = TRUE] \in Partition
    BY <1>2 DEF Partition
  <2>3. f.cmd = "EQUIP_LIST_PARTITION_DATA" => [part EXCEPT !.active = TRUE, !.arm_level = f.level] \in Partition
    BY <1>2, <2>1 DEF Partition
  <2>4. f.cmd = "LEVEL" =>
          [part EXCEPT !.active = TRUE, !.arm_level = f.level, !.entry_delay_active = FALSE] \in Partition
    BY <1>2, <2>1 DEF Partition
  <2> QED BY <1>1, <1>3, <2>2, <2>3, <2>4 DEF PartitionAfter, part
<1>4. CASE f.cmd \in {"ENTRY_EXIT_DELAY", "PROGRAMMING_MODE", "SIREN_STOP"}
  <2>1. f.cmd # "SIREN_STOP" => f.begin \in BOOLEAN
    BY <1>4, FrameFields
  <2>2. /\ f.cmd # "SIREN_STOP" => [part EXCEPT !.exit_delay_active = f.begin] \in Partition
        /\ f.cmd # "SIREN_STOP" => [part EXCEPT !.entry_delay_active = f.begin] \in Partition
        /\ f.cmd # "SIREN_STOP" => [part EXCEPT !.programming_mode = f.begin] \in Partition
        /\ [part EXCEPT !.siren_cadence = FALSE] \in Partition
    BY <1>2, <2>1 DEF Partition
  <2> QED BY <1>1, <1>4, <2>2 DEF PartitionAfter, part
<1>5. CASE f.cmd \in {"TOUCHPAD_DISPLAY", "FEATURE_STATE", "SIREN_SETUP"}
  <2>1. /\ f.cmd = "TOUCHPAD_DISPLAY" => f.text \in Texts
        /\ f.cmd = "FEATURE_STATE" => f.state \in BOOLEAN
        /\ f.cmd = "SIREN_SETUP" => f.repeat \in {0, 1}
    BY FrameFields
  <2>2. f.cmd = "TOUCHPAD_DISPLAY" => [part EXCEPT !.active = TRUE, !.touchpad_text = f.text] \in Partition
    BY <1>2, <2>1 DEF Partition
  <2>3. f.cmd = "FEATURE_STATE" => [part EXCEPT !.active = TRUE, !.feature_state = f.state] \in Partition
    BY <1>2, <2>1 DEF Partition
  <2>4. f.cmd = "SIREN_SETUP" =>
          [part EXCEPT !.active = TRUE, !.siren_repeat = f.repeat, !.siren_cadence = TRUE,
                       !.siren_started_at = TRUE] \in Partition
    BY <1>2, <2>1 DEF Partition
  <2> QED BY <1>1, <1>5, <2>2, <2>3, <2>4 DEF PartitionAfter, part
<1> QED BY <1>1, <1>3, <1>4, <1>5 DEF PartitionCmds

\* The handlers of partition frames, as one: what they store is
\* PartitionAfter, and what they announce are fields of that partition.
LEMMA PartitionMoves ==
  ASSUME Types, HandlePartition
  PROVE  /\ Takes(Head(line).cmd) /\ keys' = keys
         /\ Head(line) \in Frame /\ Head(line).cmd \in PartitionCmds
         /\ Head(line).partition \in plan.partitions /\ Head(line).partition \in Partitions
         /\ PartitionAfter(Head(line)) \in Partition
         /\ IF Head(line).cmd = "SIREN_SETUP"
            THEN self' = [self EXCEPT !.siren_go_partition_id = Head(line).partition,
                            !.partition[Head(line).partition] = PartitionAfter(Head(line))]
            ELSE self' = [self EXCEPT
                            !.partition[Head(line).partition] = PartitionAfter(Head(line))]
         /\ \E fields \in SUBSET Shown :
              /\ \/ TellPartition(Head(line).partition, fields)
                 \/ TellNothing /\ fields = {}
              /\ \A g \in Followed \ fields :
                   PartitionAfter(Head(line))[g] = self.partition[Head(line).partition][g]
<1> DEFINE f == Head(line)
           p == Head(line).partition
           part == self.partition[Head(line).partition]
<1>1. /\ Takes(f.cmd) /\ keys' = keys /\ f \in Frame /\ f.cmd \in PartitionCmds
  BY Taken DEF HandlePartition, HandleEquipListPartitionData, HandleLevel,
       HandleEquipListLightToSensorData, HandleEntryExitDelay, HandleTouchpadDisplay,
       HandleFeatureState, HandleSirenSetup, HandleSirenStop, HandleProgrammingMode, Takes,
       PartitionCmds
<1>2. p \in plan.partitions /\ p \in Partitions /\ PartitionAfter(f) \in Partition
  BY <1>1, PartitionAfterType
<1>3. part \in Partition /\ self \in Instance
  BY <1>2, Parts DEF Types, TypeOK
<1> DEFINE Stored == IF f.cmd = "SIREN_SETUP"
                     THEN self' = [self EXCEPT !.siren_go_partition_id = p, !.partition[p] = PartitionAfter(f)]
                     ELSE self' = [self EXCEPT !.partition[p] = PartitionAfter(f)]
<1>4. {} \in SUBSET Shown /\ Followed \ {} = Followed
  OBVIOUS
<1>5. CASE HandleEquipListPartitionData
  <2>1. f.cmd = "EQUIP_LIST_PARTITION_DATA"
    BY <1>5 DEF HandleEquipListPartitionData, Takes
  <2>2. PartitionAfter(f) = [part EXCEPT !.active = TRUE, !.arm_level = f.level]
    BY <2>1 DEF PartitionAfter
  <2>3. Stored
    BY <1>5, <2>1, <2>2 DEF HandleEquipListPartitionData
  <2>4. CASE Announces(p, "arm_level", f.level)
    <3>1. TellPartition(p, {"arm_level"})
      BY <1>5, <2>4 DEF HandleEquipListPartitionData
    <3>2. \A g \in Followed \ {"arm_level"} : PartitionAfter(f)[g] = part[g]
      BY <1>3, <2>2 DEF Followed, Partition
    <3> QED BY <1>1, <1>2, <2>3, <3>1, <3>2 DEF Shown
  <2>5. CASE ~ Announces(p, "arm_level", f.level)
    <3>1. TellNothing
      BY <1>5, <2>5 DEF HandleEquipListPartitionData
    <3>2. \A g \in Followed : PartitionAfter(f)[g] = part[g]
      BY <1>3, <2>2, <2>5 DEF Followed, Partition, Announces
    <3> QED BY <1>1, <1>2, <1>4, <2>3, <3>1, <3>2
  <2> QED BY <2>4, <2>5
<1>6. CASE HandleTouchpadDisplay
  <2>1. f.cmd = "TOUCHPAD_DISPLAY"
    BY <1>6 DEF HandleTouchpadDisplay, Takes
  <2>2. PartitionAfter(f) = [part EXCEPT !.active = TRUE, !.touchpad_text = f.text]
    BY <2>1 DEF PartitionAfter
  <2>3. Stored
    BY <1>6, <2>1, <2>2 DEF HandleTouchpadDisplay
  <2>4. CASE Announces(p, "touchpad_text", f.text)
    <3>1. TellPartition(p, {"touchpad_text"})
      BY <1>6, <2>4 DEF HandleTouchpadDisplay
    <3>2. \A g \in Followed \ {"touchpad_text"} : PartitionAfter(f)[g] = part[g]
      BY <1>3, <2>2 DEF Followed, Partition
    <3> QED BY <1>1, <1>2, <2>3, <3>1, <3>2 DEF Shown
  <2>5. CASE ~ Announces(p, "touchpad_text", f.text)
    <3>1. TellNothing
      BY <1>6, <2>5 DEF HandleTouchpadDisplay
    <3>2. \A g \in Followed : PartitionAfter(f)[g] = part[g]
      BY <1>3, <2>2, <2>5 DEF Followed, Partition, Announces
    <3> QED BY <1>1, <1>2, <1>4, <2>3, <3>1, <3>2
  <2> QED BY <2>4, <2>5
<1>7. CASE HandleFeatureState
  <2>1. f.cmd = "FEATURE_STATE"
    BY <1>7 DEF HandleFeatureState, Takes
  <2>2. PartitionAfter(f) = [part EXCEPT !.active = TRUE, !.feature_state = f.state]
    BY <2>1 DEF PartitionAfter
  <2>3. Stored
    BY <1>7, <2>1, <2>2 DEF HandleFeatureState
  <2>4. CASE Announces(p, "feature_state", f.state)
    <3>1. TellPartition(p, {"feature_state"})
      BY <1>7, <2>4 DEF HandleFeatureState
    <3>2. \A g \in Followed \ {"feature_state"} : PartitionAfter(f)[g] = part[g]
      BY <1>3, <2>2 DEF Followed, Partition
    <3> QED BY <1>1, <1>2, <2>3, <3>1, <3>2 DEF Shown
  <2>5. CASE ~ Announces(p, "feature_state", f.state)
    <3>1. TellNothing
      BY <1>7, <2>5 DEF HandleFeatureState
    <3>2. \A g \in Followed : PartitionAfter(f)[g] = part[g]
      BY <1>3, <2>2, <2>5 DEF Followed, Partition, Announces
    <3> QED BY <1>1, <1>2, <1>4, <2>3, <3>1, <3>2
  <2> QED BY <2>4, <2>5
<1>8. CASE HandleLevel
  <2>1. f.cmd = "LEVEL"
    BY <1>8 DEF HandleLevel, Takes
  <2>2. PartitionAfter(f) = [part EXCEPT !.active = TRUE, !.arm_level = f.level, !.entry_delay_active = FALSE]
    BY <2>1 DEF PartitionAfter
  <2>3. Stored
    BY <1>8, <2>1, <2>2 DEF HandleLevel
  <2>4. TellPartition(p, {"arm_level"})
    BY <1>8 DEF HandleLevel
  <2>5. \A g \in Followed \ {"arm_level"} : PartitionAfter(f)[g] = part[g]
    BY <1>3, <2>2 DEF Followed, Partition
  <2> QED BY <1>1, <1>2, <2>3, <2>4, <2>5 DEF Shown
<1>9. CASE HandleSirenStop
  <2>1. f.cmd = "SIREN_STOP"
    BY <1>9 DEF HandleSirenStop, Takes
  <2>2. PartitionAfter(f) = [part EXCEPT !.siren_cadence = FALSE]
    BY <2>1 DEF PartitionAfter
  <2>3. Stored
    BY <1>9, <2>1, <2>2 DEF HandleSirenStop
  <2>4. TellPartition(p, {"siren_cadence"})
    BY <1>9 DEF HandleSirenStop
  <2>5. \A g \in Followed \ {"siren_cadence"} : PartitionAfter(f)[g] = part[g]
    BY <1>3, <2>2 DEF Followed, Partition
  <2> QED BY <1>1, <1>2, <2>3, <2>4, <2>5 DEF Shown
<1>10. CASE HandleEquipListLightToSensorData
  <2>1. f.cmd = "EQUIP_LIST_LIGHT_TO_SENSOR_DATA"
    BY <1>10 DEF HandleEquipListLightToSensorData, Takes
  <2>2. PartitionAfter(f) = [part EXCEPT !.active = TRUE]
    BY <2>1 DEF PartitionAfter
  <2>3. Stored /\ TellNothing
    BY <1>10, <2>1, <2>2 DEF HandleEquipListLightToSensorData
  <2>4. \A g \in Followed : PartitionAfter(f)[g] = part[g]
    BY <1>3, <2>2 DEF Followed, Partition
  <2> QED BY <1>1, <1>2, <1>4, <2>3, <2>4
<1>11. CASE HandleProgrammingMode
  <2>1. f.cmd = "PROGRAMMING_MODE"
    BY <1>11 DEF HandleProgrammingMode, Takes
  <2>2. PartitionAfter(f) = [part EXCEPT !.programming_mode = f.begin]
    BY <2>1 DEF PartitionAfter
  <2>3. Stored /\ TellNothing
    BY <1>11, <2>1, <2>2 DEF HandleProgrammingMode
  <2>4. \A g \in Followed : PartitionAfter(f)[g] = part[g]
    BY <1>3, <2>2 DEF Followed, Partition
  <2> QED BY <1>1, <1>2, <1>4, <2>3, <2>4
<1>12. CASE HandleEntryExitDelay
  <2>1. f.cmd = "ENTRY_EXIT_DELAY"
    BY <1>12 DEF HandleEntryExitDelay, Takes
  <2>2. PartitionAfter(f) = IF f.exit THEN [part EXCEPT !.exit_delay_active = f.begin]
                           ELSE [part EXCEPT !.entry_delay_active = f.begin]
    BY <2>1 DEF PartitionAfter
  <2>3. Stored /\ TellNothing
    BY <1>12, <2>1, <2>2 DEF HandleEntryExitDelay
  <2>4. \A g \in Followed : PartitionAfter(f)[g] = part[g]
    BY <1>3, <2>2 DEF Followed, Partition
  <2> QED BY <1>1, <1>2, <1>4, <2>3, <2>4
<1>13. CASE HandleSirenSetup
  <2>1. f.cmd = "SIREN_SETUP"
    BY <1>13 DEF HandleSirenSetup, Takes
  <2>2. PartitionAfter(f) =
          [part EXCEPT !.active = TRUE, !.siren_repeat = f.repeat, !.siren_cadence = TRUE,
                       !.siren_started_at = TRUE]
    BY <2>1 DEF PartitionAfter
  <2>3. Stored
    BY <1>13, <2>1, <2>2 DEF HandleSirenSetup
  <2>4. TellPartition(p, Siren) \/ TellNothing
    BY <1>13 DEF HandleSirenSetup
  <2>5. \A g \in Followed : PartitionAfter(f)[g] = part[g]
    BY <1>3, <2>2 DEF Followed, Partition
  <2>6. Siren \in SUBSET Shown /\ Followed \ Siren = Followed
    BY DEF Siren, Shown, Followed
  <2> QED BY <1>1, <1>2, <1>4, <2>3, <2>4, <2>5, <2>6
<1> QED BY <1>5, <1>6, <1>7, <1>8, <1>9, <1>10, <1>11, <1>12, <1>13 DEF HandlePartition

\* What an output is reported to be: an event that says nothing new is not stored.
SaidOfOutput(f) == IF f.cmd = "OUTPUT_EVENT" THEN f.on ELSE f.state

HandleOutput == HandleEquipListOutputData \/ HandleOutputEvent

\* The handlers of output frames, as one.  An event that says what is stored
\* already changes nothing.
LEMMA OutputMoves ==
  ASSUME Types, HandleOutput
  PROVE  /\ Takes(Head(line).cmd) /\ Tells /\ keys' = keys
         /\ Head(line).cmd \in {"EQUIP_LIST_OUTPUT_DATA", "OUTPUT_EVENT"}
         /\ Head(line).output \in plan.outputs /\ Head(line).output \in Outputs
         /\ SaidOfOutput(Head(line)) \in BOOLEAN
         /\ \/ self' = [self EXCEPT !.output[Head(line).output] =
                          [active |-> TRUE, state |-> SaidOfOutput(Head(line))]]
            \/ /\ Head(line).cmd = "OUTPUT_EVENT" /\ self' = self
               /\ self.output[Head(line).output].state = SaidOfOutput(Head(line))
<1> DEFINE f == Head(line)
<1>1. /\ Takes(f.cmd) /\ keys' = keys /\ f \in Frame
      /\ f.cmd \in {"EQUIP_LIST_OUTPUT_DATA", "OUTPUT_EVENT"}
  BY Taken DEF HandleOutput, HandleEquipListOutputData, HandleOutputEvent, Takes
<1>2. /\ f.output \in plan.outputs /\ f.output \in Outputs /\ SaidOfOutput(f) \in BOOLEAN
  BY <1>1, FrameFields, PlanThings DEF Types, TypeOK, SaidOfOutput
<1>3. Tells
  BY <1>2 DEF HandleOutput, HandleEquipListOutputData, HandleOutputEvent, Tells
<1>4. \/ self' = [self EXCEPT !.output[f.output] = [active |-> TRUE, state |-> SaidOfOutput(f)]]
      \/ /\ f.cmd = "OUTPUT_EVENT" /\ self' = self
         /\ self.output[f.output].state = SaidOfOutput(f)
  BY <1>1 DEF HandleOutput, HandleEquipListOutputData, HandleOutputEvent, Takes, SaidOfOutput
<1> QED BY <1>1, <1>2, <1>3, <1>4

HandleLights == HandleLightsState \/ HandleUserLights

\* The handlers of light frames, as one.
LEMMA LightsMove ==
  ASSUME Types, HandleLights
  PROVE  /\ Takes(Head(line).cmd) /\ Tells /\ keys' = keys
         /\ Head(line).cmd \in {"LIGHTS_STATE", "USER_LIGHTS"}
         /\ Head(line).partition \in plan.partitions /\ Head(line).partition \in Partitions
         /\ \E q \in [Lights -> LightEntry] :
              self' = [self EXCEPT !.light[Head(line).partition] = q]
<1> DEFINE f == Head(line)
           p == Head(line).partition
<1>1. /\ Takes(f.cmd) /\ keys' = keys /\ f \in Frame
      /\ f.cmd \in {"LIGHTS_STATE", "USER_LIGHTS"}
  BY Taken DEF HandleLights, HandleLightsState, HandleUserLights, Takes
<1>2. p \in plan.partitions /\ p \in Partitions
  BY <1>1, FrameFields, PlanThings DEF Types, TypeOK
<1>3. self.light[p] \in [Lights -> LightEntry]
  BY <1>2, Parts DEF Types, TypeOK, LightEntry
<1>4. CASE HandleLightsState
  <2> DEFINE lights == LightsTaken(p, f.on)
             q == [l \in Lights |-> IF l \in lights.taken THEN [state |-> f.on[l], changed |-> TRUE]
                                    ELSE self.light[p][l]]
  <2>1. f.on \in [Lights -> BOOLEAN]
    BY <1>1, <1>4, FrameFields DEF HandleLightsState, Takes
  <2>2. lights.told \in SUBSET Lights
    BY DEF LightsTaken, LightsDiffering
  <2>3. TellLights(p, lights.told) /\ self' = [self EXCEPT !.light[p] = q]
    BY <1>4 DEF HandleLightsState
  <2> HIDE DEF lights
  <2>4. q \in [Lights -> LightEntry]
    BY <1>3, <2>1 DEF LightEntry
  <2>5. Tells
    BY <1>2, <2>2, <2>3 DEF Tells
  <2> HIDE DEF q
  <2> QED BY <1>1, <1>2, <2>3, <2>4, <2>5
<1>5. CASE HandleUserLights
  <2> DEFINE q == [self.light[p] EXCEPT ![f.light] = [state |-> f.on, changed |-> TRUE]]
  <2>1. f.light \in Lights /\ f.on \in BOOLEAN
    BY <1>1, <1>5, FrameFields DEF HandleUserLights, Takes
  <2>2. self' = [self EXCEPT !.light[p] = q] /\ TellLights(p, {f.light})
    BY <1>5 DEF HandleUserLights
  <2>3. q \in [Lights -> LightEntry]
    BY <1>3, <2>1 DEF LightEntry
  <2>4. Tells
    BY <1>2, <2>1, <2>2 DEF Tells
  <2> HIDE DEF q
  <2> QED BY <1>1, <1>2, <2>2, <2>3, <2>4
<1> QED BY <1>4, <1>5 DEF HandleLights

\* The frames that are about no zone, output, partition or light.
HandleOther ==
  \/ HandleEquipListSuperbusDevData \/ HandleEquipListUserData \/ HandleEquipListComplete
  \/ HandleClearAutomationDynamicImage \/ HandleTimeAndDate \/ HandleSirenGo

OtherCmds ==
  {"EQUIP_LIST_SUPERBUS_DEV_DATA", "EQUIP_LIST_USER_DATA", "EQUIP_LIST_COMPLETE",
   "CLEAR_AUTOMATION_DYNAMIC_IMAGE", "TIME_AND_DATE", "SIREN_GO"}

\* The handlers that touch no thing of their own: those of the lists, the
\* refresh and the siren's go.
LEMMA OtherMoves ==
  ASSUME Types, HandleOther
  PROVE  /\ Takes(Head(line).cmd) /\ Head(line).cmd \in OtherCmds /\ self' \in Instance
         /\ \/ TellNothing
            \/ ForgetZones
            \/ \E p \in Partitions : TellPartition(p, Siren)
         /\ IF Head(line).cmd = "CLEAR_AUTOMATION_DYNAMIC_IMAGE"
            THEN self' = Unlisted /\ ForgetZones /\ keys' = Append(keys, [cmd |-> "EQUIP_LIST_REQUEST"])
            ELSE /\ keys' = IF Head(line).cmd = "EQUIP_LIST_COMPLETE"
                            THEN Append(keys, [cmd |-> "DYNAMIC_DATA_REFRESH"]) ELSE keys
                 /\ \A x \in {"zone", "output", "partition", "light"} : self'[x] = self[x]
<1> DEFINE f == Head(line)
<1>1. self \in Instance
  BY DEF Types, TypeOK
<1>2. CASE HandleEquipListSuperbusDevData
  <2>1. f \in Frame /\ f.cmd = "EQUIP_LIST_SUPERBUS_DEV_DATA"
    BY <1>2, Taken DEF HandleEquipListSuperbusDevData
  <2>2. f.device \in Devices
    BY <2>1, FrameFields
  <2> DEFINE devices == Append(self.bus_device, f.device)
  <2>3. devices \in Seq(Devices)
    BY <1>1, <2>2, Parts
  <2>4. self' = [self EXCEPT !.bus_device = devices]
    BY <1>2 DEF HandleEquipListSuperbusDevData
  <2> HIDE DEF devices
  <2>5. self' \in Instance /\ \A x \in {"zone", "output", "partition", "light"} : self'[x] = self[x]
    BY <1>1, <2>3, <2>4 DEF Instance
  <2> QED BY <1>2, <2>1, <2>5 DEF HandleEquipListSuperbusDevData, OtherCmds
<1>3. CASE HandleEquipListUserData
  <2>1. f \in Frame /\ f.cmd = "EQUIP_LIST_USER_DATA"
    BY <1>3, Taken DEF HandleEquipListUserData
  <2>2. f.code = "set"
    BY <2>1, FrameFields
  <2>3. self' \in Instance /\ \A x \in {"zone", "output", "partition", "light"} : self'[x] = self[x]
    BY <1>1, <1>3, <2>2 DEF Instance, HandleEquipListUserData
  <2> QED BY <1>3, <2>1, <2>3 DEF HandleEquipListUserData, OtherCmds
<1>4. CASE HandleEquipListComplete
  BY <1>1, <1>4 DEF HandleEquipListComplete, OtherCmds, Takes
<1>5. CASE HandleClearAutomationDynamicImage
  BY <1>1, <1>5, UnlistedStored
     DEF HandleClearAutomationDynamicImage, EquipmentRefresh, OtherCmds, Takes
<1>6. CASE HandleTimeAndDate
  <2>1. self' \in Instance /\ \A x \in {"zone", "output", "partition", "light"} : self'[x] = self[x]
    BY <1>1, <1>6 DEF Instance, HandleTimeAndDate
  <2> QED BY <1>6, <2>1 DEF HandleTimeAndDate, OtherCmds, Takes
<1>7. CASE HandleSirenGo
  BY <1>1, <1>7 DEF HandleSirenGo, OtherCmds, Takes
<1> QED BY <1>2, <1>3, <1>4, <1>5, <1>6, <1>7 DEF HandleOther

\* Every frame is handled by one of the five families.
LEMMA HandleFamilies ==
  Handle <=> HandleZone \/ HandleOutput \/ HandlePartition \/ HandleLights \/ HandleOther
BY DEF Handle, HandleZone, HandleOutput, HandlePartition, HandleLights, HandleOther

\* Every handler keeps the types.
LEMMA HandleTypes ==
  ASSUME Types, Handle
  PROVE  Types'
<1>1. CASE HandleZone
  <2>1. CASE self' = self
    <3>1. Takes(Head(line).cmd) /\ Tells /\ keys' = keys
      BY <1>1, ZoneMoves
    <3>2. OthersInactive'
      BY <2>1, <3>1 DEF Types, OthersInactive, Takes
    <3> QED BY <2>1, <3>1, <3>2, TakenTypes DEF Types, TypeOK
  <2>2. CASE self' # self
    BY <1>1, <2>2, ZoneMoves, ZoneHandled
  <2> QED BY <2>1, <2>2
<1>2. CASE HandleOutput
  <2>1. CASE self' = self
    <3>1. Takes(Head(line).cmd) /\ Tells /\ keys' = keys
      BY <1>2, OutputMoves
    <3>2. OthersInactive'
      BY <2>1, <3>1 DEF Types, OthersInactive, Takes
    <3> QED BY <2>1, <3>1, <3>2, TakenTypes DEF Types, TypeOK
  <2>2. CASE self' # self
    <3>1. [active |-> TRUE, state |-> SaidOfOutput(Head(line))] \in OutputEntry
      BY <1>2, OutputMoves DEF OutputEntry
    <3> QED BY <1>2, <2>2, <3>1, OutputMoves, OutputHandled
  <2> QED BY <2>1, <2>2
<1>3. CASE HandlePartition
  <2>1. Tells
    BY <1>3, PartitionMoves DEF Tells
  <2> QED BY <1>3, <2>1, PartitionMoves, PartitionHandled
<1>4. CASE HandleLights
  <2>1. PICK q \in [Lights -> LightEntry] : self' = [self EXCEPT !.light[Head(line).partition] = q]
    BY <1>4, LightsMove
  <2> QED BY <1>4, <2>1, LightsMove, LightsHandled
<1>5. CASE HandleOther
  <2>1. Tells
    BY <1>5, OtherMoves DEF Tells, Siren, Shown
  <2>2. keys' \in Seq(Key)
    <3>1. /\ [cmd |-> "EQUIP_LIST_REQUEST"] \in [cmd : {"EQUIP_LIST_REQUEST", "DYNAMIC_DATA_REFRESH"}]
          /\ [cmd |-> "DYNAMIC_DATA_REFRESH"] \in [cmd : {"EQUIP_LIST_REQUEST", "DYNAMIC_DATA_REFRESH"}]
      OBVIOUS
    <3>2. [cmd |-> "EQUIP_LIST_REQUEST"] \in Key /\ [cmd |-> "DYNAMIC_DATA_REFRESH"] \in Key
      BY <3>1, Zenon DEF Key
    <3>3. keys \in Seq(Key)
      BY DEF Types
    <3>4. CASE Head(line).cmd = "CLEAR_AUTOMATION_DYNAMIC_IMAGE"
      <4>1. keys' = Append(keys, [cmd |-> "EQUIP_LIST_REQUEST"])
        BY <1>5, <3>4, OtherMoves
      <4> QED BY <3>2, <3>3, <4>1, AppendProperties
    <3>5. CASE Head(line).cmd # "CLEAR_AUTOMATION_DYNAMIC_IMAGE"
      <4>1. keys' = keys \/ keys' = Append(keys, [cmd |-> "DYNAMIC_DATA_REFRESH"])
        BY <1>5, <3>5, OtherMoves
      <4> QED BY <3>2, <3>3, <4>1, AppendProperties
    <3> QED BY <3>4, <3>5
  <2>3. OthersInactive'
    <3>1. plan' = plan
      BY <1>5, OtherMoves DEF Takes
    <3>2. CASE Head(line).cmd = "CLEAR_AUTOMATION_DYNAMIC_IMAGE"
      <4>1. self \in Instance /\ self' = Unlisted
        BY <1>5, <3>2, OtherMoves DEF Types, TypeOK
      <4> QED BY <4>1, UnlistedInactive DEF OthersInactive
    <3>3. CASE Head(line).cmd # "CLEAR_AUTOMATION_DYNAMIC_IMAGE"
      BY <1>5, <3>1, <3>3, OtherMoves DEF Types, OthersInactive
    <3> QED BY <3>2, <3>3
  <2> QED BY <1>5, <2>1, <2>2, <2>3, OtherMoves, TakenTypes
<1> QED BY <1>1, <1>2, <1>3, <1>4, <1>5, HandleFamilies

-----------------------------------------------------------------------------
(* What the panel lists.                                                   *)

\* SetToSeq lists what is in the set, and nothing else.
LEMMA SeqOfSet ==
  ASSUME NEW S, IsFiniteSet(S)
  PROVE  /\ SetToSeq(S) \in Seq(S) /\ Range(SetToSeq(S)) = S
         /\ IsInjective(SetToSeq(S))
<1> DEFINE n == Cardinality(S)
           s == SetToSeq(S)
<1>1. n \in Nat /\ ExistsBijection(1 .. n, S)
  BY FS_CardinalityType
<1>2. \E f \in [1 .. n -> S] : IsInjective(f)
  BY <1>1 DEF ExistsBijection, Bijection, Injection
<1>3. s \in [1 .. n -> S] /\ IsInjective(s)
  BY <1>2 DEF SetToSeq
<1> HIDE DEF s
<1>4. s \in Injection(1 .. n, S)
  BY <1>3 DEF Injection
<1>5. Cardinality(1 .. n) = n
  BY <1>1, FS_Interval
<1> HIDE DEF n
<1>6. s \in Surjection(1 .. n, S)
  BY <1>4, <1>5, FS_Injection DEF n
<1>7. Range(s) = S
  BY <1>6, Fun_SurjectionProperties
<1>8. s \in Seq(S)
  BY <1>1, <1>3
<1> QED BY <1>3, <1>7, <1>8 DEF s

\* Every thing is listed.
LEMMA EachListed ==
  ASSUME NEW cmd, NEW things, IsFiniteSet(things), NEW S, {cmd} \X things \subseteq S
  PROVE  Each(cmd, things) \in Seq(S) /\ Range(Each(cmd, things)) = {cmd} \X things
<1> DEFINE s == SetToSeq(things)
           t == [n \in DOMAIN s |-> <<cmd, s[n]>>]
<1>1. s \in Seq(things) /\ Range(s) = things
  BY SeqOfSet
<1> HIDE DEF s
<1>2. t \in Seq({cmd} \X things) /\ DOMAIN t = DOMAIN s
  BY <1>1
<1>3. Range(t) = {cmd} \X things
  <2>1. ASSUME NEW x \in {cmd} \X things PROVE x \in Range(t)
    <3>1. PICK y \in things : x = <<cmd, y>>
      OBVIOUS
    <3>2. PICK n \in DOMAIN s : s[n] = y
      BY <1>1 DEF Range
    <3>3. t[n] = x
      BY <3>1, <3>2
    <3> QED BY <1>2, <3>2, <3>3 DEF Range
  <2>2. ASSUME NEW x \in Range(t) PROVE x \in {cmd} \X things
    BY <1>1, <2>2 DEF Range
  <2> QED BY <2>1, <2>2
<1>4. t \in Seq(S)
  BY <1>2, SeqMonotonic
<1>5. Each(cmd, things) = t
  BY DEF Each, s
<1> QED BY <1>3, <1>4, <1>5

\* Two lists together list what each of them lists.
LEMMA ConcatListed ==
  ASSUME NEW S, NEW s \in Seq(S), NEW t \in Seq(S)
  PROVE  s \o t \in Seq(S) /\ Range(s \o t) = Range(s) \union Range(t)
BY RangeConcatenation

\* The panel lists all that it has.
LEMMA Lists ==
  ASSUME plan \in Plans
  PROVE  /\ EquipmentList \in Seq(Entry) /\ DynamicData \in Seq(Entry)
         /\ {"EQUIP_LIST_ZONE_DATA"} \X plan.zones \subseteq Range(EquipmentList)
         /\ {"EQUIP_LIST_PARTITION_DATA"} \X plan.partitions \subseteq Range(EquipmentList)
         /\ {"EQUIP_LIST_OUTPUT_DATA"} \X plan.outputs \subseteq Range(EquipmentList)
<1>1. /\ IsFiniteSet(plan.zones) /\ IsFiniteSet(plan.outputs) /\ IsFiniteSet(plan.partitions)
      /\ IsFiniteSet(Devices) /\ IsFiniteSet({0}) /\ IsFiniteSet({}) /\ IsFiniteSet(LitPartitions)
      /\ LitPartitions \subseteq plan.partitions
  BY PanelAssumption, PlanThings, FS_Subset, FS_EmptySet, FS_Singleton DEF LitPartitions
<1> DEFINE e1 == Each("EQUIP_LIST_PARTITION_DATA", plan.partitions)
           e2 == Each("EQUIP_LIST_ZONE_DATA", plan.zones)
           e3 == Each("EQUIP_LIST_OUTPUT_DATA", plan.outputs)
           e4 == Each("EQUIP_LIST_SUPERBUS_DEV_DATA", Devices)
           e5 == Each("EQUIP_LIST_USER_DATA", IF "bypass" \in plan.requests THEN {0} ELSE {})
           e6 == Each("EQUIP_LIST_LIGHT_TO_SENSOR_DATA", LitPartitions)
           e7 == <<<<"EQUIP_LIST_COMPLETE", 0>>>>
           d1 == Each("ZONE_STATUS", plan.zones)
           d2 == Each("LEVEL", plan.partitions)
           d3 == Each("LIGHTS_STATE", LitPartitions)
           d4 == <<<<"TIME_AND_DATE", 0>>>>
<1>2. /\ {"EQUIP_LIST_PARTITION_DATA"} \X plan.partitions \subseteq Entry
      /\ {"EQUIP_LIST_ZONE_DATA"} \X plan.zones \subseteq Entry
      /\ {"EQUIP_LIST_OUTPUT_DATA"} \X plan.outputs \subseteq Entry
      /\ {"EQUIP_LIST_SUPERBUS_DEV_DATA"} \X Devices \subseteq Entry
      /\ {"EQUIP_LIST_USER_DATA"} \X (IF "bypass" \in plan.requests THEN {0} ELSE {}) \subseteq Entry
      /\ {"EQUIP_LIST_LIGHT_TO_SENSOR_DATA"} \X LitPartitions \subseteq Entry
      /\ <<"EQUIP_LIST_COMPLETE", 0>> \in Entry /\ <<"TIME_AND_DATE", 0>> \in Entry
      /\ {"ZONE_STATUS"} \X plan.zones \subseteq Entry
      /\ {"LEVEL"} \X plan.partitions \subseteq Entry
      /\ {"LIGHTS_STATE"} \X LitPartitions \subseteq Entry
  BY <1>1 DEF Entry
<1>3. /\ e1 \in Seq(Entry) /\ Range(e1) = {"EQUIP_LIST_PARTITION_DATA"} \X plan.partitions
      /\ e2 \in Seq(Entry) /\ Range(e2) = {"EQUIP_LIST_ZONE_DATA"} \X plan.zones
      /\ e3 \in Seq(Entry) /\ Range(e3) = {"EQUIP_LIST_OUTPUT_DATA"} \X plan.outputs
      /\ e4 \in Seq(Entry) /\ e5 \in Seq(Entry) /\ e6 \in Seq(Entry)
      /\ d1 \in Seq(Entry) /\ d2 \in Seq(Entry) /\ d3 \in Seq(Entry)
  BY <1>1, <1>2, EachListed
<1>4. e7 \in Seq(Entry) /\ d4 \in Seq(Entry)
  BY <1>2
<1> HIDE DEF e1, e2, e3, e4, e5, e6, e7, d1, d2, d3, d4
<1> DEFINE l2 == e1 \o e2
           l3 == l2 \o e3
           l4 == l3 \o e4
           l5 == l4 \o e5
           l6 == l5 \o e6
           l7 == l6 \o e7
<1>5. l2 \in Seq(Entry) /\ Range(l2) = Range(e1) \union Range(e2)
  BY <1>3, ConcatListed
<1> HIDE DEF l2
<1>6. l3 \in Seq(Entry) /\ Range(l3) = Range(l2) \union Range(e3)
  BY <1>3, <1>5, ConcatListed
<1> HIDE DEF l3
<1>7. l4 \in Seq(Entry) /\ Range(l3) \subseteq Range(l4)
  BY <1>3, <1>6, ConcatListed
<1> HIDE DEF l4
<1>8. l5 \in Seq(Entry) /\ Range(l3) \subseteq Range(l5)
  BY <1>3, <1>7, ConcatListed
<1> HIDE DEF l5
<1>9. l6 \in Seq(Entry) /\ Range(l3) \subseteq Range(l6)
  BY <1>3, <1>8, ConcatListed
<1> HIDE DEF l6
<1>10. l7 \in Seq(Entry) /\ Range(l3) \subseteq Range(l7)
  BY <1>4, <1>9, ConcatListed
<1>11. EquipmentList = l7
  BY DEF EquipmentList, e1, e2, e3, e4, e5, e6, e7, l2, l3, l4, l5, l6
<1> HIDE DEF l7
<1>12. d1 \o d2 \o d3 \o d4 \in Seq(Entry)
  BY <1>3, <1>4
<1>13. DynamicData = d1 \o d2 \o d3 \o d4
  BY DEF DynamicData, d1, d2, d3, d4
<1> QED BY <1>3, <1>5, <1>6, <1>10, <1>11, <1>12, <1>13

-----------------------------------------------------------------------------
(* Types, of the steps that are no handlers.                               *)

Asked == [output : [Outputs -> SUBSET BOOLEAN], arm : [Partitions -> SUBSET Levels]]

\* A request is accepted only about something the panel has.
LEMMA Accepted ==
  ASSUME Types
  PROVE  /\ \A o \in Outputs, on \in BOOLEAN : OutputStatus(o, on) \in {"OK", "ALREADY"} =>
              self.output[o].active /\ o \in plan.outputs
         /\ \A p \in Partitions, level \in Levels : ArmStatus(p, level) \in {"OK", "ALREADY"} =>
              self.partition[p].active /\ p \in plan.partitions
         /\ \A p \in Partitions, l \in Lights : LightStatus(p, l) = "OK" => p \in plan.partitions
         /\ \A z \in Zones, bypass \in BOOLEAN : BypassStatus(z, bypass) = "OK" => z \in plan.zones
<1>1. self.refresh_pending \in BOOLEAN
  BY Parts DEF Types, TypeOK
<1>2. \A o \in Outputs, on \in BOOLEAN : OutputStatus(o, on) \in {"OK", "ALREADY"} =>
        self.output[o].active /\ o \in plan.outputs
  BY DEF OutputStatus, Types, OthersInactive
<1>3. \A p \in Partitions, level \in Levels : ArmStatus(p, level) \in {"OK", "ALREADY"} =>
        self.partition[p].active /\ p \in plan.partitions
  BY DEF ArmStatus, Types, OthersInactive
<1>4. ASSUME NEW p \in Partitions, NEW l \in Lights, LightStatus(p, l) = "OK"
      PROVE  p \in plan.partitions
  <2>1. self.partition[p].active \in BOOLEAN
    BY Parts DEF Types, TypeOK, Partition
  <2>2. self.partition[p].active
    BY <1>1, <1>4, <2>1 DEF LightStatus
  <2> QED BY <2>2 DEF Types, OthersInactive
<1>5. \A z \in Zones, bypass \in BOOLEAN : BypassStatus(z, bypass) = "OK" => z \in plan.zones
  BY DEF BypassStatus, Types, OthersInactive
<1> QED BY <1>2, <1>3, <1>4, <1>5

\* A request changes the messages under way, and what was asked.
LEMMA RequestTypes ==
  ASSUME Types, NEW status, NEW msg, Answers(status, msg), UNCHANGED listing,
         status = "OK" => msg \in Key, asked' \in Asked
  PROVE  Types'
<1>1. keys' \in Seq(Key)
  BY DEF Answers, Types
<1>2. UNCHANGED <<self, line, real, listing, view, plan>>
  BY DEF Answers
<1>3. OthersInactive'
  BY <1>2 DEF Types, OthersInactive
<1> QED BY <1>1, <1>2, <1>3, SamePlan DEF Types, TypeOK, IsView, Asked

\* Every call of a client keeps the types.
LEMMA CallTypes ==
  ASSUME Types, Call
  PROVE  Types'
<1>1. asked \in Asked /\ plan \in Plans /\ self \in Instance
  BY DEF Types, TypeOK, Asked
<1>2. ASSUME NEW o \in Outputs, NEW on \in BOOLEAN, SetOutput(o, on) PROVE Types'
  <2>1. OutputStatus(o, on) = "OK" => [cmd |-> "OUTPUT", output |-> o] \in Key
    BY Accepted DEF Key
  <2>2. asked' \in Asked
    BY <1>1, <1>2 DEF SetOutput, Asked
  <2> QED BY <1>2, <2>1, <2>2, RequestTypes DEF SetOutput, Answers
<1>3. ASSUME NEW p \in Partitions, NEW level \in Levels, SetArmLevel(p, level) PROVE Types'
  <2>1. ArmStatus(p, level) = "OK" => [cmd |-> "ARM", partition |-> p, level |-> level] \in Key
    BY Accepted DEF Key
  <2>2. asked' \in Asked
    BY <1>1, <1>3 DEF SetArmLevel, Asked
  <2> QED BY <1>3, <2>1, <2>2, RequestTypes DEF SetArmLevel, Answers
<1>4. ASSUME NEW p \in Partitions, NEW l \in Lights, NEW on \in BOOLEAN, SetLight(p, l, on) PROVE Types'
  <2>1. LightStatus(p, l) = "OK" =>
          [cmd |-> "LIGHT", partition |-> p, light |-> l, on |-> on] \in Key
    BY Accepted DEF Key
  <2> QED BY <1>1, <1>4, <2>1, RequestTypes DEF SetLight, Answers
<1>5. ASSUME NEW z \in Zones, NEW bypass \in BOOLEAN, SetZoneBypass(z, bypass) PROVE Types'
  <2>1. "BYPASSED" \in ZoneBits
    BY <1>1, <1>5, PlanThings DEF SetZoneBypass, Calls
  <2>2. BypassStatus(z, bypass) = "OK" => [cmd |-> "BYPASS", zone |-> z] \in Key
    BY <2>1, Accepted DEF Key, BypassZones
  <2> QED BY <1>1, <1>5, <2>2, RequestTypes DEF SetZoneBypass, Answers
<1>6. CASE Refresh
  <2>1. self' = Unlisted /\ ForgetZones /\ UNCHANGED <<line, real, listing, asked, plan>>
    BY <1>6 DEF Refresh, EquipmentRefresh
  <2>2. keys' \in Seq(Key)
    <3>1. [cmd |-> "EQUIP_LIST_REQUEST"] \in [cmd : {"EQUIP_LIST_REQUEST", "DYNAMIC_DATA_REFRESH"}]
      OBVIOUS
    <3>2. [cmd |-> "EQUIP_LIST_REQUEST"] \in Key
      BY <3>1, Zenon DEF Key
    <3> QED BY <1>6, <3>2 DEF Refresh, EquipmentRefresh, Types
  <2>3. self' \in Instance
    BY <1>1, <2>1, UnlistedStored
  <2>4. OthersInactive'
    <3>1. self \in Instance
      BY <1>1
    <3> QED BY <2>1, <3>1, UnlistedInactive DEF OthersInactive
  <2>5. view' # <<>> => IsView(view')
    BY <2>1, ToldView DEF Types, Tells
  <2> QED BY <2>1, <2>2, <2>3, <2>4, <2>5, SamePlan DEF Types, TypeOK, IsView
<1>7. CASE GetInfo
  <2>1. IsView(view')
    BY <1>7 DEF GetInfo, IsView, PartitionInfo, ActiveZones
  <2>2. UNCHANGED <<self, line, keys, real, listing, asked, plan>>
    BY <1>7 DEF GetInfo
  <2>3. OthersInactive'
    BY <2>2 DEF Types, OthersInactive
  <2> QED BY <2>1, <2>2, <2>3, SamePlan DEF Types, TypeOK
<1> QED BY <1>2, <1>3, <1>4, <1>5, <1>6, <1>7 DEF Call

\* The panel reports what is new, and the image is not touched.
LEMMA PanelTypes ==
  ASSUME Types, NEW frames \in Seq(Frame), Reports(frames),
         real' \in Panel, asked' \in Asked, keys' \in Seq(Key), listing' \in Seq(Entry),
         UNCHANGED <<self, view, plan>>
  PROVE  Types'
<1>1. line' \in Seq(Frame) /\ Len(line') <= plan.line
  <2>1. line \in Seq(Frame) /\ line' = line \o frames /\ Len(line) + Len(frames) <= plan.line
    BY DEF Types, Reports
  <2> QED BY <2>1
<1>2. OthersInactive'
  BY DEF Types, OthersInactive
<1> QED BY <1>1, <1>2, SamePlan DEF Types, TypeOK, IsView, Asked

-----------------------------------------------------------------------------
(* What the panel reports of a change.                                     *)

\* The frames about a zone, an output, an arm level, a siren, and those of them
\* that say what is so.
OfZone(z) == {f \in Frame : f.cmd \in {"ZONE_STATUS", "EQUIP_LIST_ZONE_DATA"} /\ f.zone = z}
TrueOfZone(z) == {f \in OfZone(z) : f.state = real.zone[z]}

OfOutput(o) ==
  {f \in Frame : f.cmd \in {"EQUIP_LIST_OUTPUT_DATA", "OUTPUT_EVENT"} /\ f.output = o}
TrueOfOutput(o) == {f \in OfOutput(o) : SaidOfOutput(f) = real.output[o]}

OfArm(p) == {f \in Frame : f.cmd \in {"LEVEL", "EQUIP_LIST_PARTITION_DATA"} /\ f.partition = p}
TrueOfArm(p) == {f \in OfArm(p) : f.level = real.arm[p]}

OfSiren(p) == {f \in Frame : f.cmd = "SIREN_SETUP" /\ f.partition = p}
TrueOfSiren(p) == {f \in OfSiren(p) : f.repeat = 0}

\* What is reported of a thing (about) is true after the step (true), and a
\* change of it is reported, unless the report is that reports were lost.
Honest(frames, about, true, same) ==
  /\ Range(frames) \intersect about \subseteq true
  /\ \/ same
     \/ Range(frames) \intersect about # {}
     \/ \E f \in Range(frames) : f.cmd = "CLEAR_AUTOMATION_DYNAMIC_IMAGE"

Moves(frames) ==
  /\ frames \in Seq(Frame) /\ Reports(frames)
  /\ UNCHANGED <<self, view, plan>>
  /\ real' \in Panel
  /\ \A z \in plan.zones :
       Honest(frames, OfZone(z), TrueOfZone(z)', real'.zone[z] = real.zone[z])
  /\ \A o \in plan.outputs :
       Honest(frames, OfOutput(o), TrueOfOutput(o)', real'.output[o] = real.output[o])
  /\ \A p \in plan.partitions :
       /\ Honest(frames, OfArm(p), TrueOfArm(p)', real'.arm[p] = real.arm[p])
       /\ real'.siren[p] =>
            /\ Range(frames) \intersect OfSiren(p) \subseteq TrueOfSiren(p)
            /\ real.siren[p] \/ Range(frames) \intersect OfSiren(p) # {}

\* Every kind of frame is a frame.
LEMMA FrameKinds ==
  /\ ZoneFrame \subseteq Frame /\ ListedZone \subseteq Frame /\ KeyfobFrame \subseteq Frame
  /\ OutputFrame \subseteq Frame /\ ListedOutput \subseteq Frame /\ LevelFrame \subseteq Frame
  /\ DelayFrame \subseteq Frame /\ ModeFrame \subseteq Frame /\ TextFrame \subseteq Frame
  /\ FeatureFrame \subseteq Frame /\ SirenFrame \subseteq Frame /\ PlainPartition \subseteq Frame
  /\ LightsFrame \subseteq Frame /\ LightFrame \subseteq Frame /\ DeviceFrame \subseteq Frame
  /\ UserFrame \subseteq Frame /\ PlainFrame \subseteq Frame
BY DEF Frame

\* The frames of a report of none, one or two.
LEMMA RangeOfFrames ==
  /\ Range(<< >>) = {}
  /\ \A a : Range(<<a>>) = {a}
  /\ \A a, b : Range(<<a, b>>) = {a, b}
<1>1. Range(<< >>) = {} /\ \A a : Range(<<a>>) = {a}
  BY DEF Range
<1>2. ASSUME NEW a, NEW b PROVE Range(<<a, b>>) = {a, b}
  <2>1. DOMAIN <<a, b>> = {1, 2} /\ <<a, b>>[1] = a /\ <<a, b>>[2] = b
    OBVIOUS
  <2> QED BY <2>1 DEF Range
<1> QED BY <1>1, <1>2

\* The parts of the panel have their types.
LEMMA RealParts ==
  ASSUME real \in Panel
  PROVE  /\ real.zone \in [Zones -> ZoneStates] /\ real.output \in [Outputs -> BOOLEAN]
         /\ real.arm \in [Partitions -> Levels] /\ real.light \in [Partitions -> [Lights -> BOOLEAN]]
         /\ real.siren \in [Partitions -> BOOLEAN] /\ real.programming \in [Partitions -> BOOLEAN]
BY DEF Panel

\* A report about nothing that the image is checked against.
LEMMA MovesAside ==
  ASSUME Types, NEW frames \in Seq(Frame), Reports(frames), UNCHANGED <<self, view, plan>>,
         real' \in Panel,
         real'.zone = real.zone, real'.output = real.output, real'.arm = real.arm,
         \A p \in Partitions : real'.siren[p] => real.siren[p],
         \A f \in Range(frames) : f.cmd \notin {"ZONE_STATUS", "EQUIP_LIST_ZONE_DATA",
            "EQUIP_LIST_OUTPUT_DATA", "OUTPUT_EVENT", "LEVEL", "EQUIP_LIST_PARTITION_DATA",
            "SIREN_SETUP"}
  PROVE  Moves(frames)
<1>1. \A z : Range(frames) \intersect OfZone(z) = {}
  BY DEF OfZone
<1>2. \A o : Range(frames) \intersect OfOutput(o) = {}
  BY DEF OfOutput
<1>3. \A p : Range(frames) \intersect OfArm(p) = {} /\ Range(frames) \intersect OfSiren(p) = {}
  BY DEF OfArm, OfSiren
<1>4. plan.partitions \subseteq Partitions
  BY PlanThings DEF Types, TypeOK
<1> QED BY <1>1, <1>2, <1>3, <1>4 DEF Moves, Honest

\* A report that says what its zone has become moves the panel in step,
LEMMA ZoneMoved ==
  ASSUME Types, NEW f \in Frame, Reports(<<f>>), UNCHANGED <<self, view, plan>>,
         f.cmd \in {"ZONE_STATUS", "EQUIP_LIST_ZONE_DATA"},
         real' = [real EXCEPT !.zone[f.zone] = f.state]
  PROVE  Moves(<<f>>)
<1>1. /\ f.zone \in Zones /\ f.state \in ZoneStates /\ real \in Panel
      /\ plan.partitions \subseteq Partitions /\ plan.zones \subseteq Zones
  BY FrameFields, PlanThings DEF Types, TypeOK
<1>2. /\ real' \in Panel
      /\ real'.zone = [real.zone EXCEPT ![f.zone] = f.state]
      /\ real'.output = real.output /\ real'.arm = real.arm /\ real'.siren = real.siren
  BY <1>1 DEF Panel
<1>3. Range(<<f>>) = {f} /\ <<f>> \in Seq(Frame)
  BY RangeOfFrames
<1>4. /\ \A o : {f} \intersect OfOutput(o) = {}
      /\ \A p : {f} \intersect OfArm(p) = {} /\ {f} \intersect OfSiren(p) = {}
  BY DEF OfOutput, OfArm, OfSiren
<1>5. ASSUME NEW z \in plan.zones
      PROVE  Honest(<<f>>, OfZone(z), TrueOfZone(z)', real'.zone[z] = real.zone[z])
  <2>1. CASE z = f.zone
    <3>1. f \in OfZone(z) /\ f \in OfZone(z)' /\ f.state = real'.zone[z]
      BY <1>1, <1>2, <2>1, RealParts, SamePlan DEF OfZone
    <3> QED BY <1>3, <3>1 DEF Honest, TrueOfZone
  <2>2. CASE z # f.zone
    <3>1. f \notin OfZone(z) /\ real'.zone[z] = real.zone[z]
      BY <1>1, <1>2, <2>2, RealParts DEF OfZone
    <3> QED BY <1>3, <3>1 DEF Honest
  <2> QED BY <2>1, <2>2
<1> QED BY <1>1, <1>2, <1>3, <1>4, <1>5 DEF Moves, Honest

\* as one of an output does.
LEMMA OutputMoved ==
  ASSUME Types, NEW f \in Frame, Reports(<<f>>), UNCHANGED <<self, view, plan>>,
         f.cmd \in {"EQUIP_LIST_OUTPUT_DATA", "OUTPUT_EVENT"},
         real' = [real EXCEPT !.output[f.output] = SaidOfOutput(f)]
  PROVE  Moves(<<f>>)
<1>1. /\ f.output \in Outputs /\ SaidOfOutput(f) \in BOOLEAN /\ real \in Panel
      /\ plan.partitions \subseteq Partitions /\ plan.outputs \subseteq Outputs
  BY FrameFields, PlanThings DEF Types, TypeOK, SaidOfOutput
<1>2. /\ real' \in Panel
      /\ real'.output = [real.output EXCEPT ![f.output] = SaidOfOutput(f)]
      /\ real'.zone = real.zone /\ real'.arm = real.arm /\ real'.siren = real.siren
  BY <1>1 DEF Panel
<1>3. Range(<<f>>) = {f} /\ <<f>> \in Seq(Frame)
  BY RangeOfFrames
<1>4. /\ \A z : {f} \intersect OfZone(z) = {}
      /\ \A p : {f} \intersect OfArm(p) = {} /\ {f} \intersect OfSiren(p) = {}
  BY DEF OfZone, OfArm, OfSiren
<1>5. ASSUME NEW o \in plan.outputs
      PROVE  Honest(<<f>>, OfOutput(o), TrueOfOutput(o)', real'.output[o] = real.output[o])
  <2>1. CASE o = f.output
    <3>1. f \in OfOutput(o) /\ f \in OfOutput(o)' /\ SaidOfOutput(f) = real'.output[o]
      BY <1>1, <1>2, <2>1, RealParts, SamePlan DEF OfOutput
    <3> QED BY <1>3, <3>1 DEF Honest, TrueOfOutput, SaidOfOutput
  <2>2. CASE o # f.output
    <3>1. f \notin OfOutput(o) /\ real'.output[o] = real.output[o]
      BY <1>1, <1>2, <2>2, RealParts DEF OfOutput
    <3> QED BY <1>3, <3>1 DEF Honest
  <2> QED BY <2>1, <2>2
<1> QED BY <1>1, <1>2, <1>3, <1>4, <1>5 DEF Moves, Honest

\* A siren that is switched off by a change of the arm level stops first.
LEMMA ArmMoved ==
  ASSUME Types, NEW f \in Frame, f.cmd \in {"LEVEL", "EQUIP_LIST_PARTITION_DATA"},
         NEW frames, frames = <<f>> \/ frames = <<[cmd |-> "SIREN_STOP", partition |-> f.partition], f>>,
         Reports(frames), UNCHANGED <<self, view, plan>>,
         NEW on \in BOOLEAN, on => real.siren[f.partition],
         real' = [real EXCEPT !.arm[f.partition] = f.level, !.siren[f.partition] = on]
  PROVE  Moves(frames)
<1>1. /\ f.partition \in plan.partitions /\ f.partition \in Partitions /\ f.level \in Levels
      /\ real \in Panel /\ plan.partitions \subseteq Partitions
  BY FrameFields, PlanThings DEF Types, TypeOK
<1>2. /\ real' \in Panel
      /\ real'.arm = [real.arm EXCEPT ![f.partition] = f.level]
      /\ real'.siren = [real.siren EXCEPT ![f.partition] = on]
      /\ real'.zone = real.zone /\ real'.output = real.output
  BY <1>1 DEF Panel
<1> DEFINE stop == [cmd |-> "SIREN_STOP", partition |-> f.partition]
<1>3. stop \in Frame /\ stop.cmd = "SIREN_STOP"
  BY <1>1, FrameKinds DEF PlainPartition
<1> HIDE DEF stop
<1>4. f \in Range(frames) /\ Range(frames) \subseteq {stop, f} /\ frames \in Seq(Frame)
  <2>1. CASE frames = <<f>>
    BY <2>1, RangeOfFrames
  <2>2. CASE frames = <<stop, f>>
    <3>1. Range(frames) = {stop, f}
      BY <2>2, RangeOfFrames, Zenon
    <3>2. frames \in Seq(Frame)
      BY <1>3, <2>2
    <3> QED BY <3>1, <3>2
  <2> QED BY <2>1, <2>2 DEF stop
<1>5. /\ \A z : Range(frames) \intersect OfZone(z) = {}
      /\ \A o : Range(frames) \intersect OfOutput(o) = {}
      /\ \A p : Range(frames) \intersect OfSiren(p) = {}
      /\ \A p : Range(frames) \intersect OfArm(p) \subseteq {f}
  BY <1>3, <1>4 DEF OfZone, OfOutput, OfSiren, OfArm
<1>6. ASSUME NEW p \in plan.partitions
      PROVE  Honest(frames, OfArm(p), TrueOfArm(p)', real'.arm[p] = real.arm[p])
  <2>1. CASE p = f.partition
    <3>1. f \in OfArm(p) /\ f \in OfArm(p)' /\ f.level = real'.arm[p]
      BY <1>1, <1>2, <2>1, RealParts, SamePlan DEF OfArm
    <3> QED BY <1>4, <1>5, <3>1 DEF Honest, TrueOfArm
  <2>2. CASE p # f.partition
    <3>1. f \notin OfArm(p) /\ real'.arm[p] = real.arm[p]
      BY <1>1, <1>2, <2>2, RealParts DEF OfArm
    <3> QED BY <1>5, <3>1 DEF Honest
  <2> QED BY <2>1, <2>2
<1>7. \A p \in plan.partitions : real'.siren[p] => real.siren[p]
  BY <1>1, <1>2, RealParts
<1> QED BY <1>1, <1>2, <1>4, <1>5, <1>6, <1>7 DEF Moves, Honest
\* What the panel says of an entry of its list.
LEMMA ReportOfEntry ==
  ASSUME Types, NEW e \in Entry
  PROVE  /\ Report(e[1], e[2]) \in Frame /\ Report(e[1], e[2]).cmd = e[1]
         /\ e[1] \in {"ZONE_STATUS", "EQUIP_LIST_ZONE_DATA"} =>
              /\ Report(e[1], e[2]).zone = e[2] /\ Report(e[1], e[2]).state = real.zone[e[2]]
              /\ e[2] \in plan.zones
         /\ e[1] = "EQUIP_LIST_OUTPUT_DATA" =>
              /\ Report(e[1], e[2]).output = e[2] /\ Report(e[1], e[2]).state = real.output[e[2]]
              /\ e[2] \in plan.outputs
         /\ e[1] \in {"LEVEL", "EQUIP_LIST_PARTITION_DATA"} =>
              /\ Report(e[1], e[2]).partition = e[2] /\ Report(e[1], e[2]).level = real.arm[e[2]]
              /\ e[2] \in plan.partitions
         /\ e[1] # "SIREN_SETUP"
<1> DEFINE c == e[1]
           i == e[2]
<1>1. /\ real \in Panel /\ plan.zones \subseteq Zones /\ plan.outputs \subseteq Outputs
      /\ plan.partitions \subseteq Partitions
  BY PlanThings DEF Types, TypeOK
<1>2. CASE c \in {"EQUIP_LIST_ZONE_DATA", "ZONE_STATUS"} /\ i \in plan.zones
  <2>1. Report(c, i) = [cmd |-> c, zone |-> i, state |-> real.zone[i], partition |-> 1]
    BY <1>2 DEF Report
  <2>2. real.zone[i] \in ZoneStates
    BY <1>1, <1>2, RealParts
  <2>3. Report(c, i) \in ListedZone
    BY <1>2, <2>1, <2>2 DEF ListedZone
  <2> QED BY <1>2, <2>1, <2>3, FrameKinds
<1>3. CASE c \in {"LEVEL", "EQUIP_LIST_PARTITION_DATA"} /\ i \in plan.partitions
  <2>1. Report(c, i) = [cmd |-> c, partition |-> i, level |-> real.arm[i]]
    BY <1>3 DEF Report
  <2>2. real.arm[i] \in Levels
    BY <1>1, <1>3, RealParts
  <2>3. Report(c, i) \in LevelFrame
    BY <1>3, <2>1, <2>2 DEF LevelFrame
  <2> QED BY <1>3, <2>1, <2>3, FrameKinds
<1>4. CASE c = "EQUIP_LIST_OUTPUT_DATA" /\ i \in plan.outputs
  <2>1. Report(c, i) = [cmd |-> c, output |-> i, state |-> real.output[i]]
    BY <1>4 DEF Report
  <2>2. real.output[i] \in BOOLEAN
    BY <1>1, <1>4, RealParts
  <2>3. Report(c, i) \in ListedOutput
    BY <1>4, <2>1, <2>2 DEF ListedOutput
  <2> QED BY <1>4, <2>1, <2>3, FrameKinds
<1>5. CASE c = "LIGHTS_STATE" /\ i \in plan.partitions
  <2>1. Report(c, i) = [cmd |-> c, partition |-> i, on |-> real.light[i]]
    BY <1>5 DEF Report
  <2>2. real.light[i] \in [Lights -> BOOLEAN]
    BY <1>1, <1>5, RealParts
  <2>3. Report(c, i) \in LightsFrame
    BY <1>5, <2>1, <2>2 DEF LightsFrame
  <2> QED BY <1>5, <2>1, <2>3, FrameKinds
<1>6. CASE c = "EQUIP_LIST_LIGHT_TO_SENSOR_DATA" /\ i \in plan.partitions
  <2>1. Report(c, i) = [cmd |-> c, partition |-> i]
    BY <1>6 DEF Report
  <2>2. Report(c, i) \in PlainPartition
    BY <1>6, <2>1 DEF PlainPartition
  <2> QED BY <1>6, <2>1, <2>2, FrameKinds
<1>7. CASE c = "EQUIP_LIST_SUPERBUS_DEV_DATA" /\ i \in Devices
  <2>1. Report(c, i) = [cmd |-> c, device |-> i]
    BY <1>7 DEF Report
  <2>2. Report(c, i) \in DeviceFrame
    BY <1>7, <2>1 DEF DeviceFrame
  <2> QED BY <1>7, <2>1, <2>2, FrameKinds
<1>8. CASE c = "EQUIP_LIST_USER_DATA"
  <2>1. Report(c, i) = [cmd |-> c, code |-> "set"]
    BY <1>8 DEF Report
  <2>2. Report(c, i) \in UserFrame
    BY <1>8, <2>1 DEF UserFrame
  <2> QED BY <1>8, <2>1, <2>2, FrameKinds
<1>9. CASE c \in {"EQUIP_LIST_COMPLETE", "TIME_AND_DATE"}
  <2>1. Report(c, i) = [cmd |-> c]
    BY <1>9 DEF Report
  <2>2. Report(c, i) \in PlainFrame
    BY <1>9, <2>1 DEF PlainFrame
  <2> QED BY <1>9, <2>1, <2>2, FrameKinds
<1>10. \/ c \in {"EQUIP_LIST_ZONE_DATA", "ZONE_STATUS"} /\ i \in plan.zones
       \/ /\ c \in {"EQUIP_LIST_PARTITION_DATA", "LEVEL", "EQUIP_LIST_LIGHT_TO_SENSOR_DATA",
                    "LIGHTS_STATE"}
          /\ i \in plan.partitions
       \/ c = "EQUIP_LIST_OUTPUT_DATA" /\ i \in plan.outputs
       \/ c = "EQUIP_LIST_SUPERBUS_DEV_DATA" /\ i \in Devices
       \/ c \in {"EQUIP_LIST_USER_DATA", "EQUIP_LIST_COMPLETE", "TIME_AND_DATE"}
  BY DEF Entry
<1> QED BY <1>2, <1>3, <1>4, <1>5, <1>6, <1>7, <1>8, <1>9, <1>10

\* A report of a list says what the thing is like.
LEMMA ListsMove ==
  ASSUME Types, PanelLists
  PROVE  /\ Moves(<<Report(Head(listing)[1], Head(listing)[2])>>)
         /\ listing' \in Seq(Entry) /\ Head(listing) \in Entry
<1> DEFINE e == Head(listing)
           f == Report(e[1], e[2])
<1>1. /\ listing \in Seq(Entry) /\ listing # << >> /\ listing' = Tail(listing)
      /\ Reports(<<f>>) /\ UNCHANGED <<self, view, plan, real>>
  BY DEF Types, PanelLists
<1>2. e \in Entry /\ listing' \in Seq(Entry)
  BY <1>1
<1>3. f \in Frame /\ f.cmd = e[1]
  BY <1>2, ReportOfEntry
<1>4. real \in Panel /\ real.zone \in [Zones -> ZoneStates]
      /\ real.output \in [Outputs -> BOOLEAN] /\ real.arm \in [Partitions -> Levels]
      /\ real.siren \in [Partitions -> BOOLEAN]
      /\ plan.partitions \subseteq Partitions
  <2>1. real \in Panel
    BY DEF Types, TypeOK
  <2>2. plan.partitions \subseteq Partitions
    BY PlanThings DEF Types, TypeOK
  <2> QED BY <2>1, <2>2, RealParts
<1>5. CASE e[1] \in {"ZONE_STATUS", "EQUIP_LIST_ZONE_DATA"}
  <2>1. f.zone = e[2] /\ f.state = real.zone[e[2]]
    BY <1>2, <1>5, ReportOfEntry
  <2>2. real' = [real EXCEPT !.zone[f.zone] = f.state]
    BY <1>1, <1>4, <2>1 DEF Panel
  <2> QED BY <1>1, <1>2, <1>3, <1>5, <2>2, ZoneMoved
<1>6. CASE e[1] = "EQUIP_LIST_OUTPUT_DATA"
  <2>1. f.output = e[2] /\ SaidOfOutput(f) = real.output[e[2]]
    BY <1>2, <1>3, <1>6, ReportOfEntry DEF SaidOfOutput
  <2>2. real' = [real EXCEPT !.output[f.output] = SaidOfOutput(f)]
    BY <1>1, <1>4, <2>1 DEF Panel
  <2> QED BY <1>1, <1>2, <1>3, <1>6, <2>2, OutputMoved
<1>7. CASE e[1] \in {"LEVEL", "EQUIP_LIST_PARTITION_DATA"}
  <2>1. f.partition = e[2] /\ f.level = real.arm[e[2]] /\ f.partition \in Partitions
    BY <1>2, <1>4, <1>7, ReportOfEntry
  <2> DEFINE on == real.siren[f.partition]
  <2>2. real' = [real EXCEPT !.arm[f.partition] = f.level, !.siren[f.partition] = on]
    <3>1. real.siren = [real.siren EXCEPT ![f.partition] = on]
          /\ real.arm = [real.arm EXCEPT ![f.partition] = f.level]
      BY <1>4, <2>1
    <3> QED BY <1>1, <1>4, <3>1 DEF Panel
  <2>3. on \in BOOLEAN
    BY <1>4, <2>1
  <2> HIDE DEF on, f
  <2>4. Moves(<<f>>)
    BY <1>1, <1>3, <1>7, <2>2, <2>3, ArmMoved DEF on
  <2> QED BY <1>2, <2>4 DEF f
<1>8. CASE e[1] \notin {"ZONE_STATUS", "EQUIP_LIST_ZONE_DATA", "EQUIP_LIST_OUTPUT_DATA", "LEVEL",
                        "EQUIP_LIST_PARTITION_DATA"}
  <2>1. e[1] \notin {"OUTPUT_EVENT", "SIREN_SETUP"}
    BY <1>2 DEF Entry
  <2>2. <<f>> \in Seq(Frame) /\ Range(<<f>>) = {f}
    BY <1>3, RangeOfFrames
  <2> HIDE DEF f, e
  <2>3. Moves(<<f>>)
    BY <1>1, <1>3, <1>4, <1>8, <2>1, <2>2, MovesAside
  <2> QED BY <1>2, <2>3 DEF f, e
<1> QED BY <1>5, <1>6, <1>7, <1>8
\* The message of a request names a thing of this panel.
LEMMA KeyFields ==
  ASSUME NEW k \in Key
  PROVE  /\ k.cmd = "OUTPUT" => k.output \in plan.outputs
         /\ k.cmd = "ARM" => k.partition \in plan.partitions /\ k.level \in Levels
         /\ k.cmd = "LIGHT" => /\ k.partition \in plan.partitions /\ k.light \in Lights
                               /\ k.on \in BOOLEAN
         /\ k.cmd = "BYPASS" => k.zone \in plan.zones /\ "BYPASSED" \in ZoneBits
BY DEF Key, BypassZones

\* Concatenations of at most two frames, written out.
LEMMA Joined ==
  ASSUME NEW a, NEW b
  PROVE  << >> \o <<b>> = <<b>> /\ <<a>> \o <<b>> = <<a, b>>
<1>1. << >> \in Seq({a, b}) /\ <<a>> \in Seq({a, b}) /\ <<b>> \in Seq({a, b})
  OBVIOUS
<1>2. << >> \o <<b>> = <<b>>
  BY <1>1
<1>3. <<a>> \o <<b>> \in Seq({a, b}) /\ Len(<<a>> \o <<b>>) = 2
  BY <1>1
<1>4. (<<a>> \o <<b>>)[1] = a /\ (<<a>> \o <<b>>)[2] = b
  BY <1>1
<1>5. <<a, b>> \in Seq({a, b}) /\ Len(<<a, b>>) = 2 /\ <<a, b>>[1] = a /\ <<a, b>>[2] = b
  OBVIOUS
<1>6. \A i \in 1 .. Len(<<a>> \o <<b>>) : (<<a>> \o <<b>>)[i] = <<a, b>>[i]
  BY <1>3, <1>4, <1>5
<1> QED BY <1>2, <1>3, <1>5, <1>6, SeqEqual

\* The frames of a change of the arm level, a siren that stops first.
LEMMA ArmChanged ==
  ASSUME Types, NEW p \in plan.partitions, NEW l \in Levels,
         real' = [real EXCEPT !.arm[p] = l, !.siren[p] = @ /\ l # 1],
         Reports((IF l = 1 THEN SirenStops(p) ELSE << >>)
                 \o <<[cmd |-> "LEVEL", partition |-> p, level |-> l]>>),
         UNCHANGED <<self, view, plan>>
  PROVE  \E frames : Moves(frames)
<1> DEFINE f == [cmd |-> "LEVEL", partition |-> p, level |-> l]
           stop == [cmd |-> "SIREN_STOP", partition |-> p]
           stops == IF l = 1 THEN SirenStops(p) ELSE << >>
           frames == stops \o <<f>>
           on == real.siren[p] /\ l # 1
<1>1. p \in Partitions /\ real \in Panel
  BY PlanThings DEF Types, TypeOK
<1>2. f \in LevelFrame
  BY DEF LevelFrame
<1>3. f \in Frame /\ f.cmd = "LEVEL" /\ f.partition = p /\ f.level = l
  BY <1>2, FrameKinds
<1>4. frames = <<f>> \/ frames = <<stop, f>>
  <2>1. stops = << >> \/ stops = <<stop>>
    BY DEF SirenStops
  <2> HIDE DEF f, stop, stops
  <2>2. CASE stops = << >>
    BY <2>2, Joined, Zenon
  <2>3. CASE stops = <<stop>>
    BY <2>3, Joined, Zenon
  <2> QED BY <2>1, <2>2, <2>3
<1>5. Reports(frames)
  OBVIOUS
<1>6. on \in BOOLEAN /\ (on => real.siren[p])
  BY <1>1, RealParts
<1>7. real' = [real EXCEPT !.arm[p] = l, !.siren[p] = on]
  <2>1. [real EXCEPT !.arm[p] = l].siren = real.siren
    BY <1>1 DEF Panel
  <2> QED BY <1>1, <2>1 DEF Panel
<1> HIDE DEF frames, on, f
<1>8. Moves(frames)
  BY <1>3, <1>4, <1>5, <1>6, <1>7, ArmMoved
<1> QED BY <1>8

\* A key press that is obeyed is the oldest one, and none that asks for reports.
LEMMA KeyTaken ==
  ASSUME PanelTogglesOutput \/ PanelTogglesBypass \/ PanelArms \/ PanelSwitchesLight
  PROVE  /\ keys # << >> /\ keys' = Tail(keys) /\ UNCHANGED <<self, listing, view, asked, plan>>
         /\ Head(keys).cmd \in {"OUTPUT", "BYPASS", "ARM", "LIGHT"}
<1>1. CASE PanelTogglesOutput
  BY <1>1 DEF PanelTogglesOutput, Obeys
<1>2. CASE PanelTogglesBypass
  BY <1>2 DEF PanelTogglesBypass, Obeys
<1>3. CASE PanelArms
  BY <1>3 DEF PanelArms, Obeys
<1>4. CASE PanelSwitchesLight
  BY <1>4 DEF PanelSwitchesLight, Obeys
<1> QED BY <1>1, <1>2, <1>3, <1>4

\* Whatever the panel obeys was the oldest message it had to read.
LEMMA ObeyTakes ==
  ASSUME Obey
  PROVE  keys # << >> /\ keys' = Tail(keys) /\ UNCHANGED <<self, view, asked, plan>>
<1>1. CASE PanelListsOnRequest
  BY <1>1 DEF PanelListsOnRequest, Obeys
<1>2. CASE PanelTogglesOutput \/ PanelTogglesBypass \/ PanelArms \/ PanelSwitchesLight
  BY <1>2, KeyTaken
<1> QED BY <1>1, <1>2 DEF Obey

\* Whatever the panel does to obey, it reports.
LEMMA ObeysMove ==
  ASSUME Types, Obey
  PROVE  \E frames : Moves(frames)
<1>1. /\ real \in Panel /\ plan.zones \subseteq Zones /\ plan.outputs \subseteq Outputs
      /\ plan.partitions \subseteq Partitions
  BY PlanThings DEF Types, TypeOK
<1>2. Head(keys) \in Key /\ UNCHANGED <<self, view, plan>>
  <2>1. keys \in Seq(Key) /\ keys # << >> /\ UNCHANGED <<self, view, plan>>
    BY ObeyTakes DEF Types
  <2> QED BY <2>1
<1>3. CASE PanelListsOnRequest
  <2>1. UNCHANGED <<line, real>>
    BY <1>3 DEF PanelListsOnRequest
  <2>2. << >> \in Seq(Frame) /\ Reports(<< >>)
    <3>1. line \in Seq(Frame) /\ Len(line) <= plan.line
      BY DEF Types, TypeOK
    <3>2. line \o << >> = line /\ Len(line) + Len(<< >>) = Len(line)
      BY <3>1
    <3> QED BY <2>1, <3>1, <3>2 DEF Reports
  <2>3. Moves(<< >>)
    BY <1>1, <1>2, <2>1, <2>2, MovesAside, RangeOfFrames
  <2> QED BY <2>3
<1>4. CASE PanelTogglesOutput
  <2> DEFINE o == Head(keys).output
             f == [cmd |-> "OUTPUT_EVENT", output |-> o, on |-> ~ real.output[o]]
  <2>1. /\ Head(keys).cmd = "OUTPUT" /\ Reports(<<f>>)
        /\ real' = [real EXCEPT !.output[o] = ~ real.output[o]]
    BY <1>1, <1>4 DEF PanelTogglesOutput, Obeys, Panel
  <2>2. o \in plan.outputs
    BY <1>2, <2>1, KeyFields
  <2>3. f \in OutputFrame
    BY <2>2 DEF OutputFrame
  <2>4. f \in Frame /\ f.cmd = "OUTPUT_EVENT" /\ f.output = o /\ SaidOfOutput(f) = ~ real.output[o]
    BY <2>3, FrameKinds DEF SaidOfOutput
  <2>5. Moves(<<f>>)
    BY <1>2, <2>1, <2>4, OutputMoved
  <2> QED BY <2>5
<1>5. CASE PanelTogglesBypass
  <2> DEFINE z == Head(keys).zone
             now == IF "BYPASSED" \in real.zone[z] THEN real.zone[z] \ {"BYPASSED"}
                    ELSE real.zone[z] \union {"BYPASSED"}
             f == [cmd |-> "ZONE_STATUS", zone |-> z, state |-> now]
  <2>1. /\ Head(keys).cmd = "BYPASS" /\ Reports(<<f>>)
        /\ real' = [real EXCEPT !.zone[z] = now]
    BY <1>5 DEF PanelTogglesBypass, Obeys
  <2>2. z \in plan.zones /\ now \in ZoneStates
    BY <1>1, <1>2, <2>1, KeyFields, RealParts DEF ZoneStates
  <2>3. f \in ZoneFrame
    BY <2>2 DEF ZoneFrame
  <2>4. f \in Frame /\ f.cmd = "ZONE_STATUS" /\ f.zone = z /\ f.state = now
    BY <2>3, FrameKinds
  <2> HIDE DEF f, now
  <2>5. Moves(<<f>>)
    BY <1>2, <2>1, <2>4, ZoneMoved
  <2> QED BY <2>5
<1>6. CASE PanelArms
  <2>1. Head(keys).partition \in plan.partitions /\ Head(keys).level \in Levels
    BY <1>2, <1>6, KeyFields DEF PanelArms, Obeys
  <2> QED BY <1>2, <1>6, <2>1, ArmChanged DEF PanelArms
<1>7. CASE PanelSwitchesLight
  <2> DEFINE m == Head(keys)
             now == [l \in Lights |-> IF m.light \in {0, l} THEN m.on ELSE real.light[m.partition][l]]
             f == [cmd |-> "LIGHTS_STATE", partition |-> m.partition, on |-> now]
  <2>1. /\ m.cmd = "LIGHT" /\ Reports(<<f>>) /\ real' = [real EXCEPT !.light[m.partition] = now]
    BY <1>7 DEF PanelSwitchesLight, Obeys
  <2>2. m.partition \in plan.partitions /\ m.on \in BOOLEAN
    BY <1>2, <2>1, KeyFields
  <2>3. now \in [Lights -> BOOLEAN]
    BY <1>1, <2>2, RealParts
  <2>4. f \in LightsFrame
    BY <2>2, <2>3 DEF LightsFrame
  <2>5. f \in Frame /\ f.cmd = "LIGHTS_STATE"
    BY <2>4, FrameKinds
  <2> HIDE DEF now
  <2>6. /\ real' \in Panel /\ real'.zone = real.zone /\ real'.output = real.output
        /\ real'.arm = real.arm /\ real'.siren = real.siren
    BY <1>1, <2>1, <2>2, <2>3 DEF Panel
  <2> HIDE DEF f
  <2>7. <<f>> \in Seq(Frame) /\ Range(<<f>>) = {f}
    BY <2>5, RangeOfFrames
  <2>8. \A p \in Partitions : real'.siren[p] => real.siren[p]
    BY <2>6
  <2>9. Moves(<<f>>)
    BY <1>2, <2>1, <2>5, <2>6, <2>7, <2>8, MovesAside
  <2> QED BY <2>9
<1> QED BY <1>3, <1>4, <1>5, <1>6, <1>7 DEF Obey
\* Reports about things the image is not checked against.
LEMMA AsideHappens ==
  ASSUME Types, NEW f \in Frame, Reports(<<f>>), UNCHANGED <<self, view, plan>>,
         f.cmd \notin {"ZONE_STATUS", "EQUIP_LIST_ZONE_DATA", "EQUIP_LIST_OUTPUT_DATA",
                       "OUTPUT_EVENT", "LEVEL", "EQUIP_LIST_PARTITION_DATA", "SIREN_SETUP"},
         \/ real' = real
         \/ \E q \in [Partitions -> BOOLEAN] : real' = [real EXCEPT !.programming = q]
         \/ \E q \in [Partitions -> [Lights -> BOOLEAN]] : real' = [real EXCEPT !.light = q]
         \/ \E q \in [Partitions -> BOOLEAN] :
              /\ real' = [real EXCEPT !.siren = q]
              /\ \A p \in Partitions : q[p] => real.siren[p]
  PROVE  Moves(<<f>>)
<1>1. real \in Panel
  BY DEF Types, TypeOK
<1>2. /\ real' \in Panel /\ real'.zone = real.zone /\ real'.output = real.output
      /\ real'.arm = real.arm /\ \A p \in Partitions : real'.siren[p] => real.siren[p]
  <2>1. CASE real' = real
    BY <1>1, <2>1
  <2>2. CASE \E q \in [Partitions -> BOOLEAN] : real' = [real EXCEPT !.programming = q]
    BY <1>1, <2>2 DEF Panel
  <2>3. CASE \E q \in [Partitions -> [Lights -> BOOLEAN]] : real' = [real EXCEPT !.light = q]
    BY <1>1, <2>3 DEF Panel
  <2>4. CASE \E q \in [Partitions -> BOOLEAN] :
               /\ real' = [real EXCEPT !.siren = q]
               /\ \A p \in Partitions : q[p] => real.siren[p]
    BY <1>1, <2>4 DEF Panel
  <2> QED BY <2>1, <2>2, <2>3, <2>4
<1>3. <<f>> \in Seq(Frame) /\ Range(<<f>>) = {f}
  BY RangeOfFrames
<1> QED BY <1>2, <1>3, MovesAside

\* The panel says that reports were lost.
LEMMA LossMoves ==
  ASSUME Types, LosesEvents
  PROVE  Moves(<<[cmd |-> "CLEAR_AUTOMATION_DYNAMIC_IMAGE"]>>)
<1> DEFINE f == [cmd |-> "CLEAR_AUTOMATION_DYNAMIC_IMAGE"]
<1>1. /\ real \in Panel /\ plan.zones \subseteq Zones /\ plan.outputs \subseteq Outputs
      /\ plan.partitions \subseteq Partitions /\ plan.levels \subseteq Levels
  BY PlanThings DEF Types, TypeOK
<1>2. f \in PlainFrame
  BY DEF PlainFrame
<1>3. f \in Frame /\ f.cmd = "CLEAR_AUTOMATION_DYNAMIC_IMAGE"
  BY <1>2, FrameKinds
<1>4. Reports(<<f>>) /\ UNCHANGED <<self, view, plan>>
  BY DEF LosesEvents, Happens
<1>5. real' \in Panel /\ real'.siren = real.siren
  <2>1. CASE \E z \in plan.zones, now \in ZoneStates : real' = [real EXCEPT !.zone[z] = now]
    <3>1. PICK z \in plan.zones, now \in ZoneStates : real' = [real EXCEPT !.zone[z] = now]
      BY <2>1
    <3> DEFINE zones == [real.zone EXCEPT ![z] = now]
    <3>2. zones \in [Zones -> ZoneStates]
      BY <1>1, RealParts
    <3>3. real' = [real EXCEPT !.zone = zones]
      BY <1>1, <3>1
    <3> HIDE DEF zones
    <3> QED BY <1>1, <3>2, <3>3 DEF Panel
  <2>2. CASE \E o \in plan.outputs : real' = [real EXCEPT !.output[o] = ~ @]
    <3>1. PICK o \in plan.outputs : real' = [real EXCEPT !.output[o] = ~ @]
      BY <2>2
    <3> DEFINE outputs == [real.output EXCEPT ![o] = ~ real.output[o]]
    <3>2. outputs \in [Outputs -> BOOLEAN]
      BY <1>1, RealParts
    <3>3. real' = [real EXCEPT !.output = outputs]
      BY <1>1, <3>1
    <3> HIDE DEF outputs
    <3> QED BY <1>1, <3>2, <3>3 DEF Panel
  <2>3. CASE \E p \in plan.partitions, l \in plan.levels : real' = [real EXCEPT !.arm[p] = l]
    <3>1. PICK p \in plan.partitions, l \in plan.levels : real' = [real EXCEPT !.arm[p] = l]
      BY <2>3
    <3>2. [real.arm EXCEPT ![p] = l] \in [Partitions -> Levels]
      BY <1>1, <3>1, RealParts
    <3> QED BY <1>1, <3>1, <3>2 DEF Panel
  <2> QED BY <2>1, <2>2, <2>3 DEF LosesEvents
<1> HIDE DEF f
<1>6. <<f>> \in Seq(Frame) /\ Range(<<f>>) = {f}
  BY <1>3, RangeOfFrames
<1>7. \A z, o, p : f \notin OfZone(z) /\ f \notin OfOutput(o) /\ f \notin OfArm(p) /\ f \notin OfSiren(p)
  BY <1>3 DEF OfZone, OfOutput, OfArm, OfSiren
<1>8. Moves(<<f>>)
  BY <1>3, <1>4, <1>5, <1>6, <1>7 DEF Moves, Honest
<1> QED BY <1>8 DEF f

\* A siren that starts is reported by its setup and its go.
LEMMA SirenStartMoves ==
  ASSUME Types, NEW p \in plan.partitions, NEW repeat \in {0, 1}, SirenStarts(p, repeat)
  PROVE  Moves(<<[cmd |-> "SIREN_SETUP", partition |-> p, repeat |-> repeat], [cmd |-> "SIREN_GO"]>>)
<1> DEFINE f == [cmd |-> "SIREN_SETUP", partition |-> p, repeat |-> repeat]
           g == [cmd |-> "SIREN_GO"]
<1>1. real \in Panel /\ p \in Partitions /\ plan.partitions \subseteq Partitions
  BY PlanThings DEF Types, TypeOK
<1>2. f \in SirenFrame /\ g \in PlainFrame
  BY DEF SirenFrame, PlainFrame
<1>3. /\ f \in Frame /\ f.cmd = "SIREN_SETUP" /\ f.partition = p /\ f.repeat = repeat
      /\ g \in Frame /\ g.cmd = "SIREN_GO"
  BY <1>2, FrameKinds
<1>4. /\ Reports(<<f, g>>) /\ UNCHANGED <<self, view, plan>>
      /\ real' = [real EXCEPT !.siren[p] = repeat = 0]
  BY DEF SirenStarts, Happens
<1> DEFINE on == repeat = 0
           sirens == [real.siren EXCEPT ![p] = on]
<1>5. on \in BOOLEAN /\ sirens \in [Partitions -> BOOLEAN]
  BY <1>1, RealParts
<1>6. real' = [real EXCEPT !.siren = sirens]
  BY <1>1, <1>4 DEF Panel
<1>7. /\ real' \in Panel /\ real'.zone = real.zone /\ real'.output = real.output
      /\ real'.arm = real.arm /\ real'.siren = sirens
  <2> HIDE DEF sirens
  <2> QED BY <1>1, <1>5, <1>6 DEF Panel
<1> HIDE DEF f, g
<1>8. <<f, g>> \in Seq(Frame) /\ Range(<<f, g>>) = {f, g}
  BY <1>3, RangeOfFrames
<1>9. \A z, o, q : {f, g} \intersect OfZone(z) = {} /\ {f, g} \intersect OfOutput(o) = {}
                   /\ {f, g} \intersect OfArm(q) = {}
  BY <1>3 DEF OfZone, OfOutput, OfArm
<1>10. ASSUME NEW q \in plan.partitions, real'.siren[q]
       PROVE  /\ {f, g} \intersect OfSiren(q) \subseteq TrueOfSiren(q)
              /\ real.siren[q] \/ {f, g} \intersect OfSiren(q) # {}
  <2>1. CASE q = p
    <3>1. on
      BY <1>1, <1>7, <1>10, <2>1, RealParts
    <3>2. f \in OfSiren(q) /\ f \in TrueOfSiren(q) /\ g \notin OfSiren(q)
      BY <1>3, <2>1, <3>1 DEF OfSiren, TrueOfSiren
    <3> QED BY <3>2
  <2>2. CASE q # p
    <3>1. real.siren[q]
      BY <1>1, <1>7, <1>10, <2>2, RealParts
    <3>2. f \notin OfSiren(q) /\ g \notin OfSiren(q)
      BY <1>3, <2>2 DEF OfSiren
    <3> QED BY <3>1, <3>2
  <2> QED BY <2>1, <2>2
<1>11. Moves(<<f, g>>)
  BY <1>4, <1>7, <1>8, <1>9, <1>10 DEF Moves, Honest
<1> QED BY <1>11 DEF f, g
\* Whatever happens at the panel, it reports.
LEMMA HappensMove ==
  ASSUME Types, Happen
  PROVE  \E frames : Moves(frames)
<1>1. /\ real \in Panel /\ plan.zones \subseteq Zones /\ plan.outputs \subseteq Outputs
      /\ plan.partitions \subseteq Partitions /\ plan.levels \subseteq Levels
  BY PlanThings DEF Types, TypeOK
<1>2. UNCHANGED <<self, view, plan>>
  BY DEF Happen, Happens, ZoneChanges, KeyfobPressed, OutputChanges, LightsChange, SirenTimesOut,
         ProgrammingChanges, UserLight, ArmChanges, Delay, SirenStarts, Displays, FeatureChanges,
         LosesEvents
<1>3. ASSUME NEW z \in plan.zones, ZoneChanges(z) PROVE \E frames : Moves(frames)
  <2>1. PICK now \in ZoneStates : /\ real' = [real EXCEPT !.zone[z] = now]
                                  /\ Reports(<<[cmd |-> "ZONE_STATUS", zone |-> z, state |-> now]>>)
    BY <1>3 DEF ZoneChanges
  <2> DEFINE f == [cmd |-> "ZONE_STATUS", zone |-> z, state |-> now]
  <2>2. f \in ZoneFrame
    BY DEF ZoneFrame
  <2>3. f \in Frame /\ f.cmd = "ZONE_STATUS" /\ f.zone = z /\ f.state = now
    BY <2>2, FrameKinds
  <2> HIDE DEF f
  <2>4. Moves(<<f>>)
    BY <1>2, <2>1, <2>3, ZoneMoved DEF f
  <2> QED BY <2>4
<1>4. ASSUME NEW z \in plan.zones, NEW code \in Codes, KeyfobPressed(z, code)
      PROVE  \E frames : Moves(frames)
  <2> DEFINE f == [cmd |-> "KEYFOB", zone |-> z, code |-> code]
  <2>1. f \in KeyfobFrame
    BY DEF KeyfobFrame
  <2>2. f \in Frame /\ f.cmd = "KEYFOB"
    BY <2>1, FrameKinds
  <2>3. Reports(<<f>>) /\ real' = real
    BY <1>4 DEF KeyfobPressed
  <2> HIDE DEF f
  <2>4. Moves(<<f>>)
    BY <1>2, <2>2, <2>3, AsideHappens
  <2> QED BY <2>4
<1>5. ASSUME NEW o \in plan.outputs, OutputChanges(o) PROVE \E frames : Moves(frames)
  <2> DEFINE f == [cmd |-> "OUTPUT_EVENT", output |-> o, on |-> ~ real.output[o]]
  <2>1. Reports(<<f>>) /\ real' = [real EXCEPT !.output[o] = ~ real.output[o]]
    BY <1>1, <1>5 DEF OutputChanges, Panel
  <2>2. f \in OutputFrame
    BY DEF OutputFrame
  <2>3. f \in Frame /\ f.cmd = "OUTPUT_EVENT" /\ f.output = o /\ SaidOfOutput(f) = ~ real.output[o]
    BY <2>2, FrameKinds DEF SaidOfOutput
  <2>4. Moves(<<f>>)
    BY <1>2, <2>1, <2>3, OutputMoved
  <2> QED BY <2>4
<1>6. ASSUME NEW p \in plan.partitions, LightsChange(p) PROVE \E frames : Moves(frames)
  <2>1. PICK now \in [Lights -> BOOLEAN] :
          /\ real' = [real EXCEPT !.light[p] = now]
          /\ Reports(<<[cmd |-> "LIGHTS_STATE", partition |-> p, on |-> now]>>)
    BY <1>6 DEF LightsChange
  <2> DEFINE f == [cmd |-> "LIGHTS_STATE", partition |-> p, on |-> now]
             q == [real.light EXCEPT ![p] = now]
  <2>2. f \in LightsFrame
    BY DEF LightsFrame
  <2>3. f \in Frame /\ f.cmd = "LIGHTS_STATE"
    BY <2>2, FrameKinds
  <2>4. q \in [Partitions -> [Lights -> BOOLEAN]] /\ real' = [real EXCEPT !.light = q]
    BY <1>1, <2>1, RealParts
  <2>5. Reports(<<f>>)
    BY <2>1
  <2> HIDE DEF f, q
  <2>6. Moves(<<f>>)
    BY <1>2, <2>3, <2>4, <2>5, AsideHappens
  <2> QED BY <2>6
<1>7. ASSUME NEW p \in plan.partitions, SirenTimesOut(p) PROVE \E frames : Moves(frames)
  <2> DEFINE f == [cmd |-> "SIREN_STOP", partition |-> p]
             q == [real.siren EXCEPT ![p] = FALSE]
  <2>1. f \in PlainPartition
    BY DEF PlainPartition
  <2>2. f \in Frame /\ f.cmd = "SIREN_STOP"
    BY <2>1, FrameKinds
  <2>3. /\ q \in [Partitions -> BOOLEAN] /\ real' = [real EXCEPT !.siren = q]
        /\ \A r \in Partitions : q[r] => real.siren[r]
    BY <1>1, <1>7, RealParts DEF SirenTimesOut
  <2>4. Reports(<<f>>)
    BY <1>7 DEF SirenTimesOut, SirenStops
  <2> HIDE DEF f, q
  <2>5. Moves(<<f>>)
    BY <1>2, <2>2, <2>3, <2>4, AsideHappens
  <2> QED BY <2>5
<1>8. ASSUME NEW p \in plan.partitions, ProgrammingChanges(p) PROVE \E frames : Moves(frames)
  <2> DEFINE f == [cmd |-> "PROGRAMMING_MODE", partition |-> p, begin |-> ~ real.programming[p]]
             q == [real.programming EXCEPT ![p] = ~ real.programming[p]]
  <2>1. f \in ModeFrame
    BY DEF ModeFrame
  <2>2. f \in Frame /\ f.cmd = "PROGRAMMING_MODE"
    BY <2>1, FrameKinds
  <2>3. q \in [Partitions -> BOOLEAN] /\ real' = [real EXCEPT !.programming = q]
    BY <1>1, <1>8, RealParts DEF ProgrammingChanges, Panel
  <2>4. Reports(<<f>>)
    BY <1>8 DEF ProgrammingChanges
  <2> HIDE DEF f, q
  <2>5. Moves(<<f>>)
    BY <1>2, <2>2, <2>3, <2>4, AsideHappens
  <2> QED BY <2>5
<1>9. ASSUME NEW p \in plan.partitions, NEW l \in Lights, UserLight(p, l)
      PROVE  \E frames : Moves(frames)
  <2> DEFINE on == ~ real.light[p][l]
             f == [cmd |-> "USER_LIGHTS", partition |-> p, light |-> l, on |-> on]
             now == [real.light[p] EXCEPT ![l] = on]
             q == [real.light EXCEPT ![p] = now]
  <2>1. f \in LightFrame
    BY DEF LightFrame
  <2>2. f \in Frame /\ f.cmd = "USER_LIGHTS"
    BY <2>1, FrameKinds
  <2>3. now \in [Lights -> BOOLEAN]
    BY <1>1, RealParts
  <2>4. real' = [real EXCEPT !.light = q]
    BY <1>1, <1>9, RealParts DEF UserLight, Panel
  <2>5. Reports(<<f>>)
    BY <1>9 DEF UserLight
  <2> HIDE DEF f, now
  <2>6. q \in [Partitions -> [Lights -> BOOLEAN]]
    BY <1>1, <2>3, RealParts
  <2> HIDE DEF q
  <2>7. Moves(<<f>>)
    BY <1>2, <2>2, <2>4, <2>5, <2>6, AsideHappens
  <2> QED BY <2>7
<1>10. ASSUME NEW p \in plan.partitions, NEW l \in plan.levels, ArmChanges(p, l)
       PROVE  \E frames : Moves(frames)
  <2>1. l \in Levels
    BY <1>1
  <2> QED BY <1>2, <1>10, <2>1, ArmChanged DEF ArmChanges
<1>11. ASSUME NEW p \in plan.partitions, NEW exit \in BOOLEAN, NEW begin \in BOOLEAN,
              Delay(p, exit, begin)
       PROVE  \E frames : Moves(frames)
  <2> DEFINE f == [cmd |-> "ENTRY_EXIT_DELAY", partition |-> p, exit |-> exit, begin |-> begin]
  <2>1. f \in DelayFrame
    BY DEF DelayFrame
  <2>2. f \in Frame /\ f.cmd = "ENTRY_EXIT_DELAY"
    BY <2>1, FrameKinds
  <2>3. Reports(<<f>>) /\ real' = real
    BY <1>11 DEF Delay
  <2> HIDE DEF f
  <2>4. Moves(<<f>>)
    BY <1>2, <2>2, <2>3, AsideHappens
  <2> QED BY <2>4
<1>12. ASSUME NEW p \in plan.partitions, NEW repeat \in {0, 1}, SirenStarts(p, repeat)
       PROVE  \E frames : Moves(frames)
  BY <1>12, SirenStartMoves
<1>13. ASSUME NEW p \in plan.partitions, NEW t \in Texts, Displays(p, t)
       PROVE  \E frames : Moves(frames)
  <2> DEFINE f == [cmd |-> "TOUCHPAD_DISPLAY", partition |-> p, text |-> t]
  <2>1. f \in TextFrame
    BY DEF TextFrame
  <2>2. f \in Frame /\ f.cmd = "TOUCHPAD_DISPLAY"
    BY <2>1, FrameKinds
  <2>3. Reports(<<f>>) /\ real' = real
    BY <1>13 DEF Displays
  <2> HIDE DEF f
  <2>4. Moves(<<f>>)
    BY <1>2, <2>2, <2>3, AsideHappens
  <2> QED BY <2>4
<1>14. ASSUME NEW p \in plan.partitions, NEW on \in BOOLEAN, FeatureChanges(p, on)
       PROVE  \E frames : Moves(frames)
  <2> DEFINE f == [cmd |-> "FEATURE_STATE", partition |-> p, state |-> on]
  <2>1. f \in FeatureFrame
    BY DEF FeatureFrame
  <2>2. f \in Frame /\ f.cmd = "FEATURE_STATE"
    BY <2>1, FrameKinds
  <2>3. Reports(<<f>>) /\ real' = real
    BY <1>14 DEF FeatureChanges
  <2> HIDE DEF f
  <2>4. Moves(<<f>>)
    BY <1>2, <2>2, <2>3, AsideHappens
  <2> QED BY <2>4
<1>15. CASE LosesEvents
  BY <1>15, LossMoves
<1> QED BY <1>3, <1>4, <1>5, <1>6, <1>7, <1>8, <1>9, <1>10, <1>11, <1>12, <1>13, <1>14, <1>15
        DEF Happen
\* What the panel's steps do to what is under way, and to what was asked.
LEMMA PanelLeaves ==
  ASSUME Types, PanelLists \/ Obey \/ Happen
  PROVE  /\ asked' \in Asked /\ keys' \in Seq(Key) /\ listing' \in Seq(Entry)
         /\ \/ keys' = keys
            \/ keys # << >> /\ keys' = Tail(keys)
<1>1. asked \in Asked /\ keys \in Seq(Key) /\ listing \in Seq(Entry) /\ plan \in Plans
  BY DEF Types, TypeOK, Asked
<1>2. CASE PanelLists
  BY <1>1, <1>2 DEF PanelLists
<1>3. CASE Obey
  <2>1. keys # << >> /\ keys' = Tail(keys) /\ asked' = asked
    BY <1>3, ObeyTakes
  <2>2. keys' \in Seq(Key)
    BY <1>1, <2>1, HeadTailProperties
  <2>3. listing' \in Seq(Entry)
    <3>1. CASE PanelListsOnRequest
      BY <1>1, <3>1, Lists DEF PanelListsOnRequest
    <3>2. CASE PanelTogglesOutput \/ PanelTogglesBypass \/ PanelArms \/ PanelSwitchesLight
      BY <1>1, <3>2, KeyTaken
    <3> QED BY <1>3, <3>1, <3>2 DEF Obey
  <2>4. asked' \in Asked
    BY <1>1, <2>1
  <2> QED BY Zenon, <2>1, <2>2, <2>3, <2>4
<1>4. CASE Happen
  <2>1. keys' = keys /\ listing' = listing
    BY ZenonT(60), <1>4 DEF Happen, Happens, ZoneChanges, KeyfobPressed, OutputChanges, LightsChange,
       SirenTimesOut, ProgrammingChanges, UserLight, ArmChanges, Delay, SirenStarts, Displays,
       FeatureChanges, LosesEvents
  <2>2. \/ asked' = asked
        \/ \E o \in Outputs : asked' = [asked EXCEPT !.output[o] = {}]
        \/ \E p \in Partitions : asked' = [asked EXCEPT !.arm[p] = {}]
        \/ asked' = [asked EXCEPT !.output = [o \in Outputs |-> {}], !.arm = [p \in Partitions |-> {}]]
    BY <1>1, <1>4, PlanThings DEF Happen, ZoneChanges, KeyfobPressed, OutputChanges, LightsChange,
       SirenTimesOut, ProgrammingChanges, UserLight, ArmChanges, Delay, SirenStarts, Displays,
       FeatureChanges, LosesEvents
  <2>3. asked' \in Asked
    <3>1. CASE asked' = asked
      BY <1>1, <3>1
    <3>2. CASE \E o \in Outputs : asked' = [asked EXCEPT !.output[o] = {}]
      <4>1. PICK o \in Outputs : asked' = [asked EXCEPT !.output[o] = {}]
        BY <3>2
      <4>2. [asked.output EXCEPT ![o] = {}] \in [Outputs -> SUBSET BOOLEAN]
        BY <1>1 DEF Asked
      <4> QED BY <1>1, <4>1, <4>2 DEF Asked
    <3>3. CASE \E p \in Partitions : asked' = [asked EXCEPT !.arm[p] = {}]
      <4>1. PICK p \in Partitions : asked' = [asked EXCEPT !.arm[p] = {}]
        BY <3>3
      <4>2. [asked.arm EXCEPT ![p] = {}] \in [Partitions -> SUBSET Levels]
        BY <1>1 DEF Asked
      <4> QED BY <1>1, <4>1, <4>2 DEF Asked
    <3>4. CASE asked' = [asked EXCEPT !.output = [o \in Outputs |-> {}], !.arm = [p \in Partitions |-> {}]]
      <4>1. /\ [o \in Outputs |-> {}] \in [Outputs -> SUBSET BOOLEAN]
            /\ [p \in Partitions |-> {}] \in [Partitions -> SUBSET Levels]
        OBVIOUS
      <4> DEFINE outputs == [o \in Outputs |-> {}]
                 arms    == [p \in Partitions |-> {}]
      <4> HIDE DEF outputs, arms
      <4>2. asked' = [asked EXCEPT !.output = outputs, !.arm = arms]
        BY <3>4 DEF outputs, arms
      <4> QED BY <1>1, <4>1, <4>2 DEF Asked, outputs, arms
    <3> QED BY <2>2, <3>1, <3>2, <3>3, <3>4
  <2>4. keys' \in Seq(Key) /\ listing' \in Seq(Entry)
    BY Zenon, <1>1, <2>1
  <2> QED BY Zenon, <2>1, <2>3, <2>4
<1> QED BY <1>2, <1>3, <1>4

\* Every step of the panel reports honestly what it changed.
LEMMA PanelMoves ==
  ASSUME Types, PanelLists \/ Obey \/ Happen
  PROVE  \E frames : Moves(frames)
BY ListsMove, ObeysMove, HappensMove

\* The panel keeps the types.
LEMMA PanelStepTypes ==
  ASSUME Types, PanelLists \/ Obey \/ Happen
  PROVE  Types'
<1>1. PICK frames : Moves(frames)
  BY PanelMoves
<1>2. /\ frames \in Seq(Frame) /\ Reports(frames) /\ UNCHANGED <<self, view, plan>> /\ real' \in Panel
  BY <1>1 DEF Moves
<1> QED BY <1>2, PanelLeaves, PanelTypes

\* Every type holds initially.
LEMMA InitTypes == Init => Types
<1> SUFFICES ASSUME Init PROVE Types
  OBVIOUS
<1>1. /\ 1 \in Partitions /\ 0 \in Lights /\ 1 \in Levels /\ plan \in Plans /\ plan.line \in Nat
      /\ line = << >> /\ listing = << >> /\ view = << >>
  BY PanelAssumption, PlanThings DEF Init
<1>2. self \in Instance
  <2>1. self.zone \in [Zones -> ZoneEntry]
    BY DEF Init, ZoneEntry, ZoneStates, Codes
  <2>2. self.partition \in [Partitions -> Partition]
    BY DEF Init, Partition, Texts
  <2>3. self.light \in [Partitions -> [Lights -> LightEntry]]
    BY DEF Init, LightEntry
  <2>4. self.output \in [Outputs -> OutputEntry]
    BY DEF Init, OutputEntry
  <2> DEFINE zones == self.zone
             outputs == self.output
             partitions == self.partition
             lights == self.light
  <2>5. self = [zone |-> zones, output |-> outputs, partition |-> partitions, light |-> lights,
                user_code |-> "inactive", bus_device |-> << >>, refresh_pending |-> TRUE,
                siren_go_partition_id |-> 0]
    BY DEF Init
  <2> HIDE DEF zones, outputs, partitions, lights
  <2>6. /\ zones \in [Zones -> ZoneEntry] /\ outputs \in [Outputs -> OutputEntry]
        /\ partitions \in [Partitions -> Partition] /\ lights \in [Partitions -> [Lights -> LightEntry]]
        /\ << >> \in Seq(Devices)
    BY <2>1, <2>2, <2>3, <2>4 DEF zones, outputs, partitions, lights
  <2> QED BY <2>5, <2>6 DEF Instance, ZoneEntry, OutputEntry, LightEntry
<1>3. real \in Panel
  BY <1>1 DEF Init, Panel, ZoneStates
<1>4. asked \in Asked
  BY DEF Init, Asked
<1>5. keys \in Seq(Key)
  <2>1. [cmd |-> "EQUIP_LIST_REQUEST"] \in [cmd : {"EQUIP_LIST_REQUEST", "DYNAMIC_DATA_REFRESH"}]
    OBVIOUS
  <2> DEFINE request == [cmd |-> "EQUIP_LIST_REQUEST"]
  <2>2. request \in Key
    BY <2>1, Zenon DEF Key
  <2>3. keys = <<request>>
    BY DEF Init
  <2> HIDE DEF request
  <2> QED BY <2>2, <2>3
<1>6. OthersInactive
  BY DEF Init, OthersInactive
<1> QED BY <1>1, <1>2, <1>3, <1>4, <1>5, <1>6 DEF Types, TypeOK, Asked

\* Every step keeps the types.
LEMMA NextTypes ==
  ASSUME Types, [Next]_vars
  PROVE  Types'
<1>1. CASE Handle
  BY <1>1, HandleTypes
<1>2. CASE Call
  BY <1>2, CallTypes
<1>3. CASE PanelLists \/ Obey \/ Happen
  BY <1>3, PanelStepTypes
<1>4. CASE UNCHANGED vars
  BY <1>4, SamePlan DEF vars, Types, TypeOK, OthersInactive, IsView
<1> QED BY <1>1, <1>2, <1>3, <1>4 DEF Next

\* The image has the shape the daemon gives it, and what is under way fits the
\* bounds of the plan (struct concordd_instance_s, concordd.h).
THEOREM PanelTypeCorrect == Spec => []TypeOK
<1>1. Init => Types
  BY InitTypes
<1>2. Types /\ [Next]_vars => Types'
  BY NextTypes
<1>3. Types => TypeOK
  BY DEF Types
<1> QED BY <1>1, <1>2, <1>3, PTL DEF Spec
-----------------------------------------------------------------------------
(* A client that follows a partition.                                      *)

\* The fields a client follows are as they were.
FollowedKept ==
  \A p \in Partitions, f \in Followed : self'.partition[p][f] = self.partition[p][f]

\* A signal that carries new values leaves a current account current.
LEMMA StaysCurrent ==
  ASSUME Types, PartitionViewCurrent, Tells, FollowedKept
  PROVE  PartitionViewCurrent'
<1> SUFFICES ASSUME view' # << >>, NEW p \in Partitions, NEW f \in Followed
             PROVE  view'.partition[p][f] = self'.partition[p][f]
  BY DEF PartitionViewCurrent, Followed
<1>1. view # << >> /\ IsView(view) /\ view.partition[p][f] = self.partition[p][f]
  BY ToldView DEF PartitionViewCurrent, Types, Followed
<1>2. self'.partition[p][f] = self.partition[p][f] /\ f \in Shown
  BY DEF FollowedKept, Followed, Shown
<1>3. CASE TellNothing
  BY <1>1, <1>2, <1>3 DEF TellNothing
<1>4. ASSUME NEW z \in Zones, TellZone(z) PROVE view'.partition[p][f] = self'.partition[p][f]
  BY <1>1, <1>2, <1>4 DEF TellZone, IsView
<1>5. ASSUME NEW o \in Outputs, TellOutput(o) PROVE view'.partition[p][f] = self'.partition[p][f]
  BY <1>1, <1>2, <1>5 DEF TellOutput, IsView
<1>6. ASSUME NEW q \in Partitions, NEW lights, TellLights(q, lights)
      PROVE  view'.partition[p][f] = self'.partition[p][f]
  BY <1>1, <1>2, <1>6 DEF TellLights, IsView
<1>7. ASSUME NEW q \in Partitions, NEW fields, TellPartition(q, fields)
      PROVE  view'.partition[p][f] = self'.partition[p][f]
  BY <1>1, <1>2, <1>7 DEF TellPartition, IsView
<1>8. CASE ForgetZones
  BY <1>1, <1>2, <1>8 DEF ForgetZones, IsView
<1> QED BY <1>3, <1>4, <1>5, <1>6, <1>7, <1>8 DEF Tells

\* A refresh leaves what partitions show alone: it makes them inactive.
LEMMA UnlistedKeeps ==
  ASSUME Types, self' = Unlisted
  PROVE  FollowedKept
<1>1. self \in Instance
  BY DEF Types, TypeOK
<1>2. ASSUME NEW p \in Partitions, NEW f \in Followed
      PROVE  self'.partition[p][f] = self.partition[p][f]
  <2>1. self.partition[p] \in Partition
    BY <1>1, Parts
  <2>2. self'.partition[p] = [self.partition[p] EXCEPT !.active = FALSE,
                               !.entry_delay_active = FALSE, !.exit_delay_active = FALSE]
    BY <1>1, UnlistedStored
  <2> QED BY <2>1, <2>2 DEF Followed, Partition
<1> QED BY <1>2 DEF FollowedKept

\* A handler that stores a field of a partition tells of it.
LEMMA PartitionTold ==
  ASSUME Types, PartitionViewCurrent, HandlePartition
  PROVE  PartitionViewCurrent'
<1> DEFINE q == Head(line).partition
           after == PartitionAfter(Head(line))
<1>1. /\ q \in Partitions /\ after \in Partition /\ self \in Instance
      /\ self'.partition = [self.partition EXCEPT ![q] = after]
  <2>1. q \in Partitions /\ after \in Partition /\ self \in Instance
    BY PartitionMoves DEF Types, TypeOK
  <2>2. \/ self' = [self EXCEPT !.partition[q] = after]
        \/ self' = [self EXCEPT !.siren_go_partition_id = q, !.partition[q] = after]
    BY PartitionMoves
  <2> HIDE DEF q, after
  <2> QED BY <2>1, <2>2, PartitionStored, SirenStored
<1>2. PICK fields \in SUBSET Shown :
        /\ \/ TellPartition(q, fields)
           \/ TellNothing /\ fields = {}
        /\ \A g \in Followed \ fields : after[g] = self.partition[q][g]
  BY PartitionMoves
<1> HIDE DEF after, q
<1> SUFFICES ASSUME view' # << >>, NEW p \in Partitions, NEW f \in Followed
             PROVE  view'.partition[p][f] = self'.partition[p][f]
  BY DEF PartitionViewCurrent, Followed
<1>3. Tells
  BY <1>1, <1>2 DEF Tells
<1>4. view # << >> /\ IsView(view) /\ view.partition[p][f] = self.partition[p][f]
  BY <1>3, ToldView DEF PartitionViewCurrent, Types, Followed
<1>5. self.partition \in [Partitions -> Partition] /\ f \in Shown
  BY <1>1, Parts DEF Followed, Shown
<1>6. CASE p # q \/ f \notin fields
  <2>1. self'.partition[p][f] = self.partition[p][f]
    BY <1>1, <1>2, <1>5, <1>6
  <2>2. view'.partition[p][f] = view.partition[p][f]
    BY <1>2, <1>4, <1>5, <1>6 DEF TellPartition, TellNothing, IsView
  <2> QED BY <1>4, <2>1, <2>2
<1>7. CASE p = q /\ f \in fields
  BY <1>2, <1>4, <1>5, <1>7 DEF TellPartition, IsView
<1> QED BY <1>6, <1>7

\* Every step leaves the client's view of partitions current.
LEMMA ViewStep ==
  ASSUME Types, PartitionViewCurrent, [Next]_vars
  PROVE  PartitionViewCurrent'
<1>1. self \in Instance
  BY DEF Types, TypeOK
<1>2. ASSUME UNCHANGED <<self, view>> PROVE PartitionViewCurrent'
  BY <1>2 DEF PartitionViewCurrent
<1>3. CASE HandleZone
  <2>1. Tells
    BY <1>3, ZoneMoves
  <2>2. self'.partition = self.partition
    <3>1. \/ self' = self
          \/ \E z \in Zones, q \in ZoneEntry : self' = [self EXCEPT !.zone[z] = q]
      BY <1>3, ZoneMoves
    <3> QED BY <1>1, <3>1 DEF Instance
  <2> QED BY <2>1, <2>2, StaysCurrent DEF FollowedKept
<1>4. CASE HandleOutput
  <2>1. Tells
    BY <1>4, OutputMoves
  <2>2. self'.partition = self.partition
    <3>1. \/ self' = self
          \/ \E o \in Outputs : \E q : self' = [self EXCEPT !.output[o] = q]
      BY <1>4, OutputMoves
    <3> QED BY <1>1, <3>1 DEF Instance
  <2> QED BY <2>1, <2>2, StaysCurrent DEF FollowedKept
<1>5. CASE HandlePartition
  BY <1>5, PartitionTold
<1>6. CASE HandleLights
  <2>1. Tells
    BY <1>6, LightsMove
  <2>2. self'.partition = self.partition
    <3>1. \E q : self' = [self EXCEPT !.light[Head(line).partition] = q]
      BY <1>6, LightsMove
    <3> QED BY <1>1, <3>1 DEF Instance
  <2> QED BY <2>1, <2>2, StaysCurrent DEF FollowedKept
<1>7. CASE HandleOther
  <2>1. Tells
    BY <1>7, OtherMoves DEF Tells, Siren, Shown
  <2>2. FollowedKept
    <3>1. CASE Head(line).cmd = "CLEAR_AUTOMATION_DYNAMIC_IMAGE"
      BY <1>7, <3>1, OtherMoves, UnlistedKeeps
    <3>2. CASE Head(line).cmd # "CLEAR_AUTOMATION_DYNAMIC_IMAGE"
      BY <1>7, <3>2, OtherMoves DEF FollowedKept
    <3> QED BY <3>1, <3>2
  <2> QED BY <2>1, <2>2, StaysCurrent
<1>8. CASE Call
  <2>1. CASE GetInfo
    <3>1. view'.partition = [p \in Partitions |-> PartitionInfo(p)] /\ self' = self
      BY <2>1 DEF GetInfo
    <3> QED BY <3>1 DEF PartitionViewCurrent, PartitionInfo, Shown
  <2>2. CASE Refresh
    <3>1. FollowedKept /\ Tells
      BY <2>2, UnlistedKeeps DEF Refresh, EquipmentRefresh, Tells
    <3> QED BY <3>1, StaysCurrent
  <2>3. CASE ~ GetInfo /\ ~ Refresh
    BY <1>2, <1>8, <2>3 DEF Call, SetOutput, SetArmLevel, SetLight, SetZoneBypass, Answers
  <2> QED BY <2>1, <2>2, <2>3
<1>9. CASE PanelLists \/ Obey \/ Happen
  BY <1>2, <1>9, PanelMoves DEF Moves
<1>10. CASE UNCHANGED vars
  BY <1>2, <1>10 DEF vars
<1> QED BY <1>3, <1>4, <1>5, <1>6, <1>7, <1>8, <1>9, <1>10, HandleFamilies DEF Next

\* A client that read a partition once and follows its signals knows its arm
\* level, text and features at all times: every handler that stores one tells
\* of it, whether the partition is active or not (concordd_handle_subcmd(),
\* concordd_handle_frame()).
THEOREM FollowsPartitions == Spec => []PartitionViewCurrent
<1>1. Init => Types /\ PartitionViewCurrent
  BY InitTypes DEF Init, PartitionViewCurrent
<1>2. Types /\ PartitionViewCurrent /\ [Next]_vars => (Types /\ PartitionViewCurrent)'
  BY NextTypes, ViewStep
<1> QED BY <1>1, <1>2, PTL DEF Spec
-----------------------------------------------------------------------------
(* A report under way.                                                     *)

\* The last of the frames about a thing that are under way say what is so.
Ends(s, about, true) ==
  \E i \in DOMAIN s : /\ s[i] \in about
                      /\ \A j \in DOMAIN s : j >= i /\ s[j] \in about => s[j] \in true

\* They do, or there are none and the image of it is right.
Sync(s, about, true, right) ==
  Ends(s, about, true) \/ (Range(s) \intersect about = {} /\ right)

\* The thing has yet to be listed.
Rebuilding(e) ==
  \/ \E f \in Range(line) : f.cmd = "CLEAR_AUTOMATION_DYNAMIC_IMAGE"
  \/ \E k \in Range(keys) : k.cmd = "EQUIP_LIST_REQUEST"
  \/ e \in Range(listing)

\* A frame is taken, and may come once more.
LEMMA SyncTaken ==
  ASSUME NEW S, NEW s \in Seq(S), s # << >>, NEW t, t = s \/ t = Tail(s),
         NEW about, NEW true, NEW right, NEW rightNow,
         Sync(s, about, true, right),
         Head(s) \in about => (Head(s) \in true => rightNow),
         Head(s) \notin about => (right => rightNow)
  PROVE  Sync(t, about, true, rightNow)
<1>1. /\ Tail(s) \in Seq(S) /\ Len(Tail(s)) = Len(s) - 1 /\ Head(s) = s[1] /\ Len(s) \in Nat \ {0}
      /\ \A i \in 1 .. Len(s) - 1 : Tail(s)[i] = s[i + 1]
  <2>1. Tail(s) \in Seq(S) /\ Len(Tail(s)) = Len(s) - 1 /\ Head(s) = s[1] /\ Len(s) \in Nat \ {0}
    OBVIOUS
  <2>2. \A i \in 1 .. Len(Tail(s)) : Tail(s)[i] = s[i + 1]
    BY HeadTailProperties
  <2>3. 1 .. Len(s) - 1 = 1 .. Len(Tail(s))
    BY <2>1
  <2> QED BY <2>1, <2>2, <2>3, Zenon
<1>2. DOMAIN s = 1 .. Len(s) /\ DOMAIN Tail(s) = 1 .. Len(s) - 1
  <2> DEFINE u == Tail(s)
  <2>1. u \in Seq(S) /\ Len(u) = Len(s) - 1
    BY <1>1
  <2> HIDE DEF u
  <2>2. DOMAIN s = 1 .. Len(s) /\ DOMAIN u = 1 .. Len(u)
    BY <2>1
  <2> QED BY <2>1, <2>2 DEF u
<1>3. CASE Range(s) \intersect about = {} /\ right
  <2>1. Range(t) \subseteq Range(s)
    BY <1>1, <1>2 DEF Range
  <2>2. Head(s) \in Range(s)
    BY <1>1, <1>2 DEF Range
  <2> QED BY <1>3, <2>1, <2>2 DEF Sync
<1>4. CASE Ends(s, about, true)
  <2>1. PICK i \in DOMAIN s : /\ s[i] \in about
                              /\ \A j \in DOMAIN s : j >= i /\ s[j] \in about => s[j] \in true
    BY <1>4 DEF Ends
  <2>2. CASE t = s
    BY <1>4, <2>2 DEF Sync
  <2>3. CASE t = Tail(s) /\ \E k \in DOMAIN Tail(s) : Tail(s)[k] \in about /\ k + 1 >= i
    <3>1. PICK k \in DOMAIN Tail(s) : Tail(s)[k] \in about /\ k + 1 >= i
      BY <2>3
    <3>2. \A j \in DOMAIN Tail(s) : j >= k /\ Tail(s)[j] \in about => Tail(s)[j] \in true
      <4>1. ASSUME NEW j \in DOMAIN Tail(s), j >= k, Tail(s)[j] \in about PROVE Tail(s)[j] \in true
        <5>1. j + 1 \in DOMAIN s /\ s[j + 1] = Tail(s)[j] /\ j + 1 >= i
          BY <1>1, <1>2, <3>1, <4>1
        <5> QED BY <2>1, <4>1, <5>1
      <4> QED BY <4>1
    <3> QED BY <2>3, <3>1, <3>2 DEF Sync, Ends
  <2>4. CASE t = Tail(s) /\ ~ \E k \in DOMAIN Tail(s) : Tail(s)[k] \in about /\ k + 1 >= i
    <3>1. i = 1
      <4>1. ASSUME i # 1 PROVE FALSE
        <5>1. i - 1 \in DOMAIN Tail(s) /\ Tail(s)[i - 1] = s[i] /\ (i - 1) + 1 >= i
          BY <1>1, <1>2, <4>1
        <5> QED BY <2>1, <2>4, <5>1
      <4> QED BY <4>1
    <3>2. Head(s) \in about /\ Head(s) \in true
      BY <1>1, <1>2, <2>1, <3>1
    <3>3. Range(t) \intersect about = {}
      BY <1>1, <1>2, <2>4, <3>1 DEF Range
    <3> QED BY <3>2, <3>3 DEF Sync
  <2> QED BY <2>2, <2>3, <2>4
<1> QED BY <1>3, <1>4 DEF Sync

\* Frames about it are reported: all of the new ones say what is so.
LEMMA SyncNews ==
  ASSUME NEW S, NEW s \in Seq(S), NEW t \in Seq(S), NEW about, NEW true, NEW right,
         Range(t) \intersect about \subseteq true, Range(t) \intersect about # {}
  PROVE  Sync(s \o t, about, true, right)
<1>1. PICK k \in DOMAIN t : t[k] \in about
  BY DEF Range
<1> DEFINE i == Len(s) + k
<1>2. /\ DOMAIN (s \o t) = 1 .. Len(s) + Len(t) /\ DOMAIN t = 1 .. Len(t)
      /\ Len(s) \in Nat /\ Len(t) \in Nat
      /\ \A j \in Len(s) + 1 .. Len(s) + Len(t) : (s \o t)[j] = t[j - Len(s)]
  OBVIOUS
<1>3. i \in DOMAIN (s \o t) /\ (s \o t)[i] \in about
  BY <1>1, <1>2
<1>4. ASSUME NEW j \in DOMAIN (s \o t), j >= i, (s \o t)[j] \in about PROVE (s \o t)[j] \in true
  <2>1. j - Len(s) \in DOMAIN t /\ (s \o t)[j] = t[j - Len(s)]
    BY <1>1, <1>2, <1>4
  <2> QED BY <1>4, <2>1 DEF Range
<1> QED BY <1>3, <1>4 DEF Sync, Ends

\* Frames about other things are reported.
LEMMA SyncOthers ==
  ASSUME NEW S, NEW s \in Seq(S), NEW t \in Seq(S), NEW about, NEW true, NEW right,
         Sync(s, about, true, right), Range(t) \intersect about = {}
  PROVE  Sync(s \o t, about, true, right)
<1>1. /\ DOMAIN (s \o t) = 1 .. Len(s) + Len(t) /\ DOMAIN t = 1 .. Len(t) /\ DOMAIN s = 1 .. Len(s)
      /\ Len(s) \in Nat /\ Len(t) \in Nat
      /\ \A j \in 1 .. Len(s) : (s \o t)[j] = s[j]
      /\ \A j \in Len(s) + 1 .. Len(s) + Len(t) : (s \o t)[j] = t[j - Len(s)]
  OBVIOUS
<1>2. \A j \in DOMAIN (s \o t) : (s \o t)[j] \in about => j \in DOMAIN s /\ (s \o t)[j] = s[j]
  <2>1. ASSUME NEW j \in DOMAIN (s \o t), (s \o t)[j] \in about, j \notin DOMAIN s PROVE FALSE
    <3>1. j - Len(s) \in DOMAIN t /\ (s \o t)[j] = t[j - Len(s)]
      BY <1>1, <2>1
    <3> QED BY <2>1, <3>1 DEF Range
  <2> QED BY <1>1, <2>1
<1>3. CASE Ends(s, about, true)
  <2>1. PICK i \in DOMAIN s : /\ s[i] \in about
                              /\ \A j \in DOMAIN s : j >= i /\ s[j] \in about => s[j] \in true
    BY <1>3 DEF Ends
  <2>2. i \in DOMAIN (s \o t) /\ (s \o t)[i] \in about
    BY <1>1, <2>1
  <2>3. \A j \in DOMAIN (s \o t) : j >= i /\ (s \o t)[j] \in about => (s \o t)[j] \in true
    BY <1>2, <2>1
  <2> QED BY <2>2, <2>3 DEF Sync, Ends
<1>4. CASE Range(s) \intersect about = {} /\ right
  <2>1. Range(s \o t) \intersect about = {}
    BY <1>2, <1>4 DEF Range
  <2> QED BY <1>4, <2>1 DEF Sync
<1> QED BY <1>3, <1>4 DEF Sync
-----------------------------------------------------------------------------
(* The image is right when nothing is under way.                           *)

\* What a handler does to the state of a zone and of an output.
LEMMA ZonesHandled ==
  ASSUME Types, Handle, NEW z \in Zones
  PROVE  self'.zone[z].state = IF Head(line) \in OfZone(z) THEN Head(line).state
                               ELSE self.zone[z].state
<1> DEFINE f == Head(line)
<1>1. /\ self \in Instance /\ z \in Zones /\ self.zone \in [Zones -> ZoneEntry]
  BY Parts, PlanThings DEF Types, TypeOK, ZoneEntry
<1>2. CASE HandleZone
  <2>1. /\ f \in Frame /\ f.cmd \in {"ZONE_STATUS", "EQUIP_LIST_ZONE_DATA", "KEYFOB"}
        /\ f.zone \in Zones /\ ZoneAfter(f) \in ZoneEntry
    BY <1>2, ZoneMoves, Taken
  <2>2. self.zone[f.zone] \in ZoneEntry
    BY <1>1, <2>1
  <2>3. ZoneAfter(f).state = IF f.cmd = "KEYFOB" THEN self.zone[f.zone].state ELSE f.state
    <3> DEFINE q == self.zone[f.zone]
    <3> HIDE DEF q
    <3>1. q \in ZoneEntry
      BY <2>2 DEF q
    <3> QED BY <2>1, <3>1 DEF ZoneAfter, ZoneEntry, q
  <2>4. f \in OfZone(z) <=> f.cmd # "KEYFOB" /\ f.zone = z
    BY <2>1 DEF OfZone
  <2>5. CASE f.cmd = "KEYFOB" /\ self' = self
    BY <2>4, <2>5
  <2>6. CASE self' = [self EXCEPT !.zone[f.zone] = ZoneAfter(f)]
    <3>1. self'.zone = [self.zone EXCEPT ![f.zone] = ZoneAfter(f)]
      BY <1>1, <2>1, <2>6, ZoneStored
    <3> QED BY <1>1, <2>1, <2>3, <2>4, <3>1
  <2> QED BY <1>2, <2>5, <2>6, ZoneMoves
<1>3. CASE HandleOutput
  <2>1. f.cmd \in {"EQUIP_LIST_OUTPUT_DATA", "OUTPUT_EVENT"}
    BY <1>3, OutputMoves
  <2>2. \/ self' = self
        \/ \E o \in Outputs : \E q : self' = [self EXCEPT !.output[o] = q]
    BY <1>3, OutputMoves
  <2>3. self'.zone = self.zone
    BY <1>1, <2>2 DEF Instance
  <2> QED BY <2>1, <2>3 DEF OfZone
<1>4. CASE HandlePartition
  <2>1. f.cmd \in PartitionCmds
    BY <1>4, PartitionMoves
  <2>2. \E p, q : \/ self' = [self EXCEPT !.partition[p] = q]
                  \/ self' = [self EXCEPT !.siren_go_partition_id = p, !.partition[p] = q]
    BY <1>4, PartitionMoves
  <2>3. self'.zone = self.zone
    BY <1>1, <2>2 DEF Instance
  <2> QED BY <2>1, <2>3 DEF OfZone, PartitionCmds
<1>5. CASE HandleLights
  <2>1. f.cmd \in {"LIGHTS_STATE", "USER_LIGHTS"}
    BY <1>5, LightsMove
  <2>2. \E q : self' = [self EXCEPT !.light[f.partition] = q]
    BY <1>5, LightsMove
  <2>3. self'.zone = self.zone
    BY <1>1, <2>2 DEF Instance
  <2> QED BY <2>1, <2>3 DEF OfZone
<1>6. CASE HandleOther
  <2>1. f.cmd \in OtherCmds
    BY <1>6, OtherMoves
  <2>2. self'.zone[z].state = self.zone[z].state
    <3>1. CASE f.cmd = "CLEAR_AUTOMATION_DYNAMIC_IMAGE"
      <4>1. self'.zone[z] = [self.zone[z] EXCEPT !.active = FALSE]
        BY <1>1, <1>6, <3>1, OtherMoves, UnlistedStored
      <4> QED BY <1>1, <4>1 DEF ZoneEntry
    <3>2. CASE f.cmd # "CLEAR_AUTOMATION_DYNAMIC_IMAGE"
      BY <1>6, <3>2, OtherMoves
    <3> QED BY <3>1, <3>2
  <2> QED BY <2>1, <2>2 DEF OfZone, OtherCmds
<1> QED BY <1>2, <1>3, <1>4, <1>5, <1>6, HandleFamilies

\* A handler stores the state of an output when the frame is about it, and
\* else leaves it,
LEMMA OutputsHandled ==
  ASSUME Types, Handle, NEW o \in plan.outputs
  PROVE  self'.output[o].state = IF Head(line) \in OfOutput(o) THEN SaidOfOutput(Head(line))
                                 ELSE self.output[o].state
<1> DEFINE f == Head(line)
<1>1. /\ self \in Instance /\ o \in Outputs /\ self.output \in [Outputs -> OutputEntry]
  BY Parts, PlanThings DEF Types, TypeOK, OutputEntry
<1>2. CASE HandleOutput
  <2>1. /\ f \in Frame /\ f.cmd \in {"EQUIP_LIST_OUTPUT_DATA", "OUTPUT_EVENT"}
        /\ f.output \in Outputs /\ SaidOfOutput(f) \in BOOLEAN
    BY <1>2, OutputMoves, Taken
  <2>2. f \in OfOutput(o) <=> f.output = o
    BY <2>1 DEF OfOutput
  <2> DEFINE q == [active |-> TRUE, state |-> SaidOfOutput(f)]
  <2>3. q \in OutputEntry /\ q.state = SaidOfOutput(f)
    BY <2>1 DEF OutputEntry
  <2>4. CASE self' = self /\ self.output[f.output].state = SaidOfOutput(f)
    BY <2>2, <2>4
  <2>5. CASE self' = [self EXCEPT !.output[f.output] = q]
    <3> HIDE DEF q
    <3>1. self'.output = [self.output EXCEPT ![f.output] = q]
      BY <1>1, <2>1, <2>3, <2>5, OutputStored
    <3> QED BY <1>1, <2>1, <2>2, <2>3, <3>1
  <2> QED BY <1>2, <2>4, <2>5, OutputMoves
<1>3. CASE HandleZone
  <2>1. f.cmd \in {"ZONE_STATUS", "EQUIP_LIST_ZONE_DATA", "KEYFOB"}
    BY <1>3, ZoneMoves
  <2>2. \/ self' = self
        \/ \E z \in Zones : \E q : self' = [self EXCEPT !.zone[z] = q]
    BY <1>3, ZoneMoves
  <2>3. self'.output = self.output
    BY <1>1, <2>2 DEF Instance
  <2> QED BY <2>1, <2>3 DEF OfOutput
<1>4. CASE HandlePartition
  <2>1. f.cmd \in PartitionCmds
    BY <1>4, PartitionMoves
  <2>2. \E p, q : \/ self' = [self EXCEPT !.partition[p] = q]
                  \/ self' = [self EXCEPT !.siren_go_partition_id = p, !.partition[p] = q]
    BY <1>4, PartitionMoves
  <2>3. self'.output = self.output
    BY <1>1, <2>2 DEF Instance
  <2> QED BY <2>1, <2>3 DEF OfOutput, PartitionCmds
<1>5. CASE HandleLights
  <2>1. f.cmd \in {"LIGHTS_STATE", "USER_LIGHTS"}
    BY <1>5, LightsMove
  <2>2. \E q : self' = [self EXCEPT !.light[f.partition] = q]
    BY <1>5, LightsMove
  <2>3. self'.output = self.output
    BY <1>1, <2>2 DEF Instance
  <2> QED BY <2>1, <2>3 DEF OfOutput
<1>6. CASE HandleOther
  <2>1. f.cmd \in OtherCmds
    BY <1>6, OtherMoves
  <2>2. self'.output[o].state = self.output[o].state
    <3>1. CASE f.cmd = "CLEAR_AUTOMATION_DYNAMIC_IMAGE"
      <4>1. self'.output[o] = [self.output[o] EXCEPT !.active = FALSE]
        BY <1>1, <1>6, <3>1, OtherMoves, UnlistedStored
      <4> QED BY <1>1, <4>1 DEF OutputEntry
    <3>2. CASE f.cmd # "CLEAR_AUTOMATION_DYNAMIC_IMAGE"
      BY <1>6, <3>2, OtherMoves
    <3> QED BY <3>1, <3>2
  <2> QED BY <2>1, <2>2 DEF OfOutput, OtherCmds
<1> QED BY <1>2, <1>3, <1>4, <1>5, <1>6, HandleFamilies

\* What a handler does to a partition.
LEMMA PartitionsHandled ==
  ASSUME Types, Handle, NEW p \in Partitions
  PROVE  LET f == Head(line)
         IN /\ f.cmd \in PartitionCmds /\ f.partition = p => self'.partition[p] = PartitionAfter(f)
            /\ ~ (f.cmd \in PartitionCmds /\ f.partition = p) =>
                 \/ self'.partition[p] = self.partition[p]
                 \/ self'.partition[p] = [self.partition[p] EXCEPT !.active = FALSE,
                      !.entry_delay_active = FALSE, !.exit_delay_active = FALSE]
<1> DEFINE f == Head(line)
<1>1. self \in Instance /\ self.partition \in [Partitions -> Partition]
  BY Parts DEF Types, TypeOK
<1>2. CASE HandlePartition
  <2>1. /\ f.cmd \in PartitionCmds /\ f.partition \in Partitions /\ PartitionAfter(f) \in Partition
    BY <1>2, PartitionMoves
  <2>2. \/ self' = [self EXCEPT !.partition[f.partition] = PartitionAfter(f)]
        \/ self' = [self EXCEPT !.siren_go_partition_id = f.partition,
                                !.partition[f.partition] = PartitionAfter(f)]
    BY <1>2, PartitionMoves
  <2> HIDE DEF f
  <2>3. self'.partition = [self.partition EXCEPT ![f.partition] = PartitionAfter(f)]
    BY <1>1, <2>1, <2>2, PartitionStored, SirenStored
  <2> QED BY <1>1, <2>1, <2>3 DEF f
<1>3. CASE HandleZone
  <2>1. f.cmd \in {"ZONE_STATUS", "EQUIP_LIST_ZONE_DATA", "KEYFOB"}
    BY <1>3, ZoneMoves
  <2>2. \/ self' = self
        \/ \E z \in Zones : \E q : self' = [self EXCEPT !.zone[z] = q]
    BY <1>3, ZoneMoves
  <2>3. self'.partition = self.partition
    BY <1>1, <2>2 DEF Instance
  <2> QED BY <2>1, <2>3 DEF PartitionCmds
<1>4. CASE HandleOutput
  <2>1. f.cmd \in {"EQUIP_LIST_OUTPUT_DATA", "OUTPUT_EVENT"}
    BY <1>4, OutputMoves
  <2>2. \/ self' = self
        \/ \E o \in Outputs : \E q : self' = [self EXCEPT !.output[o] = q]
    BY <1>4, OutputMoves
  <2>3. self'.partition = self.partition
    BY <1>1, <2>2 DEF Instance
  <2> QED BY <2>1, <2>3 DEF PartitionCmds
<1>5. CASE HandleLights
  <2>1. f.cmd \in {"LIGHTS_STATE", "USER_LIGHTS"}
    BY <1>5, LightsMove
  <2>2. \E q : self' = [self EXCEPT !.light[f.partition] = q]
    BY <1>5, LightsMove
  <2>3. self'.partition = self.partition
    BY <1>1, <2>2 DEF Instance
  <2> QED BY <2>1, <2>3 DEF PartitionCmds
<1>6. CASE HandleOther
  <2>1. f.cmd \in OtherCmds
    BY <1>6, OtherMoves
  <2>2. \/ self'.partition[p] = self.partition[p]
        \/ self'.partition[p] = [self.partition[p] EXCEPT !.active = FALSE,
             !.entry_delay_active = FALSE, !.exit_delay_active = FALSE]
    <3>1. CASE f.cmd = "CLEAR_AUTOMATION_DYNAMIC_IMAGE"
      BY <1>1, <1>6, <3>1, OtherMoves, UnlistedStored
    <3>2. CASE f.cmd # "CLEAR_AUTOMATION_DYNAMIC_IMAGE"
      BY <1>6, <3>2, OtherMoves
    <3> QED BY <3>1, <3>2
  <2> QED BY <2>1, <2>2 DEF PartitionCmds, OtherCmds
<1> QED BY <1>2, <1>3, <1>4, <1>5, <1>6, HandleFamilies

\* as for arm levels,
LEMMA ArmsHandled ==
  ASSUME Types, Handle, NEW p \in plan.partitions
  PROVE  self'.partition[p].arm_level = IF Head(line) \in OfArm(p) THEN Head(line).level
                                        ELSE self.partition[p].arm_level
<1> DEFINE f == Head(line)
           part == self.partition[p]
<1>1. p \in Partitions /\ part \in Partition
  BY Parts, PlanThings DEF Types, TypeOK
<1>2. f \in Frame
  BY Taken, ZoneMoves, OutputMoves, PartitionMoves, LightsMove, OtherMoves, HandleFamilies
<1> HIDE DEF part
<1>3. CASE f.cmd \in PartitionCmds /\ f.partition = p
  <2>1. self'.partition[p] = PartitionAfter(f)
    BY <1>1, <1>3, PartitionsHandled
  <2>2. f \in OfArm(p) <=> f.cmd \in {"LEVEL", "EQUIP_LIST_PARTITION_DATA"}
    BY <1>2, <1>3 DEF OfArm
  <2>3. PartitionAfter(f).arm_level = IF f.cmd \in {"LEVEL", "EQUIP_LIST_PARTITION_DATA"}
                                      THEN f.level ELSE part.arm_level
    BY <1>1, <1>3 DEF PartitionAfter, PartitionCmds, Partition, part
  <2> QED BY <2>1, <2>2, <2>3 DEF part
<1>4. CASE ~ (f.cmd \in PartitionCmds /\ f.partition = p)
  <2>1. \/ self'.partition[p] = part
        \/ self'.partition[p] = [part EXCEPT !.active = FALSE, !.entry_delay_active = FALSE,
                                             !.exit_delay_active = FALSE]
    BY <1>1, <1>4, PartitionsHandled DEF part
  <2>2. self'.partition[p].arm_level = part.arm_level
    BY <1>1, <2>1 DEF Partition
  <2>3. f \notin OfArm(p)
    BY <1>4 DEF OfArm, PartitionCmds
  <2> QED BY <2>2, <2>3 DEF part
<1> QED BY <1>3, <1>4

\* and for sirens that are set up.
LEMMA SirensHandled ==
  ASSUME Types, Handle, NEW p \in plan.partitions
  PROVE  IF Head(line) \in OfSiren(p)
         THEN /\ self'.partition[p].siren_repeat = Head(line).repeat
              /\ self'.partition[p].siren_started_at
         ELSE /\ self'.partition[p].siren_repeat = self.partition[p].siren_repeat
              /\ self'.partition[p].siren_started_at = self.partition[p].siren_started_at
<1> DEFINE f == Head(line)
           part == self.partition[p]
<1>1. p \in Partitions /\ part \in Partition
  BY Parts, PlanThings DEF Types, TypeOK
<1>2. f \in Frame
  BY Taken, ZoneMoves, OutputMoves, PartitionMoves, LightsMove, OtherMoves, HandleFamilies
<1> HIDE DEF part
<1>3. CASE f.cmd \in PartitionCmds /\ f.partition = p
  <2>1. self'.partition[p] = PartitionAfter(f)
    BY <1>1, <1>3, PartitionsHandled
  <2>2. f \in OfSiren(p) <=> f.cmd = "SIREN_SETUP"
    BY <1>2, <1>3 DEF OfSiren
  <2>3. IF f.cmd = "SIREN_SETUP"
        THEN PartitionAfter(f).siren_repeat = f.repeat /\ PartitionAfter(f).siren_started_at
        ELSE /\ PartitionAfter(f).siren_repeat = part.siren_repeat
             /\ PartitionAfter(f).siren_started_at = part.siren_started_at
    BY <1>1, <1>3 DEF PartitionAfter, PartitionCmds, Partition, part
  <2> QED BY <2>1, <2>2, <2>3 DEF part
<1>4. CASE ~ (f.cmd \in PartitionCmds /\ f.partition = p)
  <2>1. \/ self'.partition[p] = part
        \/ self'.partition[p] = [part EXCEPT !.active = FALSE, !.entry_delay_active = FALSE,
                                             !.exit_delay_active = FALSE]
    BY <1>1, <1>4, PartitionsHandled DEF part
  <2>2. /\ self'.partition[p].siren_repeat = part.siren_repeat
        /\ self'.partition[p].siren_started_at = part.siren_started_at
    BY <1>1, <2>1 DEF Partition
  <2>3. f \notin OfSiren(p)
    BY <1>4 DEF OfSiren, PartitionCmds
  <2> QED BY <2>2, <2>3 DEF part
<1> QED BY <1>3, <1>4
\* What every handler does to what is under way.
LEMMA HandleTakes ==
  ASSUME Types, Handle
  PROVE  /\ line \in Seq(Frame) /\ line # << >> /\ Head(line) \in Frame
         /\ line' = line \/ line' = Tail(line)
         /\ UNCHANGED <<real, listing, asked, plan>>
         /\ \/ keys' = keys
            \/ \E k : keys' = Append(keys, k)
         /\ Head(line).cmd = "CLEAR_AUTOMATION_DYNAMIC_IMAGE" =>
              keys' = Append(keys, [cmd |-> "EQUIP_LIST_REQUEST"])
<1>1. Takes(Head(line).cmd)
  BY ZoneMoves, OutputMoves, PartitionMoves, LightsMove, OtherMoves, HandleFamilies
<1>2. /\ \/ keys' = keys
         \/ \E k : keys' = Append(keys, k)
      /\ Head(line).cmd = "CLEAR_AUTOMATION_DYNAMIC_IMAGE" =>
           keys' = Append(keys, [cmd |-> "EQUIP_LIST_REQUEST"])
  BY ZoneMoves, OutputMoves, PartitionMoves, LightsMove, OtherMoves, HandleFamilies
     DEF PartitionCmds
<1>3. line \in Seq(Frame) /\ Head(line) \in Frame /\ line # << >> /\ line' \in {line, Tail(line)}
  BY <1>1, Taken DEF Types
<1>4. UNCHANGED <<real, listing, asked, plan>>
  BY <1>1, Taken
<1> QED BY <1>2, <1>3, <1>4

\* What is listed comes first, or in the rest.
LEMMA InTail ==
  ASSUME NEW S, NEW s \in Seq(S), s # << >>, NEW x \in Range(s)
  PROVE  x = Head(s) \/ x \in Range(Tail(s))
<1> DEFINE u == Tail(s)
<1>1. u \in Seq(S) /\ Len(u) = Len(s) - 1 /\ Head(s) = s[1] /\ \A i \in 1 .. Len(u) : u[i] = s[i + 1]
  BY HeadTailProperties
<1> HIDE DEF u
<1>2. PICK i \in 1 .. Len(s) : x = s[i]
  BY DEF Range
<1>3. CASE i = 1
  BY <1>1, <1>2, <1>3
<1>4. CASE i # 1
  <2>1. i - 1 \in 1 .. Len(u) /\ u[i - 1] = x
    BY <1>1, <1>2, <1>4
  <2>2. DOMAIN u = 1 .. Len(u)
    BY <1>1
  <2>3. x \in Range(u)
    BY <2>1, <2>2 DEF Range
  <2> QED BY <2>3 DEF u
<1> QED BY <1>3, <1>4

\* Appending keeps what was listed, and adds one.
LEMMA InAppend ==
  ASSUME NEW S, NEW s \in Seq(S), NEW k
  PROVE  /\ Range(s) \subseteq Range(Append(s, k)) /\ k \in Range(Append(s, k))
         /\ Range(Append(s, k)) = Range(s) \union {k}
<1>1. /\ DOMAIN Append(s, k) = 1 .. Len(s) + 1 /\ DOMAIN s = 1 .. Len(s) /\ Len(s) \in Nat
      /\ \A i \in 1 .. Len(s) : Append(s, k)[i] = s[i]
      /\ Append(s, k)[Len(s) + 1] = k
  <2>1. s \in Seq(S \union {k}) /\ k \in S \union {k}
    BY SeqMonotonic
  <2> QED BY <2>1, AppendProperties
<1> DEFINE t == Append(s, k)
<1> HIDE DEF t
<1>2. /\ DOMAIN t = 1 .. Len(s) + 1 /\ DOMAIN s = 1 .. Len(s) /\ Len(s) \in Nat
      /\ \A i \in 1 .. Len(s) : t[i] = s[i]
      /\ t[Len(s) + 1] = k
  BY <1>1 DEF t
<1>3. \A i \in DOMAIN t : i \in DOMAIN s \/ i = Len(s) + 1
  BY <1>2
<1>4. Range(t) = Range(s) \union {k}
  BY <1>2, <1>3 DEF Range
<1> QED BY <1>4 DEF t

\* A handler keeps what has yet to be listed.
LEMMA RebuildingHandled ==
  ASSUME Types, Handle, NEW e, Rebuilding(e)
  PROVE  Rebuilding(e)'
<1>1. /\ line \in Seq(Frame) /\ line # << >> /\ keys \in Seq(Key) /\ listing' = listing
      /\ line' = line \/ line' = Tail(line)
  BY HandleTakes DEF Types
<1>2. Range(keys) \subseteq Range(keys)'
  <2>1. CASE keys' = keys
    BY <2>1
  <2>2. ASSUME NEW k, keys' = Append(keys, k) PROVE Range(keys) \subseteq Range(keys')
    BY <1>1, <2>2, InAppend
  <2> QED BY <2>1, <2>2, HandleTakes
<1>3. CASE e \in Range(listing)
  BY <1>1, <1>3 DEF Rebuilding
<1>4. ASSUME NEW k \in Range(keys), k.cmd = "EQUIP_LIST_REQUEST" PROVE Rebuilding(e)'
  BY <1>2, <1>4 DEF Rebuilding
<1>5. ASSUME NEW f \in Range(line), f.cmd = "CLEAR_AUTOMATION_DYNAMIC_IMAGE" PROVE Rebuilding(e)'
  <2>1. CASE f \in Range(line)'
    BY <1>5, <2>1 DEF Rebuilding
  <2>2. CASE f \notin Range(line)'
    <3>1. f = Head(line)
      BY <1>1, <2>2, InTail
    <3>2. keys' = Append(keys, [cmd |-> "EQUIP_LIST_REQUEST"])
      BY <1>5, <3>1, HandleTakes
    <3>3. [cmd |-> "EQUIP_LIST_REQUEST"] \in Range(keys')
      BY <1>1, <3>2, InAppend
    <3> QED BY <3>3 DEF Rebuilding
  <2> QED BY <2>1, <2>2
<1> QED BY <1>3, <1>4, <1>5 DEF Rebuilding

\* The panel keeps it too, until it lists it.
LEMMA RebuildingListed ==
  ASSUME Types, PanelLists \/ Obey \/ Happen
  PROVE  \E frames :
           /\ Moves(frames)
           /\ \A e \in Range(EquipmentList) :
                Rebuilding(e) => Rebuilding(e)' \/ Report(e[1], e[2]) \in Range(frames)
<1>1. /\ line \in Seq(Frame) /\ keys \in Seq(Key) /\ listing \in Seq(Entry)
  BY DEF Types
<1>2. ASSUME NEW frames, Moves(frames) PROVE Range(line) \subseteq Range(line')
  BY <1>1, <1>2, ConcatListed DEF Moves, Reports
<1>3. CASE PanelLists
  <2> DEFINE h == Head(listing)
             frames == <<Report(h[1], h[2])>>
  <2>1. Moves(frames)
    BY <1>3, ListsMove
  <2>2. keys' = keys /\ listing # << >> /\ listing' = Tail(listing)
    BY <1>3 DEF PanelLists
  <2>3. Range(frames) = {Report(h[1], h[2])}
    BY RangeOfFrames
  <2> HIDE DEF frames
  <2>4. ASSUME NEW e \in Range(EquipmentList), Rebuilding(e)
        PROVE  Rebuilding(e)' \/ Report(e[1], e[2]) \in Range(frames)
    <3>1. CASE e \in Range(listing)
      <4>1. e = h \/ e \in Range(listing')
        BY <1>1, <2>2, <3>1, InTail
      <4> QED BY <2>3, <4>1 DEF Rebuilding
    <3>2. CASE e \notin Range(listing)
      <4>1. Range(line) \subseteq Range(line')
        BY <1>2, <2>1
      <4> QED BY <2>2, <2>4, <3>2, <4>1 DEF Rebuilding
    <3> QED BY <3>1, <3>2
  <2> QED BY <2>1, <2>4
<1>4. CASE Obey
  <2>1. PICK frames : Moves(frames)
    BY Zenon, <1>4, ObeysMove
  <2>2. keys # << >> /\ keys' = Tail(keys)
    BY <1>4, ObeyTakes
  <2>3. IF Head(keys).cmd = "EQUIP_LIST_REQUEST" THEN listing' = EquipmentList
        ELSE listing' = listing \/ listing = << >>
    BY <1>4 DEF Obey, PanelListsOnRequest, PanelTogglesOutput, PanelTogglesBypass, PanelArms,
                PanelSwitchesLight, Obeys
  <2>4. ASSUME NEW e \in Range(EquipmentList), Rebuilding(e) PROVE Rebuilding(e)'
    <3>1. CASE Head(keys).cmd = "EQUIP_LIST_REQUEST"
      BY <2>3, <2>4, <3>1 DEF Rebuilding
    <3>2. CASE Head(keys).cmd # "EQUIP_LIST_REQUEST"
      <4>1. Range(line) \subseteq Range(line')
        BY <1>2, <2>1
      <4>2. \A k \in Range(keys) : k.cmd = "EQUIP_LIST_REQUEST" => k \in Range(keys')
        BY <1>1, <2>2, <3>2, InTail
      <4>3. e \in Range(listing) => e \in Range(listing')
        BY <2>3, <3>2, RangeOfFrames
      <4> QED BY <2>4, <4>1, <4>2, <4>3 DEF Rebuilding
    <3> QED BY <3>1, <3>2
  <2> QED BY <2>1, <2>4
<1>5. CASE Happen
  <2>1. PICK frames : Moves(frames)
    BY <1>5, HappensMove
  <2>2. keys' = keys /\ listing' = listing
    BY <1>5 DEF Happen, Happens, ZoneChanges, KeyfobPressed, OutputChanges, LightsChange,
       SirenTimesOut, ProgrammingChanges, UserLight, ArmChanges, Delay, SirenStarts, Displays,
       FeatureChanges, LosesEvents
  <2>3. ASSUME NEW e, Rebuilding(e) PROVE Rebuilding(e)'
    BY <1>2, <2>1, <2>2, <2>3 DEF Rebuilding
  <2> QED BY <2>1, <2>3
<1> QED BY <1>3, <1>4, <1>5
ZoneSync(z) ==
  \/ Rebuilding(<<"EQUIP_LIST_ZONE_DATA", z>>)
  \/ Sync(line, OfZone(z), TrueOfZone(z), self.zone[z].state = real.zone[z])

OutputSync(o) ==
  \/ Rebuilding(<<"EQUIP_LIST_OUTPUT_DATA", o>>)
  \/ Sync(line, OfOutput(o), TrueOfOutput(o), self.output[o].state = real.output[o])

ArmSync(p) ==
  \/ Rebuilding(<<"EQUIP_LIST_PARTITION_DATA", p>>)
  \/ Sync(line, OfArm(p), TrueOfArm(p), self.partition[p].arm_level = real.arm[p])

\* A siren that sounds is known to, or about to be.
SirenSync(p) ==
  real.siren[p] => Sync(line, OfSiren(p), TrueOfSiren(p), SirenIsOn(p))

\* Everything the panel has is in step with the image of it, or yet to be listed.
InStep ==
  /\ \A z \in plan.zones : ZoneSync(z)
  /\ \A o \in plan.outputs : OutputSync(o)
  /\ \A p \in plan.partitions : ArmSync(p) /\ SirenSync(p)

\* The frames about a thing depend on the plan alone.
LEMMA SameFrames ==
  ASSUME plan' = plan
  PROVE  /\ \A z : OfZone(z)' = OfZone(z)
         /\ \A o : OfOutput(o)' = OfOutput(o)
         /\ \A p : OfArm(p)' = OfArm(p) /\ OfSiren(p)' = OfSiren(p) /\ TrueOfSiren(p)' = TrueOfSiren(p)
BY SamePlan DEF OfZone, OfOutput, OfArm, OfSiren, TrueOfSiren

\* A thing is in step after a handler.
LEMMA StepHandled ==
  ASSUME Types, Handle, NEW e, NEW about, NEW true, NEW right \in BOOLEAN, NEW rightNow \in BOOLEAN,
         Rebuilding(e) \/ Sync(line, about, true, right),
         Head(line) \in about => (Head(line) \in true => rightNow),
         Head(line) \notin about => (right => rightNow)
  PROVE  Rebuilding(e)' \/ Sync(line', about, true, rightNow)
<1>1. /\ line \in Seq(Frame) /\ line # << >>
      /\ line' = line \/ line' = Tail(line)
  BY HandleTakes
<1>2. CASE Rebuilding(e)
  BY <1>2, RebuildingHandled
<1>3. CASE Sync(line, about, true, right)
  BY <1>1, <1>3, SyncTaken
<1> QED BY <1>2, <1>3

\* Handling a frame keeps the image in step: what the last frame about a thing
\* says becomes what is stored when that frame is taken.
LEMMA InStepHandled ==
  ASSUME Types, InStep, Handle
  PROVE  InStep'
<1>1. /\ real' = real /\ plan' = plan /\ line \in Seq(Frame) /\ line # << >>
      /\ line' = line \/ line' = Tail(line)
  BY HandleTakes
<1>2. ASSUME NEW z \in plan.zones PROVE ZoneSync(z)'
  <2> DEFINE e == <<"EQUIP_LIST_ZONE_DATA", z>>
             right == self.zone[z].state = real.zone[z]
             rightNow == self'.zone[z].state = real.zone[z]
  <2>1. Rebuilding(e) \/ Sync(line, OfZone(z), TrueOfZone(z), right)
    BY DEF InStep, ZoneSync
  <2>2. /\ Head(line) \in OfZone(z) => (Head(line) \in TrueOfZone(z) => rightNow)
        /\ Head(line) \notin OfZone(z) => (right => rightNow)
    BY ZonesHandled, PlanThings DEF TrueOfZone, Types, TypeOK
  <2>3. right \in BOOLEAN /\ rightNow \in BOOLEAN
    OBVIOUS
  <2> HIDE DEF e, right, rightNow
  <2>4. Rebuilding(e)' \/ Sync(line', OfZone(z), TrueOfZone(z), rightNow)
    BY <2>1, <2>2, <2>3, StepHandled
  <2>5. OfZone(z)' = OfZone(z) /\ TrueOfZone(z)' = TrueOfZone(z)
    BY <1>1, SameFrames DEF TrueOfZone
  <2>6. (self.zone[z].state = real.zone[z])' = rightNow
    BY <1>1 DEF rightNow
  <2> QED BY <2>4, <2>5, <2>6 DEF ZoneSync, e
<1>3. ASSUME NEW o \in plan.outputs PROVE OutputSync(o)'
  <2> DEFINE e == <<"EQUIP_LIST_OUTPUT_DATA", o>>
             right == self.output[o].state = real.output[o]
             rightNow == self'.output[o].state = real.output[o]
  <2>1. Rebuilding(e) \/ Sync(line, OfOutput(o), TrueOfOutput(o), right)
    BY DEF InStep, OutputSync
  <2>2. /\ Head(line) \in OfOutput(o) => (Head(line) \in TrueOfOutput(o) => rightNow)
        /\ Head(line) \notin OfOutput(o) => (right => rightNow)
    BY OutputsHandled DEF TrueOfOutput
  <2>3. right \in BOOLEAN /\ rightNow \in BOOLEAN
    OBVIOUS
  <2> HIDE DEF e, right, rightNow
  <2>4. Rebuilding(e)' \/ Sync(line', OfOutput(o), TrueOfOutput(o), rightNow)
    BY <2>1, <2>2, <2>3, StepHandled
  <2>5. OfOutput(o)' = OfOutput(o) /\ TrueOfOutput(o)' = TrueOfOutput(o)
    BY <1>1, SameFrames DEF TrueOfOutput
  <2>6. (self.output[o].state = real.output[o])' = rightNow
    BY <1>1 DEF rightNow
  <2> QED BY <2>4, <2>5, <2>6 DEF OutputSync, e
<1>4. ASSUME NEW p \in plan.partitions PROVE ArmSync(p)'
  <2> DEFINE e == <<"EQUIP_LIST_PARTITION_DATA", p>>
             right == self.partition[p].arm_level = real.arm[p]
             rightNow == self'.partition[p].arm_level = real.arm[p]
  <2>1. Rebuilding(e) \/ Sync(line, OfArm(p), TrueOfArm(p), right)
    BY DEF InStep, ArmSync
  <2>2. /\ Head(line) \in OfArm(p) => (Head(line) \in TrueOfArm(p) => rightNow)
        /\ Head(line) \notin OfArm(p) => (right => rightNow)
    BY ArmsHandled DEF TrueOfArm
  <2>3. right \in BOOLEAN /\ rightNow \in BOOLEAN
    OBVIOUS
  <2> HIDE DEF e, right, rightNow
  <2>4. Rebuilding(e)' \/ Sync(line', OfArm(p), TrueOfArm(p), rightNow)
    BY <2>1, <2>2, <2>3, StepHandled
  <2>5. OfArm(p)' = OfArm(p) /\ TrueOfArm(p)' = TrueOfArm(p)
    BY <1>1, SameFrames DEF TrueOfArm
  <2>6. (self.partition[p].arm_level = real.arm[p])' = rightNow
    BY <1>1 DEF rightNow
  <2> QED BY <2>4, <2>5, <2>6 DEF ArmSync, e
<1>5. ASSUME NEW p \in plan.partitions, real'.siren[p]
      PROVE  Sync(line', OfSiren(p)', TrueOfSiren(p)', SirenIsOn(p)')
  <2>1. Sync(line, OfSiren(p), TrueOfSiren(p), SirenIsOn(p))
    BY <1>1, <1>5 DEF InStep, SirenSync
  <2>2. /\ Head(line) \in OfSiren(p) => (Head(line) \in TrueOfSiren(p) => SirenIsOn(p)')
        /\ Head(line) \notin OfSiren(p) => (SirenIsOn(p) => SirenIsOn(p)')
    BY SirensHandled DEF TrueOfSiren, SirenIsOn
  <2> DEFINE right == SirenIsOn(p)
             rightNow == SirenIsOn(p)'
  <2> HIDE DEF right, rightNow
  <2>3. Sync(line', OfSiren(p), TrueOfSiren(p), rightNow)
    BY <1>1, <2>1, <2>2, SyncTaken DEF right, rightNow
  <2> QED BY <1>1, <2>3, SameFrames DEF rightNow
<1>6. \A p \in plan.partitions : SirenSync(p)'
  BY <1>5 DEF SirenSync
<1> QED BY <1>1, <1>2, <1>3, <1>4, <1>6 DEF InStep
\* A thing is in step after a step of the panel.
LEMMA StepReported ==
  ASSUME Types, NEW frames, Moves(frames), NEW e, NEW about, NEW true, NEW trueNow,
         NEW right \in BOOLEAN, NEW rightNow \in BOOLEAN, NEW same \in BOOLEAN,
         Rebuilding(e) \/ Sync(line, about, true, right),
         Rebuilding(e) => Rebuilding(e)' \/ Range(frames) \intersect about # {},
         Honest(frames, about, trueNow, same),
         same => true = trueNow /\ (right => rightNow)
  PROVE  Rebuilding(e)' \/ Sync(line', about, trueNow, rightNow)
<1>1. line \in Seq(Frame) /\ frames \in Seq(Frame) /\ line' = line \o frames
  BY DEF Types, Moves, Reports
<1>2. Range(line') = Range(line) \union Range(frames)
  BY <1>1, ConcatListed
<1>3. CASE Range(frames) \intersect about # {}
  BY <1>1, <1>3, SyncNews DEF Honest
<1>4. CASE \E f \in Range(frames) : f.cmd = "CLEAR_AUTOMATION_DYNAMIC_IMAGE"
  BY <1>2, <1>4 DEF Rebuilding
<1>5. CASE same /\ Range(frames) \intersect about = {}
  <2>1. CASE Rebuilding(e)
    BY <1>5, <2>1
  <2>2. CASE Sync(line, about, true, right)
    <3>1. Sync(line', about, true, right)
      BY <1>1, <1>5, <2>2, SyncOthers
    <3> QED BY <1>5, <3>1 DEF Sync
  <2> QED BY <2>1, <2>2
<1> QED BY <1>3, <1>4, <1>5 DEF Honest

\* A change of the panel keeps the image in step: its report is the last frame
\* about what changed.
LEMMA InStepReported ==
  ASSUME Types, InStep, PanelLists \/ Obey \/ Happen
  PROVE  InStep'
<1>1. PICK frames :
        /\ Moves(frames)
        /\ \A e \in Range(EquipmentList) :
             Rebuilding(e) => Rebuilding(e)' \/ Report(e[1], e[2]) \in Range(frames)
  BY RebuildingListed
<1>2. /\ plan' = plan /\ self' = self /\ plan \in Plans
      /\ line \in Seq(Frame) /\ frames \in Seq(Frame) /\ line' = line \o frames
  BY <1>1 DEF Moves, Types, TypeOK, Reports
<1>3. ASSUME NEW z \in plan.zones PROVE ZoneSync(z)'
  <2> DEFINE e == <<"EQUIP_LIST_ZONE_DATA", z>>
             right == self.zone[z].state = real.zone[z]
             rightNow == self'.zone[z].state = real'.zone[z]
             same == real'.zone[z] = real.zone[z]
  <2>1. Rebuilding(e) \/ Sync(line, OfZone(z), TrueOfZone(z), right)
    BY DEF InStep, ZoneSync
  <2>2. e \in Range(EquipmentList) /\ e \in Entry
    BY <1>2, Lists DEF Entry
  <2>3. Report(e[1], e[2]) \in OfZone(z)
    BY <2>2, ReportOfEntry DEF OfZone
  <2>4. Rebuilding(e) => Rebuilding(e)' \/ Range(frames) \intersect OfZone(z) # {}
    BY <1>1, <2>2, <2>3
  <2>5. Honest(frames, OfZone(z), TrueOfZone(z)', same)
    BY <1>1 DEF Moves
  <2>6. same => TrueOfZone(z) = TrueOfZone(z)' /\ (right => rightNow)
    BY <1>2, SameFrames DEF TrueOfZone
  <2>7. right \in BOOLEAN /\ rightNow \in BOOLEAN /\ same \in BOOLEAN
    OBVIOUS
  <2> HIDE DEF e, right, rightNow, same
  <2>8. Rebuilding(e)' \/ Sync(line', OfZone(z), TrueOfZone(z)', rightNow)
    BY <1>1, <2>1, <2>4, <2>5, <2>6, <2>7, StepReported
  <2> QED BY <1>2, <2>8, SameFrames DEF ZoneSync, e, rightNow
<1>4. ASSUME NEW o \in plan.outputs PROVE OutputSync(o)'
  <2> DEFINE e == <<"EQUIP_LIST_OUTPUT_DATA", o>>
             right == self.output[o].state = real.output[o]
             rightNow == self'.output[o].state = real'.output[o]
             same == real'.output[o] = real.output[o]
  <2>1. Rebuilding(e) \/ Sync(line, OfOutput(o), TrueOfOutput(o), right)
    BY DEF InStep, OutputSync
  <2>2. e \in Range(EquipmentList) /\ e \in Entry
    BY <1>2, Lists DEF Entry
  <2>3. Report(e[1], e[2]) \in OfOutput(o)
    BY <2>2, ReportOfEntry DEF OfOutput
  <2>4. Rebuilding(e) => Rebuilding(e)' \/ Range(frames) \intersect OfOutput(o) # {}
    BY <1>1, <2>2, <2>3
  <2>5. Honest(frames, OfOutput(o), TrueOfOutput(o)', same)
    BY <1>1 DEF Moves
  <2>6. same => TrueOfOutput(o) = TrueOfOutput(o)' /\ (right => rightNow)
    BY <1>2, SameFrames DEF TrueOfOutput
  <2>7. right \in BOOLEAN /\ rightNow \in BOOLEAN /\ same \in BOOLEAN
    OBVIOUS
  <2> HIDE DEF e, right, rightNow, same
  <2>8. Rebuilding(e)' \/ Sync(line', OfOutput(o), TrueOfOutput(o)', rightNow)
    BY <1>1, <2>1, <2>4, <2>5, <2>6, <2>7, StepReported
  <2> QED BY <1>2, <2>8, SameFrames DEF OutputSync, e, rightNow
<1>5. ASSUME NEW p \in plan.partitions PROVE ArmSync(p)'
  <2> DEFINE e == <<"EQUIP_LIST_PARTITION_DATA", p>>
             right == self.partition[p].arm_level = real.arm[p]
             rightNow == self'.partition[p].arm_level = real'.arm[p]
             same == real'.arm[p] = real.arm[p]
  <2>1. Rebuilding(e) \/ Sync(line, OfArm(p), TrueOfArm(p), right)
    BY DEF InStep, ArmSync
  <2>2. e \in Range(EquipmentList) /\ e \in Entry
    BY <1>2, Lists DEF Entry
  <2>3. Report(e[1], e[2]) \in OfArm(p)
    BY <2>2, ReportOfEntry DEF OfArm
  <2>4. Rebuilding(e) => Rebuilding(e)' \/ Range(frames) \intersect OfArm(p) # {}
    BY <1>1, <2>2, <2>3
  <2>5. Honest(frames, OfArm(p), TrueOfArm(p)', same)
    BY <1>1 DEF Moves
  <2>6. same => TrueOfArm(p) = TrueOfArm(p)' /\ (right => rightNow)
    BY <1>2, SameFrames DEF TrueOfArm
  <2>7. right \in BOOLEAN /\ rightNow \in BOOLEAN /\ same \in BOOLEAN
    OBVIOUS
  <2> HIDE DEF e, right, rightNow, same
  <2>8. Rebuilding(e)' \/ Sync(line', OfArm(p), TrueOfArm(p)', rightNow)
    BY <1>1, <2>1, <2>4, <2>5, <2>6, <2>7, StepReported
  <2> QED BY <1>2, <2>8, SameFrames DEF ArmSync, e, rightNow
<1>6. ASSUME NEW p \in plan.partitions, real'.siren[p]
      PROVE  Sync(line', OfSiren(p)', TrueOfSiren(p)', SirenIsOn(p)')
  <2>1. /\ Range(frames) \intersect OfSiren(p) \subseteq TrueOfSiren(p)
        /\ real.siren[p] \/ Range(frames) \intersect OfSiren(p) # {}
    BY <1>1, <1>6 DEF Moves
  <2> DEFINE right == SirenIsOn(p)
  <2>2. right = SirenIsOn(p)'
    BY <1>2 DEF SirenIsOn
  <2> HIDE DEF right
  <2>3. CASE Range(frames) \intersect OfSiren(p) # {}
    <3>1. Sync(line', OfSiren(p), TrueOfSiren(p), right)
      BY <1>2, <2>1, <2>3, SyncNews
    <3> QED BY <1>2, <2>2, <3>1, SameFrames
  <2>4. CASE Range(frames) \intersect OfSiren(p) = {}
    <3>1. Sync(line, OfSiren(p), TrueOfSiren(p), right)
      BY <2>1, <2>4 DEF InStep, SirenSync, right
    <3>2. Sync(line', OfSiren(p), TrueOfSiren(p), right)
      BY <1>2, <2>4, <3>1, SyncOthers
    <3> QED BY <1>2, <2>2, <3>2, SameFrames
  <2> QED BY <2>3, <2>4
<1> QED BY <1>2, <1>3, <1>4, <1>5, <1>6 DEF InStep, SirenSync

\* Calls keep the image in step: a refresh only adds a request for a list.
LEMMA InStepCalled ==
  ASSUME Types, InStep, Call
  PROVE  InStep'
<1>1. /\ line' = line /\ real' = real /\ listing' = listing /\ plan' = plan /\ keys \in Seq(Key)
      /\ self \in Instance
      /\ plan.partitions \subseteq Partitions
  BY PlanThings DEF Call, SetOutput, SetArmLevel, SetLight, SetZoneBypass, Answers, Refresh, GetInfo, Types, TypeOK
<1>2. Range(keys) \subseteq Range(keys') /\ (self' = self \/ self' = Unlisted)
  <2>1. \/ keys' = keys
        \/ \E k : keys' = Append(keys, k)
    BY DEF Call, SetOutput, SetArmLevel, SetLight, SetZoneBypass, Answers, Refresh, EquipmentRefresh,
           GetInfo
  <2>2. self' = self \/ self' = Unlisted
    BY DEF Call, SetOutput, SetArmLevel, SetLight, SetZoneBypass, Answers, Refresh, EquipmentRefresh,
           GetInfo
  <2> QED BY <1>1, <2>1, <2>2, InAppend
<1>3. \A e : Rebuilding(e) => Rebuilding(e)'
  BY <1>1, <1>2 DEF Rebuilding
<1>4. /\ \A z \in plan.zones : self'.zone[z].state = self.zone[z].state
      /\ \A o \in plan.outputs : self'.output[o].state = self.output[o].state
      /\ \A p \in plan.partitions :
           /\ self'.partition[p].arm_level = self.partition[p].arm_level
           /\ SirenIsOn(p)' = SirenIsOn(p)
  <2>1. CASE self' = self
    BY <2>1 DEF SirenIsOn
  <2>2. CASE self' = Unlisted
    <3>1. /\ plan.zones \subseteq Zones /\ plan.outputs \subseteq Outputs
          /\ self.zone \in [Zones -> ZoneEntry] /\ self.output \in [Outputs -> OutputEntry]
          /\ self.partition \in [Partitions -> Partition]
      BY <1>1, Parts, PlanThings DEF Types, TypeOK, ZoneEntry, OutputEntry
    <3>2. /\ \A z \in plan.zones : self'.zone[z].state = self.zone[z].state
          /\ \A o \in plan.outputs : self'.output[o].state = self.output[o].state
      <4>1. ASSUME NEW z \in plan.zones PROVE self'.zone[z].state = self.zone[z].state
        <5>1. /\ self.zone[z] \in ZoneEntry
              /\ self'.zone[z] = [self.zone[z] EXCEPT !.active = FALSE]
          BY <1>1, <2>2, <3>1, UnlistedStored
        <5> QED BY <5>1 DEF ZoneEntry
      <4>2. ASSUME NEW o \in plan.outputs PROVE self'.output[o].state = self.output[o].state
        <5>1. /\ self.output[o] \in OutputEntry
              /\ self'.output[o] = [self.output[o] EXCEPT !.active = FALSE]
          BY <1>1, <2>2, <3>1, UnlistedStored
        <5> QED BY <5>1 DEF OutputEntry
      <4> QED BY <4>1, <4>2
    <3>3. ASSUME NEW p \in plan.partitions
          PROVE  /\ self'.partition[p].arm_level = self.partition[p].arm_level
                 /\ self'.partition[p].siren_repeat = self.partition[p].siren_repeat
                 /\ self'.partition[p].siren_started_at = self.partition[p].siren_started_at
      <4>1. /\ self.partition[p] \in Partition
            /\ self'.partition[p] = [self.partition[p] EXCEPT !.active = FALSE,
                 !.entry_delay_active = FALSE, !.exit_delay_active = FALSE]
        BY <1>1, <2>2, <3>1, UnlistedStored
      <4> QED BY <4>1 DEF Partition
    <3> QED BY <3>2, <3>3 DEF SirenIsOn
  <2> QED BY <1>2, <2>1, <2>2
<1>5. /\ \A z : OfZone(z)' = OfZone(z) /\ TrueOfZone(z)' = TrueOfZone(z)
      /\ \A o : OfOutput(o)' = OfOutput(o) /\ TrueOfOutput(o)' = TrueOfOutput(o)
      /\ \A p : OfArm(p)' = OfArm(p) /\ TrueOfArm(p)' = TrueOfArm(p)
      /\ \A p : OfSiren(p)' = OfSiren(p) /\ TrueOfSiren(p)' = TrueOfSiren(p)
  BY <1>1, SameFrames DEF TrueOfZone, TrueOfOutput, TrueOfArm
<1>6. \A z \in plan.zones : ZoneSync(z)'
  BY <1>1, <1>3, <1>4, <1>5 DEF InStep, ZoneSync
<1>7. \A o \in plan.outputs : OutputSync(o)'
  BY <1>1, <1>3, <1>4, <1>5 DEF InStep, OutputSync
<1>8. \A p \in plan.partitions : ArmSync(p)'
  BY <1>1, <1>3, <1>4, <1>5 DEF InStep, ArmSync
<1>9. \A p \in plan.partitions : SirenSync(p)'
  BY <1>1, <1>4, <1>5 DEF InStep, SirenSync
<1> QED BY <1>1, <1>6, <1>7, <1>8, <1>9 DEF InStep

\* Initially a list is asked for, and every thing is about to be listed.
LEMMA InitInStep == Init => InStep
<1> SUFFICES ASSUME Init PROVE InStep
  OBVIOUS
<1> DEFINE request == [cmd |-> "EQUIP_LIST_REQUEST"]
<1>1. keys = <<request>> /\ request.cmd = "EQUIP_LIST_REQUEST"
  BY DEF Init
<1>2. \A e : Rebuilding(e)
  <2> HIDE DEF request
  <2>1. request \in Range(keys)
    BY <1>1, RangeOfFrames
  <2> QED BY <1>1, <2>1 DEF Rebuilding
<1>3. \A p \in plan.partitions : ~ real.siren[p]
  BY PlanThings DEF Init
<1> QED BY <1>2, <1>3 DEF InStep, ZoneSync, OutputSync, ArmSync, SirenSync

\* Every step keeps the image in step.
LEMMA InStepNext ==
  ASSUME Types, InStep, [Next]_vars
  PROVE  InStep'
<1>1. CASE UNCHANGED vars
  <2>1. /\ UNCHANGED <<self, line, keys, real, listing, plan>>
    BY <1>1 DEF vars
  <2>2. /\ \A z : OfZone(z)' = OfZone(z) /\ TrueOfZone(z)' = TrueOfZone(z)
        /\ \A o : OfOutput(o)' = OfOutput(o) /\ TrueOfOutput(o)' = TrueOfOutput(o)
        /\ \A p : OfArm(p)' = OfArm(p) /\ TrueOfArm(p)' = TrueOfArm(p)
        /\ \A p : OfSiren(p)' = OfSiren(p) /\ TrueOfSiren(p)' = TrueOfSiren(p)
    BY <2>1, SameFrames DEF TrueOfZone, TrueOfOutput, TrueOfArm
  <2>3. (\A e : Rebuilding(e)' = Rebuilding(e)) /\ (\A p : SirenIsOn(p)' = SirenIsOn(p))
    BY <2>1 DEF Rebuilding, SirenIsOn
  <2> QED BY <2>1, <2>2, <2>3 DEF InStep, ZoneSync, OutputSync, ArmSync, SirenSync
<1> QED BY <1>1, InStepHandled, InStepReported, InStepCalled DEF Next

\* An image that is in step with a panel that has nothing more to say is
\* right.
LEMMA QuietIsRight ==
  ASSUME Types, InStep
  PROVE  QuietImage /\ DisarmSilences
<1> SUFFICES ASSUME Quiet PROVE QuietImage /\ DisarmSilences
  BY DEF QuietImage, DisarmSilences
<1>1. /\ Range(line) = {} /\ Range(keys) = {} /\ Range(listing) = {}
      /\ DOMAIN line = {}
  BY RangeOfFrames DEF Quiet
<1>2. (\A e : ~ Rebuilding(e)) /\ (\A about, true, right : Sync(line, about, true, right) => right)
  BY <1>1 DEF Rebuilding, Sync, Ends
<1>3. QuietImage
  <2>1. ASSUME NEW z \in Zones, self.zone[z].active PROVE self.zone[z].state = real.zone[z]
    <3>1. z \in plan.zones
      BY <2>1 DEF Types, OthersInactive
    <3> QED BY <1>2, <2>1, <3>1 DEF InStep, ZoneSync
  <2>2. ASSUME NEW o \in Outputs, self.output[o].active PROVE self.output[o].state = real.output[o]
    <3>1. o \in plan.outputs
      BY <2>2 DEF Types, OthersInactive
    <3> QED BY <1>2, <2>2, <3>1 DEF InStep, OutputSync
  <2>3. ASSUME NEW p \in Partitions, self.partition[p].active
        PROVE  self.partition[p].arm_level = real.arm[p]
    <3>1. p \in plan.partitions
      BY <2>3 DEF Types, OthersInactive
    <3> QED BY <1>2, <2>3, <3>1 DEF InStep, ArmSync
  <2> QED BY <2>1, <2>2, <2>3 DEF QuietImage
<1>4. DisarmSilences
  <2> SUFFICES ASSUME NEW p \in Partitions, real.siren[p], self.partition[p].active,
                      ~ self.partition[p].programming_mode
               PROVE  ArmStatus(p, 1) = "OK"
    BY DEF DisarmSilences
  <2>1. p \in plan.partitions
    BY DEF Types, OthersInactive
  <2>2. SirenIsOn(p)
    BY <1>2, <2>1 DEF InStep, SirenSync
  <2> QED BY <2>2 DEF ArmStatus, ArmedAlready
<1> QED BY <1>3, <1>4

\* When the panel has nothing more to say, the image is what the panel is like:
\* every zone, output and arm level, after any refreshes, resent frames and
\* reports the panel lost (concordd_handle_frame()).
THEOREM ImageIsQuiet == Spec => []QuietImage
<1>1. Init => Types /\ InStep
  BY InitTypes, InitInStep
<1>2. Types /\ InStep /\ [Next]_vars => (Types /\ InStep)'
  BY NextTypes, InStepNext
<1>3. Types /\ InStep => QuietImage
  BY QuietIsRight
<1> QED BY <1>1, <1>2, <1>3, PTL DEF Spec

\* While the panel's siren sounds a request to disarm reaches it: the image
\* knows of every lasting siren (concordd.c:1290-1311).
THEOREM DisarmReachesSiren == Spec => []DisarmSilences
<1>1. Init => Types /\ InStep
  BY InitTypes, InitInStep
<1>2. Types /\ InStep /\ [Next]_vars => (Types /\ InStep)'
  BY NextTypes, InStepNext
<1>3. Types /\ InStep => DisarmSilences
  BY QuietIsRight
<1> QED BY <1>1, <1>2, <1>3, PTL DEF Spec
-----------------------------------------------------------------------------
(* What was asked for is done.                                             *)

\* The messages of a refresh, which press no keys.
Requests == {"EQUIP_LIST_REQUEST", "DYNAMIC_DATA_REFRESH"}

OutputPending(o) == keys # << >> /\ Head(keys).cmd = "OUTPUT" /\ Head(keys).output = o
ArmPending(p) == keys # << >> /\ Head(keys).cmd = "ARM" /\ Head(keys).partition = p

\* When callers let the panel settle, keys are pressed one request at a time,
\* and what was asked for is so, or will be by the keys that are pending.
InHand ==
  /\ \A i \in DOMAIN keys : i > 1 => keys[i].cmd \in Requests
  /\ \A o \in Outputs : asked.output[o] \subseteq
       {IF OutputPending(o) THEN ~ real.output[o] ELSE real.output[o]}
  /\ \A p \in Partitions : asked.arm[p] \subseteq
       {IF ArmPending(p) THEN Head(keys).level ELSE real.arm[p]}

\* A message of a refresh comes last, and leaves what is pending.
LEMMA RequestInHand ==
  ASSUME Types, InHand, NEW k, k.cmd \in Requests, keys' = keys \/ keys' = Append(keys, k),
         UNCHANGED <<asked, real>>
  PROVE  InHand'
<1>1. keys \in Seq(Key)
  BY DEF Types
<1>2. CASE keys' = keys
  BY <1>2 DEF InHand, OutputPending, ArmPending
<1>3. CASE keys' = Append(keys, k)
  <2>1. keys \in Seq(Key \union {k}) /\ k \in Key \union {k}
    BY <1>1, SeqMonotonic
  <2>2. /\ DOMAIN keys' = 1 .. Len(keys) + 1 /\ Len(keys) \in Nat /\ DOMAIN keys = 1 .. Len(keys)
        /\ keys' # << >>
        /\ \A i \in 1 .. Len(keys) : keys'[i] = keys[i]
        /\ keys'[Len(keys) + 1] = k
        /\ Head(keys') = IF keys = << >> THEN k ELSE Head(keys)
    BY <1>3, <2>1, AppendProperties, HeadTailAppend
  <2>3. \A i \in DOMAIN keys' : i > 1 => keys'[i].cmd \in Requests
    BY <2>2 DEF InHand
  <2>4. \A o : OutputPending(o)' <=> OutputPending(o)
    BY <2>2 DEF OutputPending, Requests
  <2>5. \A p : /\ ArmPending(p)' <=> ArmPending(p)
               /\ ArmPending(p) => Head(keys') = Head(keys)
    BY <2>2 DEF ArmPending, Requests
  <2> QED BY <2>3, <2>4, <2>5 DEF InHand
<1> QED BY <1>2, <1>3

\* Handling a frame leaves what was asked for in hand: it presses no keys but
\* those of a refresh.
LEMMA InHandHandled ==
  ASSUME Types, InHand, Handle
  PROVE  InHand'
<1>1. UNCHANGED <<asked, real>>
  BY HandleTakes
<1>2. \/ keys' = keys
      \/ keys' = Append(keys, [cmd |-> "EQUIP_LIST_REQUEST"])
      \/ keys' = Append(keys, [cmd |-> "DYNAMIC_DATA_REFRESH"])
  BY ZoneMoves, OutputMoves, PartitionMoves, LightsMove, OtherMoves, HandleFamilies
<1> DEFINE a == [cmd |-> "EQUIP_LIST_REQUEST"]
           b == [cmd |-> "DYNAMIC_DATA_REFRESH"]
<1>3. a.cmd \in Requests /\ b.cmd \in Requests
  BY DEF Requests
<1> HIDE DEF a, b
<1>4. keys' = keys \/ keys' = Append(keys, a) \/ keys' = Append(keys, b)
  BY <1>2 DEF a, b
<1> QED BY <1>1, <1>3, <1>4, RequestInHand

\* The only message under way.
LEMMA OneInHand ==
  ASSUME Types, InHand, Quiet, NEW k, keys' = <<k>>, UNCHANGED real,
         \A o \in Outputs : asked'.output[o] \subseteq
           {IF k.cmd = "OUTPUT" /\ k.output = o THEN ~ real.output[o] ELSE real.output[o]},
         \A p \in Partitions : asked'.arm[p] \subseteq
           {IF k.cmd = "ARM" /\ k.partition = p THEN k.level ELSE real.arm[p]}
  PROVE  InHand'
<1>1. keys' # << >> /\ Head(keys') = k /\ DOMAIN keys' = 1 .. 1
  OBVIOUS
<1> QED BY <1>1 DEF InHand, OutputPending, ArmPending

\* Nothing is pending when all is quiet, so that what was asked for is so.
LEMMA QuietInHand ==
  ASSUME Types, InHand, Quiet
  PROVE  /\ \A o \in Outputs : asked.output[o] \subseteq {real.output[o]}
         /\ \A p \in Partitions : asked.arm[p] \subseteq {real.arm[p]}
BY DEF InHand, Quiet, OutputPending, ArmPending

\* A call that waits for quiet is checked against an image that is right, and
\* is the only one pending.
LEMMA InHandCalled ==
  ASSUME Types, InStep, InHand, Call, ~ plan.hasty
  PROVE  InHand'
<1>1. /\ self \in Instance /\ real \in Panel /\ asked \in Asked
      /\ real.output \in [Outputs -> BOOLEAN] /\ real.arm \in [Partitions -> Levels]
      /\ self.output \in [Outputs -> OutputEntry] /\ self.partition \in [Partitions -> Partition]
      /\ self.refresh_pending \in BOOLEAN
  BY Parts, RealParts DEF Types, TypeOK, Asked, OutputEntry
<1>2. real' = real
  BY DEF Call, SetOutput, SetArmLevel, SetLight, SetZoneBypass, Answers, Refresh, GetInfo
<1>3. \A k : keys = << >> => Append(keys, k) = <<k>>
  OBVIOUS
<1>4. ASSUME NEW o \in Outputs, NEW on \in BOOLEAN, SetOutput(o, on) PROVE InHand'
  <2>1. Quiet /\ keys = << >>
    BY <1>4 DEF SetOutput, Calls, Quiet
  <2>2. self.output[o].active => self.output[o].state = real.output[o]
    BY <2>1, QuietIsRight DEF QuietImage
  <2> DEFINE k == [cmd |-> "OUTPUT", output |-> o]
  <2>3. CASE OutputStatus(o, on) = "OK"
    <3>1. on = ~ real.output[o]
      BY <1>1, <2>2, <2>3 DEF OutputStatus, OutputAlready
    <3>2. keys' = <<k>> /\ asked' = [asked EXCEPT !.output[o] = {on}]
      BY <1>3, <1>4, <2>1, <2>3 DEF SetOutput, Answers
    <3>3. /\ asked'.output = [asked.output EXCEPT ![o] = {on}] /\ asked'.arm = asked.arm
          /\ asked.output \in [Outputs -> SUBSET BOOLEAN]
      BY <1>1, <3>2 DEF Asked
    <3>4. k.cmd = "OUTPUT" /\ k.output = o
      OBVIOUS
    <3> HIDE DEF k
    <3>5. \A q \in Outputs : asked'.output[q] \subseteq
            {IF k.cmd = "OUTPUT" /\ k.output = q THEN ~ real.output[q] ELSE real.output[q]}
      <4>1. ASSUME NEW q \in Outputs
            PROVE  asked'.output[q] \subseteq
                     {IF k.cmd = "OUTPUT" /\ k.output = q THEN ~ real.output[q] ELSE real.output[q]}
        <5>1. CASE q = o
          BY <3>1, <3>3, <3>4, <5>1
        <5>2. CASE q # o
          BY <2>1, <3>3, <3>4, <5>2, QuietInHand
        <5> QED BY <5>1, <5>2
      <4> QED BY <4>1
    <3>6. \A p \in Partitions : asked'.arm[p] \subseteq
            {IF k.cmd = "ARM" /\ k.partition = p THEN k.level ELSE real.arm[p]}
      BY <2>1, <3>3, <3>4, QuietInHand
    <3> QED BY <1>2, <2>1, <3>2, <3>5, <3>6, OneInHand
  <2>4. CASE OutputStatus(o, on) = "ALREADY"
    <3>1. on = real.output[o]
      BY <1>1, <2>2, <2>4 DEF OutputStatus, OutputAlready
    <3>2. keys' = keys /\ asked' = [asked EXCEPT !.output[o] = {on}]
      BY <1>4, <2>4 DEF SetOutput, Answers
    <3>3. /\ asked'.output = [asked.output EXCEPT ![o] = {on}] /\ asked'.arm = asked.arm
          /\ asked.output \in [Outputs -> SUBSET BOOLEAN]
      BY <1>1, <3>2 DEF Asked
    <3>4. \A q \in Outputs : asked'.output[q] \subseteq {real.output[q]}
      BY <2>1, <3>1, <3>3, QuietInHand
    <3> QED BY <1>2, <2>1, <3>2, <3>3, <3>4 DEF InHand, OutputPending, ArmPending
  <2>5. CASE OutputStatus(o, on) \notin {"OK", "ALREADY"}
    BY <1>2, <1>4, <2>5 DEF SetOutput, Answers, InHand, OutputPending, ArmPending
  <2> QED BY <2>3, <2>4, <2>5
<1>5. ASSUME NEW p \in Partitions, NEW level \in Levels, SetArmLevel(p, level) PROVE InHand'
  <2>1. Quiet /\ keys = << >>
    BY <1>5 DEF SetArmLevel, Calls, Quiet
  <2>2. self.partition[p].active => self.partition[p].arm_level = real.arm[p]
    BY <2>1, QuietIsRight DEF QuietImage
  <2> DEFINE k == [cmd |-> "ARM", partition |-> p, level |-> level]
  <2>3. CASE ArmStatus(p, level) = "OK"
    <3>1. keys' = <<k>> /\ asked' = [asked EXCEPT !.arm[p] = {level}]
      BY <1>3, <1>5, <2>1, <2>3 DEF SetArmLevel, Answers
    <3>2. /\ asked'.arm = [asked.arm EXCEPT ![p] = {level}] /\ asked'.output = asked.output
          /\ asked.arm \in [Partitions -> SUBSET Levels]
      BY <1>1, <3>1 DEF Asked
    <3>3. k.cmd = "ARM" /\ k.partition = p /\ k.level = level
      OBVIOUS
    <3> HIDE DEF k
    <3>4. \A q \in Partitions : asked'.arm[q] \subseteq
            {IF k.cmd = "ARM" /\ k.partition = q THEN k.level ELSE real.arm[q]}
      <4>1. ASSUME NEW q \in Partitions
            PROVE  asked'.arm[q] \subseteq
                     {IF k.cmd = "ARM" /\ k.partition = q THEN k.level ELSE real.arm[q]}
        <5>1. CASE q = p
          BY <3>2, <3>3, <5>1
        <5>2. CASE q # p
          BY <2>1, <3>2, <3>3, <5>2, QuietInHand
        <5> QED BY <5>1, <5>2
      <4> QED BY <4>1
    <3>5. \A o \in Outputs : asked'.output[o] \subseteq
            {IF k.cmd = "OUTPUT" /\ k.output = o THEN ~ real.output[o] ELSE real.output[o]}
      BY <2>1, <3>2, <3>3, QuietInHand
    <3> QED BY <1>2, <2>1, <3>1, <3>4, <3>5, OneInHand
  <2>4. CASE ArmStatus(p, level) = "ALREADY"
    <3>1. level = real.arm[p]
      BY <1>1, <2>2, <2>4 DEF ArmStatus, ArmedAlready
    <3>2. keys' = keys /\ asked' = [asked EXCEPT !.arm[p] = {level}]
      BY <1>5, <2>4 DEF SetArmLevel, Answers
    <3>3. /\ asked'.arm = [asked.arm EXCEPT ![p] = {level}] /\ asked'.output = asked.output
          /\ asked.arm \in [Partitions -> SUBSET Levels]
      BY <1>1, <3>2 DEF Asked
    <3>4. \A q \in Partitions : asked'.arm[q] \subseteq {real.arm[q]}
      BY <2>1, <3>1, <3>3, QuietInHand
    <3> QED BY <1>2, <2>1, <3>2, <3>3, <3>4, QuietInHand DEF InHand, OutputPending, ArmPending
  <2>5. CASE ArmStatus(p, level) \notin {"OK", "ALREADY"}
    BY <1>2, <1>5, <2>5 DEF SetArmLevel, Answers, InHand, OutputPending, ArmPending
  <2> QED BY <2>3, <2>4, <2>5
<1>6. ASSUME NEW status, NEW k, k.cmd \notin {"OUTPUT", "ARM"}, Quiet, Answers(status, k), asked' = asked
      PROVE  InHand'
  <2>1. keys' = keys \/ keys' = <<k>>
    BY <1>3, <1>6 DEF Answers, Quiet
  <2>2. CASE keys' = keys
    BY <1>2, <1>6, <2>2 DEF InHand, OutputPending, ArmPending
  <2>3. CASE keys' = <<k>>
    BY <1>2, <1>6, <2>3, OneInHand, QuietInHand
  <2> QED BY <2>1, <2>2, <2>3
<1>7. ASSUME NEW p \in Partitions, NEW l \in Lights, NEW on \in BOOLEAN, SetLight(p, l, on) PROVE InHand'
  <2> DEFINE k == [cmd |-> "LIGHT", partition |-> p, light |-> l, on |-> on]
  <2>1. /\ Quiet /\ asked' = asked /\ Answers(LightStatus(p, l), k) /\ k.cmd = "LIGHT"
    BY <1>7 DEF SetLight, Calls
  <2> HIDE DEF k
  <2> QED BY <1>6, <2>1
<1>8. ASSUME NEW z \in Zones, NEW bypass \in BOOLEAN, SetZoneBypass(z, bypass) PROVE InHand'
  <2> DEFINE k == [cmd |-> "BYPASS", zone |-> z]
  <2>1. /\ Quiet /\ asked' = asked /\ Answers(BypassStatus(z, bypass), k) /\ k.cmd = "BYPASS"
    BY <1>8 DEF SetZoneBypass, Calls
  <2> HIDE DEF k
  <2> QED BY <1>6, <2>1
<1>9. CASE Refresh
  <2> DEFINE k == [cmd |-> "EQUIP_LIST_REQUEST"]
  <2>1. k.cmd \in Requests /\ keys' = Append(keys, k) /\ UNCHANGED <<asked, real>>
    BY <1>9 DEF Refresh, EquipmentRefresh, Requests
  <2> HIDE DEF k
  <2> QED BY <2>1, RequestInHand
<1>10. CASE GetInfo
  BY <1>10 DEF GetInfo, InHand, OutputPending, ArmPending
<1> QED BY <1>4, <1>5, <1>7, <1>8, <1>9, <1>10 DEF Call
\* A key press that the panel obeys leaves no key press pending.
LEMMA NoneInHand ==
  ASSUME Types, InHand, keys # << >>, keys' = Tail(keys)
  PROVE  /\ \A i \in DOMAIN keys' : i > 1 => keys'[i].cmd \in Requests
         /\ \A o : ~ OutputPending(o)'
         /\ \A p : ~ ArmPending(p)'
<1>1. keys \in Seq(Key)
  BY DEF Types
<1>2. /\ keys' \in Seq(Key) /\ Len(keys') = Len(keys) - 1 /\ Len(keys) \in Nat
      /\ \A i \in 1 .. Len(keys') : keys'[i] = keys[i + 1]
  BY <1>1, HeadTailProperties
<1>3. \A i \in DOMAIN keys' : i + 1 \in DOMAIN keys /\ i + 1 > 1 /\ keys'[i] = keys[i + 1]
  BY <1>1, <1>2
<1>4. \A i \in DOMAIN keys' : keys'[i].cmd \in Requests
  BY <1>3 DEF InHand
<1>5. keys' # << >> => 1 \in DOMAIN keys' /\ Head(keys') = keys'[1]
  BY <1>2
<1>6. keys' # << >> => Head(keys').cmd \in Requests
  BY Zenon, <1>4, <1>5
<1> QED BY <1>4, <1>6 DEF OutputPending, ArmPending, Requests

\* A panel that obeys the pending keys makes what was asked for so.
LEMMA InHandObeyed ==
  ASSUME Types, InHand, Obey
  PROVE  InHand'
<1>1. /\ real \in Panel /\ asked' = asked /\ keys # << >> /\ keys' = Tail(keys) /\ keys \in Seq(Key)
      /\ plan.outputs \subseteq Outputs /\ plan.partitions \subseteq Partitions
      /\ real.output \in [Outputs -> BOOLEAN] /\ real.arm \in [Partitions -> Levels]
  BY PlanThings, RealParts
     DEF Types, TypeOK, Obey, PanelListsOnRequest, PanelTogglesOutput, PanelTogglesBypass, PanelArms,
         PanelSwitchesLight, Obeys
<1>2. /\ \A i \in DOMAIN keys' : i > 1 => keys'[i].cmd \in Requests
      /\ \A o : ~ OutputPending(o)'
      /\ \A p : ~ ArmPending(p)'
  BY <1>1, NoneInHand
<1>3. SUFFICES /\ \A o \in Outputs : real'.output[o] =
                    IF OutputPending(o) THEN ~ real.output[o] ELSE real.output[o]
               /\ \A p \in Partitions : real'.arm[p] =
                    IF ArmPending(p) THEN Head(keys).level ELSE real.arm[p]
  BY <1>1, <1>2 DEF InHand
<1>4. CASE PanelListsOnRequest
  BY <1>4 DEF PanelListsOnRequest, Obeys, OutputPending, ArmPending
<1>5. CASE PanelTogglesOutput
  <2>1. /\ Head(keys).cmd = "OUTPUT"
        /\ real'.output = [real.output EXCEPT ![Head(keys).output] = ~ real.output[Head(keys).output]]
        /\ real'.arm = real.arm
    BY <1>1, <1>5 DEF PanelTogglesOutput, Obeys, Panel
  <2> QED BY <1>1, <2>1 DEF OutputPending, ArmPending
<1>6. CASE PanelTogglesBypass
  BY <1>1, <1>6 DEF PanelTogglesBypass, Obeys, Panel, OutputPending, ArmPending
<1>7. CASE PanelArms
  <2>1. /\ Head(keys).cmd = "ARM" /\ Head(keys).partition \in Partitions
    <3>1. Head(keys) \in Key /\ Head(keys).cmd = "ARM"
      BY <1>1, <1>7 DEF PanelArms, Obeys
    <3> QED BY <1>1, <3>1, KeyFields
  <2>2. /\ real'.output = real.output
        /\ real'.arm = [real.arm EXCEPT ![Head(keys).partition] = Head(keys).level]
    BY <1>1, <1>7 DEF PanelArms, Panel
  <2> QED BY <1>1, <2>1, <2>2 DEF OutputPending, ArmPending
<1>8. CASE PanelSwitchesLight
  BY <1>1, <1>8 DEF PanelSwitchesLight, Obeys, Panel, OutputPending, ArmPending
<1> QED BY <1>4, <1>5, <1>6, <1>7, <1>8 DEF Obey

\* What happens by itself, or is lost, is nobody's doing.
LEMMA HappensAsked ==
  ASSUME Types, Happen
  PROVE  /\ \A o \in Outputs : \/ asked'.output[o] = {}
                               \/ asked'.output[o] = asked.output[o] /\ real'.output[o] = real.output[o]
         /\ \A p \in Partitions : \/ asked'.arm[p] = {}
                                  \/ asked'.arm[p] = asked.arm[p] /\ real'.arm[p] = real.arm[p]
<1>1. /\ real \in Panel /\ asked \in Asked
      /\ plan.outputs \subseteq Outputs /\ plan.partitions \subseteq Partitions
  BY PlanThings DEF Types, TypeOK, Asked
<1>2. CASE asked' = asked /\ real'.output = real.output /\ real'.arm = real.arm
  BY <1>2
<1>3. ASSUME NEW z \in plan.zones, ZoneChanges(z)
      PROVE  asked' = asked /\ real'.output = real.output /\ real'.arm = real.arm
  BY <1>1, <1>3 DEF ZoneChanges, Panel
<1>4. ASSUME NEW p \in plan.partitions, LightsChange(p)
      PROVE  asked' = asked /\ real'.output = real.output /\ real'.arm = real.arm
  BY <1>1, <1>4 DEF LightsChange, Panel
<1>5. ASSUME NEW p \in plan.partitions, SirenTimesOut(p) \/ ProgrammingChanges(p)
      PROVE  asked' = asked /\ real'.output = real.output /\ real'.arm = real.arm
  BY <1>1, <1>5 DEF SirenTimesOut, ProgrammingChanges, Panel
<1>6. ASSUME NEW p \in plan.partitions, NEW l \in Lights, UserLight(p, l)
      PROVE  asked' = asked /\ real'.output = real.output /\ real'.arm = real.arm
  BY <1>1, <1>6 DEF UserLight, Panel
<1>7. ASSUME NEW p \in plan.partitions, NEW repeat \in {0, 1}, SirenStarts(p, repeat)
      PROVE  asked' = asked /\ real'.output = real.output /\ real'.arm = real.arm
  BY <1>1, <1>7 DEF SirenStarts, Panel
<1>8. ASSUME NEW o \in plan.outputs, OutputChanges(o)
      PROVE  /\ asked'.output = [asked.output EXCEPT ![o] = {}] /\ asked'.arm = asked.arm
             /\ real'.output = [real.output EXCEPT ![o] = ~ real.output[o]] /\ real'.arm = real.arm
  BY <1>1, <1>8 DEF OutputChanges, Panel, Asked
<1>9. ASSUME NEW p \in plan.partitions, NEW l \in plan.levels, ArmChanges(p, l)
      PROVE  /\ asked'.arm = [asked.arm EXCEPT ![p] = {}] /\ asked'.output = asked.output
             /\ real'.arm = [real.arm EXCEPT ![p] = l] /\ real'.output = real.output
  BY <1>1, <1>9 DEF ArmChanges, Panel, Asked
<1>10. CASE LosesEvents
  <2>1. asked'.output = [o \in Outputs |-> {}] /\ asked'.arm = [p \in Partitions |-> {}]
    BY <1>1, <1>10 DEF LosesEvents, Asked
  <2> QED BY <2>1
<1>11. ASSUME \/ \E z \in plan.zones, code \in Codes : KeyfobPressed(z, code)
              \/ \E p \in plan.partitions, exit \in BOOLEAN, begin \in BOOLEAN : Delay(p, exit, begin)
              \/ \E p \in plan.partitions, t \in Texts : Displays(p, t)
              \/ \E p \in plan.partitions, on \in BOOLEAN : FeatureChanges(p, on)
       PROVE  asked' = asked /\ real' = real
  BY <1>11 DEF KeyfobPressed, Delay, Displays, FeatureChanges
<1>12. CASE \E o \in plan.outputs : OutputChanges(o)
  <2>1. PICK o \in plan.outputs : OutputChanges(o)
    BY <1>12
  <2>2. /\ asked.output \in [Outputs -> SUBSET BOOLEAN] /\ real.output \in [Outputs -> BOOLEAN]
    BY <1>1, RealParts DEF Asked
  <2>3. /\ asked'.output = [asked.output EXCEPT ![o] = {}] /\ asked'.arm = asked.arm
        /\ real'.output = [real.output EXCEPT ![o] = ~ real.output[o]] /\ real'.arm = real.arm
    BY <1>8, <2>1
  <2> QED BY <2>2, <2>3
<1>13. CASE \E p \in plan.partitions, l \in plan.levels : ArmChanges(p, l)
  <2>1. PICK p \in plan.partitions, l \in plan.levels : ArmChanges(p, l)
    BY <1>13
  <2>2. /\ asked.arm \in [Partitions -> SUBSET Levels] /\ real.arm \in [Partitions -> Levels]
    BY <1>1, RealParts DEF Asked
  <2>3. /\ asked'.arm = [asked.arm EXCEPT ![p] = {}] /\ asked'.output = asked.output
        /\ real'.arm = [real.arm EXCEPT ![p] = l] /\ real'.output = real.output
    BY <1>9, <2>1
  <2> QED BY <2>2, <2>3
<1> QED BY <1>2, <1>3, <1>4, <1>5, <1>6, <1>7, <1>10, <1>11, <1>12, <1>13 DEF Happen

\* What happens at the panel overrides what was asked for.
LEMMA InHandHappens ==
  ASSUME Types, InHand, Happen
  PROVE  InHand'
<1>1. keys' = keys
  BY DEF Happen, Happens, ZoneChanges, KeyfobPressed, OutputChanges, LightsChange,
     SirenTimesOut, ProgrammingChanges, UserLight, ArmChanges, Delay, SirenStarts, Displays,
     FeatureChanges, LosesEvents
<1>2. (\A o : OutputPending(o)' = OutputPending(o)) /\ (\A p : ArmPending(p)' = ArmPending(p))
  BY <1>1 DEF OutputPending, ArmPending
<1>3. \A o \in Outputs : asked'.output[o] \subseteq
        {IF OutputPending(o) THEN ~ real'.output[o] ELSE real'.output[o]}
  BY HappensAsked DEF InHand
<1>4. \A p \in Partitions : asked'.arm[p] \subseteq
        {IF ArmPending(p) THEN Head(keys).level ELSE real'.arm[p]}
  BY HappensAsked DEF InHand
<1> QED BY <1>1, <1>2, <1>3, <1>4 DEF InHand

\* Every step leaves what was asked for in hand.
LEMMA InHandNext ==
  ASSUME Types, InStep, InHand, [Next]_vars, ~ plan.hasty
  PROVE  InHand'
<1>1. CASE PanelLists \/ UNCHANGED vars
  BY <1>1 DEF PanelLists, vars, InHand, OutputPending, ArmPending
<1> QED BY <1>1, InHandHandled, InHandCalled, InHandObeyed, InHandHappens DEF Next

\* Initially nothing was asked for.
LEMMA InitInHand == Init => InHand
<1> SUFFICES ASSUME Init PROVE InHand
  OBVIOUS
<1> DEFINE request == [cmd |-> "EQUIP_LIST_REQUEST"]
<1>1. keys = <<request>> /\ request.cmd = "EQUIP_LIST_REQUEST"
  BY DEF Init
<1>3. DOMAIN keys = 1 .. 1
  <2> HIDE DEF request
  <2> QED BY <1>1
<1>4. \A i \in DOMAIN keys : ~ (i > 1)
  BY <1>3
<1>2. /\ \A o \in Outputs : asked.output[o] = {}
      /\ \A p \in Partitions : asked.arm[p] = {}
  BY DEF Init
<1>5. \A i \in DOMAIN keys : i > 1 => keys[i].cmd \in Requests
  BY <1>4
<1>6. (\A o \in Outputs : asked.output[o] \subseteq
        {IF OutputPending(o) THEN ~ real.output[o] ELSE real.output[o]})
  BY <1>2
<1>7. (\A p \in Partitions : asked.arm[p] \subseteq
        {IF ArmPending(p) THEN Head(keys).level ELSE real.arm[p]})
  BY <1>2
<1> QED BY <1>5, <1>6, <1>7 DEF InHand

\* When callers let the panel settle between their requests, an output ends up
\* the way the last accepted one wanted it: the image the request was checked
\* against was right, so the keys that toggle it toggle it once
\* (concordd_set_output()).
THEOREM OutputsObey ==
  ASSUME \A q \in Plans : ~ q.hasty
  PROVE  Spec => []OutputAsAsked
<1> DEFINE Inv == Types /\ InStep /\ InHand
<1>1. Init => Inv
  BY InitTypes, InitInStep, InitInHand
<1>2. Inv /\ [Next]_vars => Inv'
  BY NextTypes, InStepNext, InHandNext DEF Types, TypeOK
<1>3. Inv => OutputAsAsked
  BY QuietInHand DEF OutputAsAsked
<1> QED BY <1>1, <1>2, <1>3, PTL DEF Spec

\* When callers let the panel settle between their requests, a partition ends
\* up at the level of the last accepted one, ALREADY being an acceptance
\* (concordd_set_arm_level()).
THEOREM ArmsObey ==
  ASSUME \A q \in Plans : ~ q.hasty
  PROVE  Spec => []ArmedAsAsked
<1> DEFINE Inv == Types /\ InStep /\ InHand
<1>1. Init => Inv
  BY InitTypes, InitInStep, InitInHand
<1>2. Inv /\ [Next]_vars => Inv'
  BY NextTypes, InStepNext, InHandNext DEF Types, TypeOK
<1>3. Inv => ArmedAsAsked
  BY QuietInHand DEF ArmedAsAsked
<1> QED BY <1>1, <1>2, <1>3, PTL DEF Spec
=============================================================================
