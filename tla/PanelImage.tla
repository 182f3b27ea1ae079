----------------------------- MODULE PanelImage -----------------------------
(***************************************************************************)
(* The image of the alarm panel that the daemon keeps, src/concordd/       *)
(* concordd.c: struct concordd_instance_s, the handlers that bring it up   *)
(* to date from the panel's frames (concordd_handle_frame() and what it    *)
(* calls), the refresh that rebuilds it, and the client requests that are  *)
(* checked against it before they become key presses.  A client that read  *)
(* everything once and follows the "changed" signals is part of the model. *)
(*                                                                         *)
(* The panel is the environment: it has a state of its own, reports what   *)
(* happens in frames that arrive in order (GeReceiver), and obeys the      *)
(* messages it is sent in order (CommandService).                          *)
(***************************************************************************)
EXTENDS Integers, Sequences, FiniteSets, SequencesExt

CONSTANTS
  Partitions, Zones, Outputs, Lights, \* entries of the daemon's arrays; light 0 is "all lights"
  ZoneBits,      \* "TRIPPED", "BYPASSED": the bits of a zone's state
  Levels,        \* arm levels, 1 is disarmed
  Devices,       \* bus devices, each reported in a frame of its own
  MaxKeys,       \* bound on the messages the panel has yet to obey
  Plans          \* what may happen in a behaviour, see Plan

\* partitions, zones, outputs, levels: what this panel has, of the entries the
\* daemon keeps for any panel.  topics: what the panel reports by itself;
\* requests: the calls clients make; hasty: also while an earlier call is under
\* way; overlap: a refresh while another is pending; lost: the panel loses
\* reports, and says so; resent: a frame comes twice, its ACK lost; line: bound
\* on the frames under way.
Plan == [
  partitions : SUBSET Partitions, zones : SUBSET Zones, outputs : SUBSET Outputs,
  levels : SUBSET Levels,
  topics : SUBSET {"zones", "keyfobs", "outputs", "lights", "light", "userlights",
                   "arming", "delays", "siren", "programming", "touchpad", "features"},
  requests : SUBSET {"output", "arm", "light", "bypass", "refresh", "get_info"},
  hasty : BOOLEAN, overlap : BOOLEAN, lost : BOOLEAN, resent : BOOLEAN, line : Nat]

ASSUME PanelAssumption ==
  /\ \A things \in {Partitions, Zones, Outputs, Devices} : IsFiniteSet(things)
  /\ Partitions \subseteq Nat /\ 1 \in Partitions
  /\ 0 \in Lights /\ Lights \subseteq 0 .. 9
  /\ Levels \subseteq 1 .. 3 /\ 1 \in Levels
  /\ MaxKeys \in Nat
  /\ Plans \subseteq Plan
  /\ \A p \in Plans : "bypass" \in p.requests => "BYPASSED" \in ZoneBits

VARIABLES
  self,     \* concordd_instance_s, see Instance
  line,     \* frames the daemon has yet to handle
  keys,     \* messages the panel has yet to obey
  real,     \* the panel: what self is an image of
  listing,  \* what the panel has yet to report of a refresh
  view,     \* what the client believes; <<>> before get_info.  view.fresh: the
            \* zones it was told of by get_info since a refresh last began
  asked,    \* history: the value last accepted from a client, in a set
  plan      \* a member of Plans, the same throughout a behaviour

vars == <<self, line, keys, real, listing, view, asked, plan>>

ZoneStates == SUBSET ZoneBits
Texts == {"", "READY"}
Codes == {0, 6}   \* keyfob buttons

Partition == [active : BOOLEAN, arm_level : Levels \union {0},
  entry_delay_active : BOOLEAN, exit_delay_active : BOOLEAN,
  programming_mode : BOOLEAN, siren_repeat : {0, 1}, siren_cadence : BOOLEAN,
  siren_started_at : BOOLEAN, touchpad_text : Texts, feature_state : BOOLEAN]

\* light[p][l].changed is last_changed_at # 0; user_code is the code_str of
\* GE_RS232_USER_SYSTEM; bus_device holds the first bus_device_count entries.
Instance == [
  zone : [Zones -> [active : BOOLEAN, state : ZoneStates, last_kc : Codes,
                    partition_id : Partitions \union {0}]],
  output : [Outputs -> [active : BOOLEAN, state : BOOLEAN]],
  partition : [Partitions -> Partition],
  light : [Partitions -> [Lights -> [state : BOOLEAN, changed : BOOLEAN]]],
  user_code : {"inactive", "", "set"},
  bus_device : Seq(Devices),
  refresh_pending : BOOLEAN,
  siren_go_partition_id : Partitions \union {0}]

Panel == [
  zone : [Zones -> ZoneStates], output : [Outputs -> BOOLEAN],
  arm : [Partitions -> Levels], light : [Partitions -> [Lights -> BOOLEAN]],
  siren : [Partitions -> BOOLEAN], programming : [Partitions -> BOOLEAN]]

TypeOK ==
  /\ self \in Instance
  /\ real \in Panel
  /\ Len(line) <= plan.line
  /\ plan \in Plans
  /\ asked \in [output : [Outputs -> SUBSET BOOLEAN], arm : [Partitions -> SUBSET Levels]]

-----------------------------------------------------------------------------
(* Notifications.  A signal carries the new values of what it names.       *)

\* What get_info says of a partition, an output, a light and a zone.
Shown == {"arm_level", "touchpad_text", "feature_state", "programming_mode",
          "siren_repeat", "siren_cadence", "siren_started_at"}

PartitionInfo(p) == [f \in Shown |-> self.partition[p][f]]
OutputInfo(o) == self.output[o].state
LightInfo(p, l) == self.light[p][l].state
ZoneInfo(z) == self.zone[z].state

\* An inactive zone does not answer get_info.
ActiveZones == {z \in Zones : self.zone[z].active}

\* A client asks every object for get_info, and again when a refresh is over;
\* nothing changes in the meantime.
GetInfo ==
  /\ "get_info" \in plan.requests /\ ~ self.refresh_pending
  /\ view # <<>> => view.fresh # ActiveZones
  /\ view' = [fresh |-> ActiveZones,
              zone |-> [z \in Zones |-> ZoneInfo(z)],
              output |-> [o \in Outputs |-> OutputInfo(o)],
              light |-> [p \in Partitions |-> [l \in Lights |-> LightInfo(p, l)]],
              partition |-> [p \in Partitions |-> PartitionInfo(p)]]
  /\ UNCHANGED <<self, line, keys, real, listing, asked, plan>>

TellNothing == UNCHANGED view

\* concordd_zone_info_changed() and output_info_changed_func.
TellZone(z) ==
  view' = IF view = <<>> THEN view ELSE [view EXCEPT !.zone[z] = self'.zone[z].state]

TellOutput(o) ==
  view' = IF view = <<>> THEN view ELSE [view EXCEPT !.output[o] = self'.output[o].state]

\* light_info_changed_func, for some of a partition's lights.
TellLights(p, lights) ==
  view' = IF view = <<>> THEN view
          ELSE [view EXCEPT !.light[p] =
                  [l \in Lights |-> IF l \in lights THEN self'.light[p][l].state ELSE @[l]]]

\* concordd_partition_info_changed() with the bits that name the fields.
TellPartition(p, fields) ==
  view' = IF view = <<>> THEN view
          ELSE [view EXCEPT !.partition[p] =
                  [f \in Shown |-> IF f \in fields THEN self'.partition[p][f] ELSE @[f]]]

-----------------------------------------------------------------------------
(* Refresh.                                                                *)

Inactive(things) == [i \in DOMAIN things |-> [things[i] EXCEPT !.active = FALSE]]

NoDelays(things) ==
  [i \in DOMAIN things |->
     [things[i] EXCEPT !.entry_delay_active = FALSE, !.exit_delay_active = FALSE]]

\* Variant: the bus devices listed before are kept.
UnlistedButDevices ==
  [self EXCEPT !.refresh_pending = TRUE, !.zone = Inactive(@),
               !.partition = NoDelays(Inactive(@)), !.output = Inactive(@)]

Unlisted ==
  [self EXCEPT !.refresh_pending = TRUE,
               !.bus_device = <<>>,
               !.zone = Inactive(@),
               !.partition = NoDelays(Inactive(@)),
               !.output = Inactive(@)]

\* An inactive zone is stored and not announced: what a client was told of the
\* zones before counts no more.
ForgetZones == view' = IF view = <<>> THEN view ELSE [view EXCEPT !.fresh = {}]

\* concordd_equipment_refresh(): everything is inactive until it is listed.
EquipmentRefresh ==
  /\ self' = Unlisted
  /\ keys' = Append(keys, [cmd |-> "EQUIP_LIST_REQUEST"])
  /\ ForgetZones

\* main() asks for the first refresh before its loop starts.
Init ==
  /\ self = [
       zone |-> [z \in Zones |-> [active |-> FALSE, state |-> {}, last_kc |-> 0, partition_id |-> 0]],
       output |-> [o \in Outputs |-> [active |-> FALSE, state |-> FALSE]],
       partition |-> [p \in Partitions |-> [active |-> FALSE, arm_level |-> 0,
         entry_delay_active |-> FALSE, exit_delay_active |-> FALSE,
         programming_mode |-> FALSE, siren_repeat |-> 0, siren_cadence |-> FALSE,
         siren_started_at |-> FALSE, touchpad_text |-> "", feature_state |-> FALSE]],
       light |-> [p \in Partitions |-> [l \in Lights |-> [state |-> FALSE, changed |-> FALSE]]],
       user_code |-> "inactive",
       bus_device |-> <<>>,
       refresh_pending |-> TRUE,
       siren_go_partition_id |-> 0]
  /\ line = <<>>
  /\ keys = <<[cmd |-> "EQUIP_LIST_REQUEST"]>>
  /\ real = [zone |-> [z \in Zones |-> {}], output |-> [o \in Outputs |-> FALSE],
             arm |-> [p \in Partitions |-> 1],
             light |-> [p \in Partitions |-> [l \in Lights |-> FALSE]],
             siren |-> [p \in Partitions |-> FALSE],
             programming |-> [p \in Partitions |-> FALSE]]
  /\ listing = <<>>
  /\ view = <<>>
  /\ asked = [output |-> [o \in Outputs |-> {}], arm |-> [p \in Partitions |-> {}]]
  /\ plan \in Plans

-----------------------------------------------------------------------------
(* The handlers.  Each takes the next frame, which may come once more.     *)

Takes(cmd) ==
  /\ line # <<>> /\ Head(line).cmd = cmd
  /\ line' \in {Tail(line)} \union (IF plan.resent /\ Len(keys) < MaxKeys THEN {line} ELSE {})
  /\ UNCHANGED <<real, listing, asked, plan>>

\* Variants: bits that are no zone state are stored too; nothing is stored
\* while a refresh is pending; a change is announced when the zone is tripped by it.
StoredStateUnmasked(z, state) == state \union {"BATTERY"}

StoredStateWhenIdle(z, state) == IF self.refresh_pending THEN self.zone[z].state ELSE state

AnnouncesZoneIfTripped(z, state) == state # self.zone[z].state /\ "TRIPPED" \in state

\* A zone's state is stored whether it is active or not ...
StoredState(z, state) == state

\* ... and announced if it changed while the zone was active.
AnnouncesZone(z, state) == state # self.zone[z].state /\ self.zone[z].active

\* concordd_handle_zone_status()
HandleZoneStatus ==
  /\ Takes("ZONE_STATUS")
  /\ LET f == Head(line)
     IN /\ self' = [self EXCEPT !.zone[f.zone] =
             [@ EXCEPT !.state = StoredState(f.zone, f.state), !.active = TRUE]]
        /\ IF AnnouncesZone(f.zone, f.state) THEN TellZone(f.zone) ELSE TellNothing
  /\ UNCHANGED keys

\* concordd_handle_equip_list_zone_data(): names, groups and types left out.
HandleEquipListZoneData ==
  /\ Takes("EQUIP_LIST_ZONE_DATA")
  /\ LET f == Head(line)
     IN /\ self' = [self EXCEPT !.zone[f.zone] =
             [@ EXCEPT !.state = f.state, !.partition_id = f.partition, !.active = TRUE]]
        /\ IF AnnouncesZone(f.zone, f.state) THEN TellZone(f.zone) ELSE TellNothing
  /\ UNCHANGED keys

\* A keyfob button makes its zone active.  A long press is reported several
\* times, and taken once a second.
HandleKeyfob ==
  /\ Takes("KEYFOB")
  /\ LET f == Head(line)
     IN \/ self' = [self EXCEPT !.zone[f.zone] =
             [@ EXCEPT !.last_kc = f.code, !.active = TRUE]]
        \/ f.code > 3 /\ f.code = self.zone[f.zone].last_kc /\ UNCHANGED self
  /\ TellNothing
  /\ UNCHANGED keys

\* Variant: changes of an inactive partition are announced to nobody, as for zones.
AnnouncesIfActive(p, field, value) ==
  value # self.partition[p][field] /\ self.partition[p].active

\* A field of a partition is announced when it changes, active or not.
Announces(p, field, value) == value # self.partition[p][field]

HandleEquipListPartitionData ==
  /\ Takes("EQUIP_LIST_PARTITION_DATA")
  /\ LET f == Head(line)
         p == f.partition
     IN /\ self' = [self EXCEPT !.partition[p] =
             [@ EXCEPT !.active = TRUE, !.arm_level = f.level]]
        /\ IF Announces(p, "arm_level", f.level)
           THEN TellPartition(p, {"arm_level"})
           ELSE TellNothing
  /\ UNCHANGED keys

\* The output list is stored and announced to nobody.
HandleEquipListOutputData ==
  /\ Takes("EQUIP_LIST_OUTPUT_DATA")
  /\ self' = [self EXCEPT !.output[Head(line).output] =
                [active |-> TRUE, state |-> Head(line).state]]
  /\ TellNothing
  /\ UNCHANGED keys

\* bus_device[bus_device_count++]
HandleEquipListSuperbusDevData ==
  /\ Takes("EQUIP_LIST_SUPERBUS_DEV_DATA")
  /\ self' = [self EXCEPT !.bus_device = Append(@, Head(line).device)]
  /\ TellNothing
  /\ UNCHANGED keys

HandleEquipListUserData ==
  /\ Takes("EQUIP_LIST_USER_DATA")
  /\ self' = [self EXCEPT !.user_code = Head(line).code]
  /\ TellNothing
  /\ UNCHANGED keys

HandleEquipListLightToSensorData ==
  /\ Takes("EQUIP_LIST_LIGHT_TO_SENSOR_DATA")
  /\ self' = [self EXCEPT !.partition[Head(line).partition].active = TRUE]
  /\ TellNothing
  /\ UNCHANGED keys

\* Variant: the rest is not asked for.
HandleEquipListCompleteOnly ==
  /\ Takes("EQUIP_LIST_COMPLETE")
  /\ TellNothing
  /\ UNCHANGED <<self, keys>>

\* The end of the equipment list: ask for the rest.
HandleEquipListComplete ==
  /\ Takes("EQUIP_LIST_COMPLETE")
  /\ keys' = Append(keys, [cmd |-> "DYNAMIC_DATA_REFRESH"])
  /\ TellNothing
  /\ UNCHANGED self

HandleClearAutomationDynamicImage ==
  /\ Takes("CLEAR_AUTOMATION_DYNAMIC_IMAGE")
  /\ EquipmentRefresh

\* TIME_AND_DATE, the last report of a refresh.
HandleTimeAndDate ==
  /\ Takes("TIME_AND_DATE")
  /\ self' = [self EXCEPT !.refresh_pending = FALSE]
  /\ TellNothing
  /\ UNCHANGED keys

\* PTA_SUBCMD_LEVEL ends an entry delay, and is always announced.
HandleLevel ==
  /\ Takes("LEVEL")
  /\ LET p == Head(line).partition
     IN /\ self' = [self EXCEPT !.partition[p] =
             [@ EXCEPT !.active = TRUE, !.arm_level = Head(line).level,
                       !.entry_delay_active = FALSE]]
        /\ TellPartition(p, {"arm_level"})
  /\ UNCHANGED keys

\* Entry and exit delays are known to set_arm_level only.
HandleEntryExitDelay ==
  /\ Takes("ENTRY_EXIT_DELAY")
  /\ LET f == Head(line)
     IN self' = IF f.exit
                THEN [self EXCEPT !.partition[f.partition].exit_delay_active = f.begin]
                ELSE [self EXCEPT !.partition[f.partition].entry_delay_active = f.begin]
  /\ TellNothing
  /\ UNCHANGED keys

HandleTouchpadDisplay ==
  /\ Takes("TOUCHPAD_DISPLAY")
  /\ LET f == Head(line)
         p == f.partition
     IN /\ self' = [self EXCEPT !.partition[p] =
             [@ EXCEPT !.active = TRUE, !.touchpad_text = f.text]]
        /\ IF Announces(p, "touchpad_text", f.text)
           THEN TellPartition(p, {"touchpad_text"})
           ELSE TellNothing
  /\ UNCHANGED keys

HandleFeatureState ==
  /\ Takes("FEATURE_STATE")
  /\ LET f == Head(line)
         p == f.partition
     IN /\ self' = [self EXCEPT !.partition[p] =
             [@ EXCEPT !.active = TRUE, !.feature_state = f.state]]
        /\ IF Announces(p, "feature_state", f.state)
           THEN TellPartition(p, {"feature_state"})
           ELSE TellNothing
  /\ UNCHANGED keys

\* The siren.  A burst of beeps (repeat # 0) is announced by SIREN_GO only,
\* which names no partition: it is for the one last set up.
Siren == {"siren_repeat", "siren_cadence", "siren_started_at"}

\* Variant: SIREN_GO is for the first partition.
SirenGoFirst == 1

SirenGoPartition == self.siren_go_partition_id

HandleSirenSetup ==
  /\ Takes("SIREN_SETUP")
  /\ LET f == Head(line)
         p == f.partition
     IN /\ self' = [self EXCEPT !.siren_go_partition_id = p, !.partition[p] =
             [@ EXCEPT !.active = TRUE, !.siren_repeat = f.repeat, !.siren_cadence = TRUE,
                       !.siren_started_at = TRUE]]
        /\ IF f.repeat = 0 THEN TellPartition(p, Siren) ELSE TellNothing
  /\ UNCHANGED keys

HandleSirenGo ==
  /\ Takes("SIREN_GO")
  /\ UNCHANGED self
  /\ LET p == SirenGoPartition
     IN IF p \in Partitions /\ self.partition[p].siren_cadence
        THEN TellPartition(p, Siren)
        ELSE TellNothing
  /\ UNCHANGED keys

HandleSirenStop ==
  /\ Takes("SIREN_STOP")
  /\ LET p == Head(line).partition
     IN /\ self' = [self EXCEPT !.partition[p].siren_cadence = FALSE]
        /\ TellPartition(p, {"siren_cadence"})
  /\ UNCHANGED keys

\* PTA_SUBCMD2_LIGHTS_STATE: the lights that differ are taken in order, up to
\* the first one that is announced (the loop ends there).
LightsDiffering(p, on) ==
  {l \in Lights : self.light[p][l].state # on[l]}

\* Variant: nothing is taken while a refresh is pending.
LightsTakenWhenIdle(p, on) ==
  [taken |-> IF self.refresh_pending THEN {} ELSE LightsDiffering(p, on),
   told |-> IF self.refresh_pending THEN {} ELSE LightsDiffering(p, on)]

LightsTaken(p, on) ==
  LET differ == LightsDiffering(p, on)
      told   == {l \in differ : ~ self.refresh_pending /\ self.light[p][l].changed}
  IN [taken |-> {l \in differ : \A t \in told : l <= t},
      told  |-> {l \in told : \A t \in told : l <= t}]

HandleLightsState ==
  /\ Takes("LIGHTS_STATE")
  /\ LET f == Head(line)
         p == f.partition
         lights == LightsTaken(p, f.on)
     IN /\ self' = [self EXCEPT !.light[p] = [l \in Lights |->
             IF l \in lights.taken THEN [state |-> f.on[l], changed |-> TRUE] ELSE @[l]]]
        /\ TellLights(p, lights.told)
  /\ UNCHANGED keys

HandleUserLights ==
  /\ Takes("USER_LIGHTS")
  /\ LET f == Head(line)
     IN /\ self' = [self EXCEPT !.light[f.partition][f.light] = [state |-> f.on, changed |-> TRUE]]
        /\ TellLights(f.partition, {f.light})
  /\ UNCHANGED keys

\* PTA_SUBCMD_ALARM_TROUBLE with OUTPUT_ON or OUTPUT_OFF.
HandleOutputEvent ==
  /\ Takes("OUTPUT_EVENT")
  /\ LET f == Head(line)
     IN IF self.output[f.output].state = f.on
        THEN UNCHANGED self /\ TellNothing
        ELSE /\ self' = [self EXCEPT !.output[f.output] = [active |-> TRUE, state |-> f.on]]
             /\ TellOutput(f.output)
  /\ UNCHANGED keys

\* PTA_SUBCMD_ALARM_TROUBLE with SYSTEM_CONFIG_CHANGE: the change is announced
\* as one of the system, whose signal has no such key.
HandleProgrammingMode ==
  /\ Takes("PROGRAMMING_MODE")
  /\ self' = [self EXCEPT !.partition[Head(line).partition].programming_mode = Head(line).begin]
  /\ TellNothing
  /\ UNCHANGED keys

-----------------------------------------------------------------------------
(* Client requests.  What the answer to a request is: "OK" means that keys *)
(* are pressed, and is final when the panel has ACKed them.                *)

Quiet == line = <<>> /\ listing = <<>> /\ keys = <<>>

\* concordd_set_light()
LightStatus(p, l) ==
  CASE self.refresh_pending -> "WAIT"
    [] ~ self.refresh_pending /\ ~ self.partition[p].active -> "INVALID_ARGUMENT"
    [] ~ self.refresh_pending /\ self.partition[p].active ->
         IF self.partition[p].programming_mode THEN "ERROR" ELSE "OK"

\* Variant: an output that is on is switched on once more.
OutputAlreadyOff(o, on) == ~ on /\ ~ self.output[o].state

OutputAlready(o, on) == self.output[o].state = on

\* concordd_set_output(): the same keys for on and off.
OutputStatus(o, on) ==
  IF self.refresh_pending THEN "WAIT"
  ELSE IF ~ self.output[o].active THEN "INVALID_ARGUMENT"
  ELSE IF OutputAlready(o, on) THEN "ALREADY"
  ELSE IF self.partition[1].programming_mode THEN "ERROR" ELSE "OK"

\* concordd_set_zone_bypass() for the system user: the same keys both ways.
BypassStatus(z, bypass) ==
  LET p == self.zone[z].partition_id
  IN IF self.refresh_pending THEN "WAIT"
     ELSE IF ~ self.zone[z].active THEN "INVALID_ARGUMENT"
     ELSE IF p \notin Partitions \/ ~ self.partition[p].active THEN "INVALID_ARGUMENT"
     ELSE IF self.partition[p].programming_mode THEN "ERROR"
     ELSE IF ("BYPASSED" \in self.zone[z].state) = bypass THEN "ALREADY"
     ELSE IF self.user_code = "inactive" THEN "INVALID_ARGUMENT"
     ELSE IF self.user_code = "" THEN "ERROR" ELSE "OK"

\* A siren that was set up for good, by the daemon's account.
SirenIsOn(p) == self.partition[p].siren_repeat = 0 /\ self.partition[p].siren_started_at

\* Variants: a partition armed higher is armed enough; the siren is not asked about.
ArmedAlreadyAtLeast(p, level) ==
  /\ self.partition[p].arm_level >= level
  /\ ~ SirenIsOn(p)
  /\ ~ (self.partition[p].entry_delay_active /\ level = 1)

ArmedAlreadyWithSiren(p, level) ==
  /\ self.partition[p].arm_level = level
  /\ ~ (self.partition[p].entry_delay_active /\ level = 1)

ArmedAlready(p, level) ==
  /\ self.partition[p].arm_level = level
  /\ ~ SirenIsOn(p)
  /\ ~ (self.partition[p].entry_delay_active /\ level = 1)

\* concordd_set_arm_level()
ArmStatus(p, level) ==
  LET part == self.partition[p]
  IN IF ~ part.active THEN "INVALID_ARGUMENT"
     ELSE IF SirenIsOn(p) /\ level # 1 THEN "FORBIDDEN"
     ELSE IF ArmedAlready(p, level) THEN "ALREADY"
     ELSE IF part.programming_mode THEN "ERROR" ELSE "OK"

\* concordd_press_keys() queues the message of a request that is "OK".
Answers(status, msg) ==
  /\ keys' = IF status = "OK" THEN Append(keys, msg) ELSE keys
  /\ UNCHANGED <<self, line, real, listing, view, plan>>

Calls(request) ==
  /\ request \in plan.requests
  /\ Len(keys) < MaxKeys
  /\ plan.hasty \/ Quiet

SetOutput(o, on) ==
  /\ Calls("output")
  /\ Answers(OutputStatus(o, on), [cmd |-> "OUTPUT", output |-> o])
  /\ asked' = IF OutputStatus(o, on) \in {"OK", "ALREADY"}
              THEN [asked EXCEPT !.output[o] = {on}] ELSE asked

SetArmLevel(p, level) ==
  /\ Calls("arm")
  /\ Answers(ArmStatus(p, level), [cmd |-> "ARM", partition |-> p, level |-> level])
  /\ asked' = IF ArmStatus(p, level) \in {"OK", "ALREADY"}
              THEN [asked EXCEPT !.arm[p] = {level}] ELSE asked

SetLight(p, l, on) ==
  /\ Calls("light")
  /\ Answers(LightStatus(p, l), [cmd |-> "LIGHT", partition |-> p, light |-> l, on |-> on])
  /\ UNCHANGED asked

SetZoneBypass(z, bypass) ==
  /\ Calls("bypass")
  /\ Answers(BypassStatus(z, bypass), [cmd |-> "BYPASS", zone |-> z])
  /\ UNCHANGED asked

\* No refresh is under way or will be asked for by the panel.
RefreshIdle ==
  /\ ~ self.refresh_pending
  /\ \A i \in 1 .. Len(line) : line[i].cmd # "CLEAR_AUTOMATION_DYNAMIC_IMAGE"

Refresh ==
  /\ "refresh" \in plan.requests /\ Len(keys) < MaxKeys
  /\ plan.overlap \/ RefreshIdle
  /\ EquipmentRefresh
  /\ UNCHANGED <<line, real, listing, asked, plan>>
=============================================================================
