----------------------------- MODULE PanelWorld -----------------------------
(***************************************************************************)
(* The daemon's image of the panel (PanelImage) together with the panel it *)
(* is an image of.  The panel reports what happens to it, lists everything *)
(* on request, and obeys key presses; its reports arrive in order.  None of*)
(* this is concordd code: it is what the handlers of concordd.c take the   *)
(* panel to do.                                                            *)
(***************************************************************************)
EXTENDS PanelImage

Reports(frames) ==
  /\ Len(line) + Len(frames) <= plan.line
  /\ line' = line \o frames

\* A report about thing i, with what it is like at this moment.
Report(cmd, i) ==
  CASE cmd \in {"ZONE_STATUS", "EQUIP_LIST_ZONE_DATA"} ->
         [cmd |-> cmd, zone |-> i, state |-> real.zone[i], partition |-> 1]
    [] cmd \in {"LEVEL", "EQUIP_LIST_PARTITION_DATA"} ->
         [cmd |-> cmd, partition |-> i, level |-> real.arm[i]]
    [] cmd = "EQUIP_LIST_OUTPUT_DATA" -> [cmd |-> cmd, output |-> i, state |-> real.output[i]]
    [] cmd = "EQUIP_LIST_SUPERBUS_DEV_DATA" -> [cmd |-> cmd, device |-> i]
    [] cmd = "EQUIP_LIST_LIGHT_TO_SENSOR_DATA" -> [cmd |-> cmd, partition |-> i]
    [] cmd = "EQUIP_LIST_USER_DATA" -> [cmd |-> cmd, code |-> "set"]
    [] cmd = "LIGHTS_STATE" -> [cmd |-> cmd, partition |-> i, on |-> real.light[i]]
    [] OTHER -> [cmd |-> cmd]

Each(cmd, things) == LET s == SetToSeq(things) IN [n \in DOMAIN s |-> <<cmd, s[n]>>]

LitPartitions == IF plan.topics \intersect {"lights", "light", "userlights"} # {} THEN plan.partitions ELSE {}

EquipmentList ==
  Each("EQUIP_LIST_PARTITION_DATA", plan.partitions) \o Each("EQUIP_LIST_ZONE_DATA", plan.zones)
  \o Each("EQUIP_LIST_OUTPUT_DATA", plan.outputs)
  \o Each("EQUIP_LIST_SUPERBUS_DEV_DATA", Devices)
  \o Each("EQUIP_LIST_USER_DATA", IF "bypass" \in plan.requests THEN {0} ELSE {})
  \o Each("EQUIP_LIST_LIGHT_TO_SENSOR_DATA", LitPartitions)
  \o <<<<"EQUIP_LIST_COMPLETE", 0>>>>

DynamicData ==
  Each("ZONE_STATUS", plan.zones) \o Each("LEVEL", plan.partitions)
  \o Each("LIGHTS_STATE", LitPartitions)
  \o <<<<"TIME_AND_DATE", 0>>>>

\* The panel reports a list entry by entry, its events in between.
PanelLists ==
  /\ listing # <<>>
  /\ Reports(<<Report(Head(listing)[1], Head(listing)[2])>>)
  /\ listing' = Tail(listing)
  /\ UNCHANGED <<self, keys, real, view, asked, plan>>

\* The panel obeys the next message, and reports what it did.
Obeys(cmd) == keys # <<>> /\ Head(keys).cmd = cmd /\ keys' = Tail(keys) /\ UNCHANGED <<self, view, asked, plan>>

PanelListsOnRequest ==
  /\ listing = <<>>
  /\ \/ Obeys("EQUIP_LIST_REQUEST") /\ listing' = EquipmentList
     \/ Obeys("DYNAMIC_DATA_REFRESH") /\ listing' = DynamicData
  /\ UNCHANGED <<line, real>>

PanelTogglesOutput ==
  /\ Obeys("OUTPUT")
  /\ LET o == Head(keys).output
     IN /\ real' = [real EXCEPT !.output[o] = ~ @]
        /\ Reports(<<[cmd |-> "OUTPUT_EVENT", output |-> o, on |-> ~ real.output[o]]>>)
  /\ UNCHANGED listing

PanelTogglesBypass ==
  /\ Obeys("BYPASS")
  /\ LET z   == Head(keys).zone
         now == IF "BYPASSED" \in real.zone[z] THEN real.zone[z] \ {"BYPASSED"}
                ELSE real.zone[z] \union {"BYPASSED"}
     IN /\ real' = [real EXCEPT !.zone[z] = now]
        /\ Reports(<<[cmd |-> "ZONE_STATUS", zone |-> z, state |-> now]>>)
  /\ UNCHANGED listing

SirenStops(p) == IF real.siren[p] THEN <<[cmd |-> "SIREN_STOP", partition |-> p]>> ELSE <<>>

PanelArms ==
  /\ Obeys("ARM")
  /\ LET p == Head(keys).partition
         l == Head(keys).level
     IN /\ real' = [real EXCEPT !.arm[p] = l, !.siren[p] = @ /\ l # 1]
        /\ Reports((IF l = 1 THEN SirenStops(p) ELSE <<>>)
                   \o <<[cmd |-> "LEVEL", partition |-> p, level |-> l]>>)
  /\ UNCHANGED listing

\* Light 0 stands for all lights.
PanelSwitchesLight ==
  /\ Obeys("LIGHT")
  /\ LET m   == Head(keys)
         now == [l \in Lights |-> IF m.light \in {0, l} THEN m.on ELSE real.light[m.partition][l]]
     IN /\ real' = [real EXCEPT !.light[m.partition] = now]
        /\ Reports(<<[cmd |-> "LIGHTS_STATE", partition |-> m.partition, on |-> now]>>)
  /\ UNCHANGED listing

\* What happens without the daemon: doors, keypads, timers, alarms.
Happens(topic) == topic \in plan.topics /\ UNCHANGED <<self, keys, listing, view, plan>>

ZoneChanges(z) ==
  /\ Happens("zones")
  /\ \E now \in ZoneStates \ {real.zone[z]} :
       /\ real' = [real EXCEPT !.zone[z] = now]
       /\ Reports(<<[cmd |-> "ZONE_STATUS", zone |-> z, state |-> now]>>)
  /\ UNCHANGED asked

KeyfobPressed(z, code) ==
  /\ Happens("keyfobs")
  /\ Reports(<<[cmd |-> "KEYFOB", zone |-> z, code |-> code]>>)
  /\ UNCHANGED <<real, asked>>

OutputChanges(o) ==
  /\ Happens("outputs")
  /\ real' = [real EXCEPT !.output[o] = ~ @]
  /\ Reports(<<[cmd |-> "OUTPUT_EVENT", output |-> o, on |-> ~ real.output[o]]>>)
  /\ asked' = [asked EXCEPT !.output[o] = {}]

LightsChange(p) ==
  /\ Happens("lights") \/ Happens("light")
  /\ \E now \in [Lights -> BOOLEAN] :
       /\ "lights" \in plan.topics \/ \E l \in Lights : now = [real.light[p] EXCEPT ![l] = ~ @]
       /\ real' = [real EXCEPT !.light[p] = now]
       /\ Reports(<<[cmd |-> "LIGHTS_STATE", partition |-> p, on |-> now]>>)
  /\ UNCHANGED asked

UserLight(p, l) ==
  /\ Happens("userlights")
  /\ real' = [real EXCEPT !.light[p][l] = ~ @]
  /\ Reports(<<[cmd |-> "USER_LIGHTS", partition |-> p, light |-> l, on |-> ~ real.light[p][l]]>>)
  /\ UNCHANGED asked

ArmChanges(p, l) ==
  /\ Happens("arming")
  /\ real' = [real EXCEPT !.arm[p] = l, !.siren[p] = @ /\ l # 1]
  /\ Reports((IF l = 1 THEN SirenStops(p) ELSE <<>>)
             \o <<[cmd |-> "LEVEL", partition |-> p, level |-> l]>>)
  /\ asked' = [asked EXCEPT !.arm[p] = {}]

Delay(p, exit, begin) ==
  /\ Happens("delays")
  /\ Reports(<<[cmd |-> "ENTRY_EXIT_DELAY", partition |-> p, exit |-> exit, begin |-> begin]>>)
  /\ UNCHANGED <<real, asked>>

SirenStarts(p, repeat) ==
  /\ Happens("siren")
  /\ real' = [real EXCEPT !.siren[p] = repeat = 0]
  /\ Reports(<<[cmd |-> "SIREN_SETUP", partition |-> p, repeat |-> repeat], [cmd |-> "SIREN_GO"]>>)
  /\ UNCHANGED asked

SirenTimesOut(p) ==
  /\ Happens("siren") /\ real.siren[p]
  /\ real' = [real EXCEPT !.siren[p] = FALSE]
  /\ Reports(SirenStops(p))
  /\ UNCHANGED asked

ProgrammingChanges(p) ==
  /\ Happens("programming")
  /\ real' = [real EXCEPT !.programming[p] = ~ @]
  /\ Reports(<<[cmd |-> "PROGRAMMING_MODE", partition |-> p, begin |-> ~ real.programming[p]]>>)
  /\ UNCHANGED asked

Displays(p, t) ==
  /\ Happens("touchpad")
  /\ Reports(<<[cmd |-> "TOUCHPAD_DISPLAY", partition |-> p, text |-> t]>>)
  /\ UNCHANGED <<real, asked>>

FeatureChanges(p, on) ==
  /\ Happens("features")
  /\ Reports(<<[cmd |-> "FEATURE_STATE", partition |-> p, state |-> on]>>)
  /\ UNCHANGED <<real, asked>>

\* The panel's event buffer overran: it says that the image is worthless.
LosesEvents ==
  /\ plan.lost /\ Happens("zones")
  /\ Len(keys) < MaxKeys /\ Len(line) < plan.line
  /\ plan.overlap \/ RefreshIdle
  /\ \/ \E z \in plan.zones, now \in ZoneStates : real' = [real EXCEPT !.zone[z] = now]
     \/ \E o \in plan.outputs : real' = [real EXCEPT !.output[o] = ~ @]
     \/ \E p \in plan.partitions, l \in plan.levels : real' = [real EXCEPT !.arm[p] = l]
  /\ Reports(<<[cmd |-> "CLEAR_AUTOMATION_DYNAMIC_IMAGE"]>>)
  /\ asked' = [asked EXCEPT !.output = [o \in Outputs |-> {}],
                           !.arm = [p \in Partitions |-> {}]]

-----------------------------------------------------------------------------
Handle ==
  \/ HandleZoneStatus
  \/ HandleEquipListZoneData
  \/ HandleKeyfob
  \/ HandleEquipListPartitionData
  \/ HandleEquipListOutputData
  \/ HandleEquipListSuperbusDevData
  \/ HandleEquipListUserData
  \/ HandleEquipListLightToSensorData
  \/ HandleEquipListComplete
  \/ HandleClearAutomationDynamicImage
  \/ HandleTimeAndDate
  \/ HandleLevel
  \/ HandleEntryExitDelay
  \/ HandleTouchpadDisplay
  \/ HandleFeatureState
  \/ HandleSirenSetup
  \/ HandleSirenGo
  \/ HandleSirenStop
  \/ HandleLightsState
  \/ HandleUserLights
  \/ HandleOutputEvent
  \/ HandleProgrammingMode

Call ==
  \/ \E o \in Outputs, on \in BOOLEAN : SetOutput(o, on)
  \/ \E p \in Partitions, level \in Levels : SetArmLevel(p, level)
  \/ \E p \in Partitions, l \in Lights, on \in BOOLEAN : SetLight(p, l, on)
  \/ \E z \in Zones, bypass \in BOOLEAN : SetZoneBypass(z, bypass)
  \/ Refresh
  \/ GetInfo

Obey ==
  \/ PanelListsOnRequest
  \/ PanelTogglesOutput
  \/ PanelTogglesBypass
  \/ PanelArms
  \/ PanelSwitchesLight

Happen ==
  \/ \E z \in plan.zones : ZoneChanges(z)
  \/ \E z \in plan.zones, code \in Codes : KeyfobPressed(z, code)
  \/ \E o \in plan.outputs : OutputChanges(o)
  \/ \E p \in plan.partitions : LightsChange(p) \/ SirenTimesOut(p) \/ ProgrammingChanges(p)
  \/ \E p \in plan.partitions, l \in Lights : UserLight(p, l)
  \/ \E p \in plan.partitions, l \in plan.levels : ArmChanges(p, l)
  \/ \E p \in plan.partitions, exit \in BOOLEAN, begin \in BOOLEAN : Delay(p, exit, begin)
  \/ \E p \in plan.partitions, repeat \in {0, 1} : SirenStarts(p, repeat)
  \/ \E p \in plan.partitions, t \in Texts : Displays(p, t)
  \/ \E p \in plan.partitions, on \in BOOLEAN : FeatureChanges(p, on)
  \/ LosesEvents

Next == Handle \/ Call \/ PanelLists \/ Obey \/ Happen

Spec == Init /\ [][Next]_vars

\* The main loop handles every frame that arrives; the panel obeys every
\* message, and what else it has to report does not keep it from its list.
FairSpec ==
  /\ Spec
  /\ WF_vars(Handle)
  /\ SF_vars(PanelLists)
  /\ SF_vars(Obey)

-----------------------------------------------------------------------------
(* Properties.                                                             *)

\* When the panel has nothing more to say, what the daemon shows is what the
\* panel is like: whatever refreshes, resent frames and lost reports came in
\* between, no report was dropped and none was taken out of turn.
QuietImage ==
  Quiet =>
    /\ \A z \in Zones : self.zone[z].active => self.zone[z].state = real.zone[z]
    /\ \A o \in Outputs : self.output[o].active => self.output[o].state = real.output[o]
    /\ \A p \in Partitions : self.partition[p].active => self.partition[p].arm_level = real.arm[p]

\* A client that follows the signals of a partition knows its arm level, text
\* and features at all times, refreshes included.
PartitionViewCurrent ==
  view # <<>> => \A p \in Partitions, f \in {"arm_level", "touchpad_text", "feature_state"} :
    view.partition[p][f] = self.partition[p][f]

\* A client that follows the "changed" signals of the zones knows their state from
\* when it asked for it to the next refresh, whatever lists and CLEARs overlap.
\* The signals alone are not enough: what changes while a zone is inactive is not
\* announced, although "changed" is to tell "the changed keys from `get_info`"
\* (doc/dbus-protocol.md:131-132).
ZoneViewCurrent ==
  view # <<>> => \A z \in view.fresh : view.zone[z] = self.zone[z].state

\* Requests are let in again (refresh_pending) only when all that the panel
\* listed is in the image, every bus device in one entry.
RefreshedCompletely ==
  ~ self.refresh_pending =>
    /\ \A z \in plan.zones : self.zone[z].active
    /\ \A o \in plan.outputs : self.output[o].active
    /\ \A p \in plan.partitions : self.partition[p].active
    /\ Len(self.bus_device) = Cardinality(Devices)
    /\ ToSet(self.bus_device) = Devices

\* A refresh comes to an end: set_light and its like do not answer WAIT for
\* good.  It takes the list, the second request, and its list.
RefreshEnds == self.refresh_pending ~> ~ self.refresh_pending

\* An output ends up the way the last accepted request wanted it, although the
\* keys that are pressed toggle it ("Sets the new value of the output to either
\* on or off.", doc/dbus-protocol.md:171-172).  The caller must have let the
\* panel settle (~ plan.hasty): the request is checked against the last report.
OutputAsAsked ==
  Quiet => \A o \in Outputs : asked.output[o] \subseteq {real.output[o]}

\* A partition ends up at the level of the last accepted request, ALREADY being
\* an acceptance ("Immediately changes the current arm level.",
\* doc/dbus-protocol.md:97-98).  The caller must have let the panel settle.
ArmedAsAsked ==
  Quiet => \A p \in Partitions : asked.arm[p] \subseteq {real.arm[p]}

\* A client that sounds an alarm the way concordctl's keypad does, from
\* sirenRepeat and sirenCadence, sounds it when the panel does.
SirenHeard ==
  Quiet /\ view # <<>> => \A p \in Partitions :
    real.siren[p] <=> view.partition[p].siren_repeat = 0 /\ view.partition[p].siren_cadence

\* While the panel's siren sounds, a request to disarm is never answered
\* ALREADY or refused, whatever arm level the image shows.
DisarmSilences ==
  Quiet => \A p \in Partitions :
    real.siren[p] /\ self.partition[p].active /\ ~ self.partition[p].programming_mode
      => ArmStatus(p, 1) = "OK"

\* "If the siren is on we don't let the arm level change to anything other
\* than 1." (concordd.c:1298-1299): arming is FORBIDDEN only while it sounds.
ForbiddenOnlyBySiren ==
  \A p \in Partitions, l \in Levels :
    ArmStatus(p, l) = "FORBIDDEN" => self.partition[p].siren_cadence

\* When the panel has nothing more to say, every light is stored as the panel
\* has it, also one that changed while a refresh was pending.  The loop over the
\* lights of a report must not stop early ("If this is light zero, we don't
\* bother with the other lights.", concordd.c:515) while others differ.
LightsAsReported ==
  Quiet => \A p \in Partitions : ~ self.refresh_pending =>
    \A l \in Lights : self.light[p][l].state = real.light[p][l]
=============================================================================
