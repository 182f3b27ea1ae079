----------------------------- MODULE OrderProofs -----------------------------
(***************************************************************************)
(* What rests on the order in which the panel's frames are handled: a      *)
(* client that sounds the siren when the panel does, one that follows the  *)
(* zones, the lights of a report, and the end of a refresh.                *)
(***************************************************************************)
EXTENDS PanelProofs

-----------------------------------------------------------------------------
(* What the panel does besides listing.                                    *)

\* Reports about neither sirens nor lights nor a refresh.
PlainCmds == {"ZONE_STATUS", "KEYFOB", "OUTPUT_EVENT", "LEVEL", "ENTRY_EXIT_DELAY",
              "PROGRAMMING_MODE", "TOUCHPAD_DISPLAY", "FEATURE_STATE"}

PlainAct(frames) ==
  /\ real'.siren = real.siren /\ real'.light = real.light
  /\ \A f \in Range(frames) : f.cmd \in PlainCmds

\* A siren stops, by itself or because its partition is disarmed.
StopAct(frames) ==
  \E p \in plan.partitions :
    /\ real'.siren = [real.siren EXCEPT ![p] = FALSE] /\ real'.light = real.light
    /\ [cmd |-> "SIREN_STOP", partition |-> p] \in Range(frames)
    /\ \A f \in Range(frames) :
         f.cmd \in PlainCmds \/ f = [cmd |-> "SIREN_STOP", partition |-> p]

StartAct(frames) ==
  \E p \in plan.partitions, repeat \in {0, 1} :
    /\ real'.siren = [real.siren EXCEPT ![p] = repeat = 0] /\ real'.light = real.light
    /\ frames = <<[cmd |-> "SIREN_SETUP", partition |-> p, repeat |-> repeat],
                  [cmd |-> "SIREN_GO"]>>

\* Lights change: any of them on request, or when the panel changes several at once.
LightsAct(frames) ==
  \E p \in plan.partitions, now \in [Lights -> BOOLEAN] :
    /\ real'.siren = real.siren /\ real'.light = [real.light EXCEPT ![p] = now]
    /\ frames = <<[cmd |-> "LIGHTS_STATE", partition |-> p, on |-> now]>>
    /\ \/ keys # <<>> /\ Head(keys).cmd = "LIGHT"
       \/ "lights" \in plan.topics
       \/ \E l \in Lights : now = [real.light[p] EXCEPT ![l] = ~ real.light[p][l]]

UserLightAct(frames) ==
  \E p \in plan.partitions, l \in Lights, on \in BOOLEAN :
    /\ real'.siren = real.siren
    /\ real'.light = [real.light EXCEPT ![p] = [real.light[p] EXCEPT ![l] = on]]
    /\ frames = <<[cmd |-> "USER_LIGHTS", partition |-> p, light |-> l, on |-> on]>>

LossAct(frames) ==
  /\ LosesEvents
  /\ real'.siren = real.siren /\ real'.light = real.light
  /\ frames = <<[cmd |-> "CLEAR_AUTOMATION_DYNAMIC_IMAGE"]>>

Acts(frames) ==
  /\ frames \in Seq(Frame) /\ Reports(frames) /\ real' \in Panel
  /\ UNCHANGED <<self, listing, view, plan>>
  /\ \/ keys' = keys
     \/ keys # <<>> /\ Head(keys).cmd \notin Requests /\ keys' = Tail(keys)
  /\ \/ PlainAct(frames)
     \/ StopAct(frames)
     \/ StartAct(frames)
     \/ LightsAct(frames)
     \/ UserLightAct(frames)
     \/ LossAct(frames)

\* What all of these leave alone, or do to the messages.
LEMMA ActsKeep ==
  ASSUME PanelTogglesOutput \/ PanelTogglesBypass \/ PanelArms \/ PanelSwitchesLight \/ Happen
  PROVE  /\ UNCHANGED <<self, listing, view, plan>>
         /\ \/ keys' = keys
            \/ keys # <<>> /\ Head(keys).cmd \notin Requests /\ keys' = Tail(keys)
<1>1. CASE PanelTogglesOutput \/ PanelTogglesBypass \/ PanelArms \/ PanelSwitchesLight
  BY <1>1, KeyTaken DEF Requests
<1>2. CASE Happen
  BY <1>2 DEF Happen, Happens, ZoneChanges, KeyfobPressed, OutputChanges, LightsChange,
     SirenTimesOut, ProgrammingChanges, UserLight, ArmChanges, Delay, SirenStarts, Displays,
     FeatureChanges, LosesEvents
<1> QED BY <1>1, <1>2

\* A report of one plain frame,
LEMMA PlainActs ==
  ASSUME Types, NEW f \in Frame, f.cmd \in PlainCmds, Reports(<<f>>),
         \/ real' = real
         \/ \E q \in [Zones -> ZoneStates] : real' = [real EXCEPT !.zone = q]
         \/ \E q \in [Outputs -> BOOLEAN] : real' = [real EXCEPT !.output = q]
         \/ \E q \in [Partitions -> BOOLEAN] : real' = [real EXCEPT !.programming = q]
  PROVE  <<f>> \in Seq(Frame) /\ real' \in Panel /\ PlainAct(<<f>>)
<1>1. real \in Panel
  BY DEF Types, TypeOK
<1>2. real' \in Panel /\ real'.siren = real.siren /\ real'.light = real.light
  BY <1>1 DEF Panel
<1>3. <<f>> \in Seq(Frame) /\ Range(<<f>>) = {f}
  BY RangeOfFrames
<1> QED BY <1>2, <1>3 DEF PlainAct

\* and a change of the arm level, with a siren that stops.
LEMMA ArmActs ==
  ASSUME Types, NEW p \in plan.partitions, NEW l \in Levels,
         real' = [real EXCEPT !.arm[p] = l, !.siren[p] = @ /\ l # 1],
         Reports((IF l = 1 THEN SirenStops(p) ELSE <<>>)
                 \o <<[cmd |-> "LEVEL", partition |-> p, level |-> l]>>)
  PROVE  \E frames \in Seq(Frame) :
           Reports(frames) /\ real' \in Panel /\ (PlainAct(frames) \/ StopAct(frames))
<1> DEFINE f == [cmd |-> "LEVEL", partition |-> p, level |-> l]
           stop == [cmd |-> "SIREN_STOP", partition |-> p]
           stops == IF l = 1 THEN SirenStops(p) ELSE <<>>
           frames == stops \o <<f>>
           on == real.siren[p] /\ l # 1
           arms == [real.arm EXCEPT ![p] = l]
           sirens == [real.siren EXCEPT ![p] = on]
<1>1. p \in Partitions /\ real \in Panel
  BY PlanThings DEF Types, TypeOK
<1>2. f \in LevelFrame /\ stop \in PlainPartition
  BY DEF LevelFrame, PlainPartition
<1>3. f \in Frame /\ f.cmd = "LEVEL" /\ stop \in Frame
  BY <1>2, FrameKinds
<1>4. arms \in [Partitions -> Levels] /\ sirens \in [Partitions -> BOOLEAN]
  BY <1>1, RealParts
<1>5. real' = [real EXCEPT !.arm = arms, !.siren = sirens]
  BY <1>1 DEF Panel
<1>6. real' \in Panel /\ real'.siren = sirens /\ real'.light = real.light
  <2> HIDE DEF arms, sirens
  <2> QED BY <1>1, <1>4, <1>5 DEF Panel
<1>7. Reports(frames)
  OBVIOUS
<1>8. CASE l = 1 /\ real.siren[p]
  <2>1. stops = <<stop>>
    BY <1>8 DEF SirenStops
  <2>2. frames = <<stop, f>>
    <3> HIDE DEF stop, f, stops
    <3> QED BY <2>1, Joined, Zenon
  <2>3. sirens = [real.siren EXCEPT ![p] = FALSE]
    BY <1>8
  <2> HIDE DEF frames, f, sirens
  <2>4. frames \in Seq(Frame) /\ Range(frames) = {stop, f}
    BY <1>3, <2>2, RangeOfFrames
  <2>5. StopAct(frames)
    BY <1>3, <1>6, <2>3, <2>4 DEF StopAct, PlainCmds
  <2> QED BY <1>6, <1>7, <2>4, <2>5
<1>9. CASE ~ (l = 1 /\ real.siren[p])
  <2>1. stops = <<>>
    BY <1>9 DEF SirenStops
  <2>2. frames = <<f>>
    <3> HIDE DEF f, stops
    <3> QED BY <2>1, Joined, Zenon
  <2>3. sirens = real.siren
    <3>1. on = real.siren[p]
      BY <1>1, <1>9, RealParts
    <3> QED BY <1>1, <3>1, RealParts
  <2> HIDE DEF frames, f, sirens
  <2>4. frames \in Seq(Frame) /\ Range(frames) = {f}
    BY <1>3, <2>2, RangeOfFrames
  <2>5. PlainAct(frames)
    BY <1>3, <1>6, <2>3, <2>4 DEF PlainAct, PlainCmds
  <2> QED BY <1>6, <1>7, <2>4, <2>5
<1> QED BY <1>8, <1>9

\* Lights change, one or all of a partition.
LEMMA LitActs ==
  ASSUME Types, NEW p \in plan.partitions, NEW now \in [Lights -> BOOLEAN],
         real' = [real EXCEPT !.light[p] = now]
  PROVE  /\ real' \in Panel /\ real'.siren = real.siren
         /\ real'.light = [real.light EXCEPT ![p] = now]
<1> DEFINE q == [real.light EXCEPT ![p] = now]
<1>1. p \in Partitions /\ real \in Panel
  BY PlanThings DEF Types, TypeOK
<1>2. q \in [Partitions -> [Lights -> BOOLEAN]]
  BY <1>1, RealParts
<1>3. real' = [real EXCEPT !.light = q]
  BY <1>1 DEF Panel
<1> HIDE DEF q
<1>4. real' \in Panel /\ real'.siren = real.siren /\ real'.light = q
  BY <1>1, <1>2, <1>3 DEF Panel
<1> QED BY <1>4 DEF q

\* A message that presses keys is obeyed and reported.
LEMMA ObeysActs ==
  ASSUME Types, PanelTogglesOutput \/ PanelTogglesBypass \/ PanelArms \/ PanelSwitchesLight
  PROVE  \E frames : Acts(frames)
<1>1. /\ real \in Panel /\ plan.zones \subseteq Zones /\ plan.outputs \subseteq Outputs
      /\ plan.partitions \subseteq Partitions
  BY PlanThings DEF Types, TypeOK
<1>2. Head(keys) \in Key
  <2>1. keys \in Seq(Key) /\ keys # <<>>
    BY DEF Types, PanelTogglesOutput, PanelTogglesBypass, PanelArms, PanelSwitchesLight, Obeys
  <2> QED BY <2>1
<1>3. ASSUME NEW frames \in Seq(Frame), Reports(frames), real' \in Panel,
             PlainAct(frames) \/ StopAct(frames) \/ LightsAct(frames)
      PROVE  \E fs : Acts(fs)
  BY <1>3, ActsKeep DEF Acts
<1>4. CASE PanelTogglesOutput
  <2> DEFINE o == Head(keys).output
             f == [cmd |-> "OUTPUT_EVENT", output |-> o, on |-> ~ real.output[o]]
             q == [real.output EXCEPT ![o] = ~ real.output[o]]
  <2>1. o \in plan.outputs /\ Reports(<<f>>)
    BY <1>2, <1>4, KeyFields DEF PanelTogglesOutput, Obeys
  <2>2. q \in [Outputs -> BOOLEAN] /\ real' = [real EXCEPT !.output = q]
    BY <1>1, <1>4, <2>1, RealParts DEF PanelTogglesOutput, Panel
  <2>3. f \in OutputFrame
    BY <2>1 DEF OutputFrame
  <2>4. f \in Frame /\ f.cmd \in PlainCmds
    BY <2>3, FrameKinds DEF PlainCmds
  <2> HIDE DEF f, q
  <2> QED BY <1>3, <2>1, <2>2, <2>4, PlainActs
<1>5. CASE PanelTogglesBypass
  <2> DEFINE z == Head(keys).zone
             now == IF "BYPASSED" \in real.zone[z] THEN real.zone[z] \ {"BYPASSED"}
                    ELSE real.zone[z] \union {"BYPASSED"}
             f == [cmd |-> "ZONE_STATUS", zone |-> z, state |-> now]
             q == [real.zone EXCEPT ![z] = now]
  <2>1. /\ Reports(<<f>>) /\ real' = [real EXCEPT !.zone[z] = now] /\ Head(keys).cmd = "BYPASS"
    BY <1>5 DEF PanelTogglesBypass, Obeys
  <2>2. z \in plan.zones /\ now \in ZoneStates
    BY <1>1, <1>2, <2>1, KeyFields, RealParts DEF ZoneStates
  <2>3. f \in ZoneFrame
    BY <2>2 DEF ZoneFrame
  <2>4. f \in Frame /\ f.cmd \in PlainCmds
    BY <2>3, FrameKinds DEF PlainCmds
  <2> HIDE DEF f, now
  <2>5. q \in [Zones -> ZoneStates] /\ real' = [real EXCEPT !.zone = q]
    BY <1>1, <2>1, <2>2, RealParts DEF Panel
  <2> HIDE DEF q
  <2> QED BY <1>3, <2>1, <2>4, <2>5, PlainActs
<1>6. CASE PanelArms
  <2>1. Head(keys).partition \in plan.partitions /\ Head(keys).level \in Levels
    BY <1>2, <1>6, KeyFields DEF PanelArms, Obeys
  <2>2. \E frames \in Seq(Frame) :
          Reports(frames) /\ real' \in Panel /\ (PlainAct(frames) \/ StopAct(frames))
    BY <1>6, <2>1, ArmActs DEF PanelArms
  <2> QED BY <1>3, <2>2
<1>7. CASE PanelSwitchesLight
  <2> DEFINE m == Head(keys)
             now == [l \in Lights |-> IF m.light \in {0, l} THEN m.on ELSE real.light[m.partition][l]]
             f == [cmd |-> "LIGHTS_STATE", partition |-> m.partition, on |-> now]
  <2>1. /\ keys # <<>> /\ m.cmd = "LIGHT" /\ Reports(<<f>>)
        /\ real' = [real EXCEPT !.light[m.partition] = now]
    BY <1>7 DEF PanelSwitchesLight, Obeys
  <2>2. m.partition \in plan.partitions /\ m.on \in BOOLEAN
    BY <1>2, <2>1, KeyFields
  <2>3. now \in [Lights -> BOOLEAN]
    BY <1>1, <2>2, RealParts
  <2>4. f \in LightsFrame
    BY <2>2, <2>3 DEF LightsFrame
  <2> HIDE DEF now
  <2>5. <<f>> \in Seq(Frame)
    BY <2>4, FrameKinds
  <2>6. LightsAct(<<f>>) /\ real' \in Panel
    BY <2>1, <2>2, <2>3, LitActs DEF LightsAct
  <2> QED BY <1>3, <2>1, <2>5, <2>6
<1> QED BY <1>4, <1>5, <1>6, <1>7

\* What happens at the panel is reported.
LEMMA HappensActs ==
  ASSUME Types, Happen
  PROVE  \E frames : Acts(frames)
<1>1. /\ real \in Panel /\ plan.zones \subseteq Zones /\ plan.outputs \subseteq Outputs
      /\ plan.partitions \subseteq Partitions /\ plan.levels \subseteq Levels
  BY PlanThings DEF Types, TypeOK
<1>2. ASSUME NEW frames \in Seq(Frame), Reports(frames), real' \in Panel,
             \/ PlainAct(frames) \/ StopAct(frames) \/ StartAct(frames)
             \/ LightsAct(frames) \/ UserLightAct(frames) \/ LossAct(frames)
      PROVE  \E fs : Acts(fs)
  BY <1>2, ActsKeep DEF Acts
<1>3. ASSUME NEW f \in Frame, f.cmd \in PlainCmds, Reports(<<f>>),
             \/ real' = real
             \/ \E q \in [Zones -> ZoneStates] : real' = [real EXCEPT !.zone = q]
             \/ \E q \in [Outputs -> BOOLEAN] : real' = [real EXCEPT !.output = q]
             \/ \E q \in [Partitions -> BOOLEAN] : real' = [real EXCEPT !.programming = q]
      PROVE  \E fs : Acts(fs)
  BY <1>2, <1>3, PlainActs
<1>4. ASSUME NEW z \in plan.zones, ZoneChanges(z) PROVE \E fs : Acts(fs)
  <2>1. PICK now \in ZoneStates : /\ real' = [real EXCEPT !.zone[z] = now]
                                  /\ Reports(<<[cmd |-> "ZONE_STATUS", zone |-> z, state |-> now]>>)
    BY <1>4 DEF ZoneChanges
  <2> DEFINE f == [cmd |-> "ZONE_STATUS", zone |-> z, state |-> now]
             q == [real.zone EXCEPT ![z] = now]
  <2>2. f \in ZoneFrame
    BY DEF ZoneFrame
  <2>3. f \in Frame /\ f.cmd \in PlainCmds
    BY <2>2, FrameKinds DEF PlainCmds
  <2>4. q \in [Zones -> ZoneStates] /\ real' = [real EXCEPT !.zone = q]
    BY <1>1, <2>1, RealParts DEF Panel
  <2>5. Reports(<<f>>)
    BY <2>1
  <2> HIDE DEF f, q
  <2> QED BY <1>3, <2>3, <2>4, <2>5
<1>5. ASSUME NEW z \in plan.zones, NEW code \in Codes, KeyfobPressed(z, code)
      PROVE  \E fs : Acts(fs)
  <2> DEFINE f == [cmd |-> "KEYFOB", zone |-> z, code |-> code]
  <2>1. f \in KeyfobFrame
    BY DEF KeyfobFrame
  <2>2. f \in Frame /\ f.cmd \in PlainCmds
    BY <2>1, FrameKinds DEF PlainCmds
  <2>3. Reports(<<f>>) /\ real' = real
    BY <1>5 DEF KeyfobPressed
  <2> HIDE DEF f
  <2> QED BY <1>3, <2>2, <2>3
<1>6. ASSUME NEW o \in plan.outputs, OutputChanges(o) PROVE \E fs : Acts(fs)
  <2> DEFINE f == [cmd |-> "OUTPUT_EVENT", output |-> o, on |-> ~ real.output[o]]
             q == [real.output EXCEPT ![o] = ~ real.output[o]]
  <2>1. f \in OutputFrame
    BY DEF OutputFrame
  <2>2. f \in Frame /\ f.cmd \in PlainCmds
    BY <2>1, FrameKinds DEF PlainCmds
  <2>3. q \in [Outputs -> BOOLEAN] /\ real' = [real EXCEPT !.output = q] /\ Reports(<<f>>)
    BY <1>1, <1>6, RealParts DEF OutputChanges, Panel
  <2> HIDE DEF f, q
  <2> QED BY <1>3, <2>2, <2>3
<1>7. ASSUME NEW p \in plan.partitions, LightsChange(p) PROVE \E fs : Acts(fs)
  <2>1. PICK now \in [Lights -> BOOLEAN] :
          /\ "lights" \in plan.topics \/ \E l \in Lights : now = [real.light[p] EXCEPT ![l] = ~ @]
          /\ real' = [real EXCEPT !.light[p] = now]
          /\ Reports(<<[cmd |-> "LIGHTS_STATE", partition |-> p, on |-> now]>>)
    BY <1>7 DEF LightsChange
  <2> DEFINE f == [cmd |-> "LIGHTS_STATE", partition |-> p, on |-> now]
  <2>2. f \in LightsFrame
    BY DEF LightsFrame
  <2>3. <<f>> \in Seq(Frame)
    BY <2>2, FrameKinds
  <2>4. real' \in Panel /\ LightsAct(<<f>>)
    BY <2>1, LitActs DEF LightsAct
  <2> QED BY <1>2, <2>1, <2>3, <2>4
<1>8. ASSUME NEW p \in plan.partitions, SirenTimesOut(p) PROVE \E fs : Acts(fs)
  <2> DEFINE f == [cmd |-> "SIREN_STOP", partition |-> p]
             q == [real.siren EXCEPT ![p] = FALSE]
  <2>1. f \in PlainPartition
    BY DEF PlainPartition
  <2>2. f \in Frame
    BY <2>1, FrameKinds
  <2>3. q \in [Partitions -> BOOLEAN] /\ real' = [real EXCEPT !.siren = q]
    BY <1>1, <1>8, RealParts DEF SirenTimesOut
  <2>4. Reports(<<f>>)
    BY <1>8 DEF SirenTimesOut, SirenStops
  <2>5. <<f>> \in Seq(Frame) /\ Range(<<f>>) = {f}
    <3> HIDE DEF f
    <3> QED BY <2>2, RangeOfFrames
  <2> HIDE DEF q
  <2>6. real' \in Panel /\ real'.siren = q /\ real'.light = real.light
    BY <1>1, <2>3 DEF Panel
  <2>7. StopAct(<<f>>)
    BY <2>5, <2>6 DEF StopAct, q
  <2> QED BY <1>2, <2>4, <2>5, <2>6, <2>7
<1>9. ASSUME NEW p \in plan.partitions, ProgrammingChanges(p) PROVE \E fs : Acts(fs)
  <2> DEFINE f == [cmd |-> "PROGRAMMING_MODE", partition |-> p, begin |-> ~ real.programming[p]]
             q == [real.programming EXCEPT ![p] = ~ real.programming[p]]
  <2>1. f \in ModeFrame
    BY DEF ModeFrame
  <2>2. f \in Frame /\ f.cmd \in PlainCmds
    BY <2>1, FrameKinds DEF PlainCmds
  <2>3. q \in [Partitions -> BOOLEAN] /\ real' = [real EXCEPT !.programming = q] /\ Reports(<<f>>)
    BY <1>1, <1>9, RealParts DEF ProgrammingChanges, Panel
  <2> HIDE DEF f, q
  <2> QED BY <1>3, <2>2, <2>3
<1>10. ASSUME NEW p \in plan.partitions, NEW l \in Lights, UserLight(p, l) PROVE \E fs : Acts(fs)
  <2> DEFINE on == ~ real.light[p][l]
             f == [cmd |-> "USER_LIGHTS", partition |-> p, light |-> l, on |-> on]
             now == [real.light[p] EXCEPT ![l] = on]
  <2>1. f \in LightFrame
    BY DEF LightFrame
  <2>2. <<f>> \in Seq(Frame)
    BY <2>1, FrameKinds
  <2>3. now \in [Lights -> BOOLEAN]
    BY <1>1, RealParts
  <2>4. real' = [real EXCEPT !.light[p] = now] /\ Reports(<<f>>)
    BY <1>1, <1>10, RealParts DEF UserLight, Panel
  <2> HIDE DEF now
  <2>5. real' \in Panel /\ real'.siren = real.siren /\ real'.light = [real.light EXCEPT ![p] = now]
    BY <2>3, <2>4, LitActs
  <2>6. UserLightAct(<<f>>)
    BY <2>5 DEF UserLightAct, now
  <2> QED BY <1>2, <2>2, <2>4, <2>5, <2>6
<1>11. ASSUME NEW p \in plan.partitions, NEW l \in plan.levels, ArmChanges(p, l)
       PROVE  \E fs : Acts(fs)
  <2>1. l \in Levels
    BY <1>1
  <2>2. \E frames \in Seq(Frame) :
          Reports(frames) /\ real' \in Panel /\ (PlainAct(frames) \/ StopAct(frames))
    BY <1>11, <2>1, ArmActs DEF ArmChanges
  <2> QED BY <1>2, <2>2
<1>12. ASSUME NEW p \in plan.partitions, NEW exit \in BOOLEAN, NEW begin \in BOOLEAN,
              Delay(p, exit, begin)
       PROVE  \E fs : Acts(fs)
  <2> DEFINE f == [cmd |-> "ENTRY_EXIT_DELAY", partition |-> p, exit |-> exit, begin |-> begin]
  <2>1. f \in DelayFrame
    BY DEF DelayFrame
  <2>2. f \in Frame /\ f.cmd \in PlainCmds
    BY <2>1, FrameKinds DEF PlainCmds
  <2>3. Reports(<<f>>) /\ real' = real
    BY <1>12 DEF Delay
  <2> HIDE DEF f
  <2> QED BY <1>3, <2>2, <2>3
<1>13. ASSUME NEW p \in plan.partitions, NEW repeat \in {0, 1}, SirenStarts(p, repeat)
       PROVE  \E fs : Acts(fs)
  <2> DEFINE frames == <<[cmd |-> "SIREN_SETUP", partition |-> p, repeat |-> repeat],
                         [cmd |-> "SIREN_GO"]>>
             on == repeat = 0
             q == [real.siren EXCEPT ![p] = on]
  <2>1. Moves(frames)
    BY <1>13, SirenStartMoves
  <2>2. q \in [Partitions -> BOOLEAN] /\ real' = [real EXCEPT !.siren = q]
    BY <1>1, <1>13, RealParts DEF SirenStarts, Panel
  <2> HIDE DEF q
  <2>3. real' \in Panel /\ real'.siren = q /\ real'.light = real.light
    BY <1>1, <2>2 DEF Panel
  <2>4. StartAct(frames)
    BY <2>3 DEF StartAct, q
  <2>5. frames \in Seq(Frame) /\ Reports(frames)
    BY <2>1 DEF Moves
  <2> QED BY <1>2, <2>3, <2>4, <2>5
<1>14. ASSUME NEW p \in plan.partitions, NEW t \in Texts, Displays(p, t) PROVE \E fs : Acts(fs)
  <2> DEFINE f == [cmd |-> "TOUCHPAD_DISPLAY", partition |-> p, text |-> t]
  <2>1. f \in TextFrame
    BY DEF TextFrame
  <2>2. f \in Frame /\ f.cmd \in PlainCmds
    BY <2>1, FrameKinds DEF PlainCmds
  <2>3. Reports(<<f>>) /\ real' = real
    BY <1>14 DEF Displays
  <2> HIDE DEF f
  <2> QED BY <1>3, <2>2, <2>3
<1>15. ASSUME NEW p \in plan.partitions, NEW on \in BOOLEAN, FeatureChanges(p, on)
       PROVE  \E fs : Acts(fs)
  <2> DEFINE f == [cmd |-> "FEATURE_STATE", partition |-> p, state |-> on]
  <2>1. f \in FeatureFrame
    BY DEF FeatureFrame
  <2>2. f \in Frame /\ f.cmd \in PlainCmds
    BY <2>1, FrameKinds DEF PlainCmds
  <2>3. Reports(<<f>>) /\ real' = real
    BY <1>15 DEF FeatureChanges
  <2> HIDE DEF f
  <2> QED BY <1>3, <2>2, <2>3
<1>16. CASE LosesEvents
  <2> DEFINE frames == <<[cmd |-> "CLEAR_AUTOMATION_DYNAMIC_IMAGE"]>>
  <2>1. Moves(frames)
    BY <1>16, LossMoves
  <2>2. frames \in Seq(Frame) /\ Reports(frames) /\ real' \in Panel
    BY <2>1 DEF Moves
  <2>3. real'.siren = real.siren /\ real'.light = real.light
    BY <1>1, <1>16 DEF LosesEvents, Panel
  <2>4. LossAct(frames)
    BY <1>16, <2>3 DEF LossAct
  <2> QED BY <1>2, <2>2, <2>4
<1> QED BY <1>4, <1>5, <1>6, <1>7, <1>8, <1>9, <1>10, <1>11, <1>12, <1>13, <1>14, <1>15, <1>16
        DEF Happen

\* A step of the panel lists, begins to list, or acts.
LEMMA PanelSteps ==
  ASSUME Types, PanelLists \/ Obey \/ Happen
  PROVE  PanelLists \/ PanelListsOnRequest \/ \E frames : Acts(frames)
BY ObeysActs, HappensActs DEF Obey

\* Any reported act leaves a line that is the line before and the report.
LEMMA ActsLine ==
  ASSUME Types, NEW frames, Acts(frames)
  PROVE  /\ line \in Seq(Frame) /\ frames \in Seq(Frame) /\ line' = line \o frames
         /\ Frame' = Frame
BY SamePlan DEF Types, Acts, Reports

-----------------------------------------------------------------------------
(* A client that sounds an alarm.                                          *)

\* The frames about a siren, and those of them that say whether it sounds.
OfSound(p) == {f \in Frame : f.cmd \in {"SIREN_SETUP", "SIREN_STOP"} /\ f.partition = p}
TrueOfSound(p) ==
  {f \in OfSound(p) : (f.cmd = "SIREN_SETUP" /\ f.repeat = 0) = real.siren[p]}

Sounds(p) == self.partition[p].siren_repeat = 0 /\ self.partition[p].siren_cadence

\* A siren that is set up is told to go.
Announced(s) ==
  \A i \in DOMAIN s : s[i].cmd = "SIREN_SETUP" => i + 1 \in DOMAIN s /\ s[i + 1].cmd = "SIREN_GO"

\* What a client has yet to be told of a siren it is about to be told.
Unheard(p) ==
  /\ line # << >>
  /\ \/ Head(line).cmd = "SIREN_SETUP" /\ Head(line).partition = p
     \/ /\ Head(line).cmd = "SIREN_GO" /\ self.siren_go_partition_id = p
        /\ self.partition[p].siren_cadence

Cadence == {"siren_repeat", "siren_cadence"}

Heard(p) == Unheard(p) \/ \A g \in Cadence : view.partition[p][g] = self.partition[p][g]

SoundStep ==
  /\ \A p \in Partitions : Sync(line, OfSound(p), TrueOfSound(p), Sounds(p) = real.siren[p])
  /\ Announced(line)
  /\ view # << >> => \A p \in Partitions : Heard(p)

\* What a handler does to the siren of a partition.
LEMMA SoundsHandled ==
  ASSUME Types, Handle, NEW p \in Partitions
  PROVE  LET f == Head(line)
         IN /\ f.cmd = "SIREN_SETUP" /\ f.partition = p =>
                 /\ self'.partition[p].siren_repeat = f.repeat
                 /\ self'.partition[p].siren_cadence = TRUE
            /\ f.cmd = "SIREN_STOP" /\ f.partition = p =>
                 /\ self'.partition[p].siren_repeat = self.partition[p].siren_repeat
                 /\ self'.partition[p].siren_cadence = FALSE
            /\ ~ (f.cmd \in {"SIREN_SETUP", "SIREN_STOP"} /\ f.partition = p) =>
                 \A g \in Cadence : self'.partition[p][g] = self.partition[p][g]
<1> DEFINE f == Head(line)
           part == self.partition[p]
<1>1. part \in Partition
  BY Parts DEF Types, TypeOK
<1> HIDE DEF part
<1>2. CASE f.cmd \in PartitionCmds /\ f.partition = p
  <2>1. self'.partition[p] = PartitionAfter(f)
    BY <1>2, PartitionsHandled
  <2>2. f.cmd = "SIREN_SETUP" =>
          PartitionAfter(f).siren_repeat = f.repeat /\ PartitionAfter(f).siren_cadence = TRUE
    BY <1>1, <1>2 DEF PartitionAfter, Partition, part
  <2>3. f.cmd = "SIREN_STOP" =>
          /\ PartitionAfter(f).siren_repeat = part.siren_repeat
          /\ PartitionAfter(f).siren_cadence = FALSE
    <3>1. f.cmd = "SIREN_STOP" => PartitionAfter(f) = [part EXCEPT !.siren_cadence = FALSE]
      BY <1>2 DEF PartitionAfter, part
    <3> QED BY <1>1, <3>1 DEF Partition
  <2>4. f.cmd \notin {"SIREN_SETUP", "SIREN_STOP"} =>
          \A g \in Cadence : PartitionAfter(f)[g] = part[g]
    BY <1>1, <1>2 DEF PartitionAfter, PartitionCmds, Partition, part, Cadence
  <2> QED BY <1>2, <2>1, <2>2, <2>3, <2>4 DEF part
<1>3. CASE ~ (f.cmd \in PartitionCmds /\ f.partition = p)
  <2>1. \/ self'.partition[p] = part
        \/ self'.partition[p] = [part EXCEPT !.active = FALSE, !.entry_delay_active = FALSE,
                                             !.exit_delay_active = FALSE]
    BY <1>3, PartitionsHandled DEF part
  <2>2. \A g \in Cadence : self'.partition[p][g] = part[g]
    BY <1>1, <2>1 DEF Partition, Cadence
  <2> QED BY <1>3, <2>2 DEF part, PartitionCmds
<1> QED BY <1>2, <1>3

\* Which partition's siren is next to go is set when one is set up.
LEMMA GoHandled ==
  ASSUME Types, Handle
  PROVE  IF Head(line).cmd = "SIREN_SETUP"
         THEN self'.siren_go_partition_id = Head(line).partition
         ELSE self'.siren_go_partition_id = self.siren_go_partition_id
<1> DEFINE f == Head(line)
<1>1. self \in Instance
  BY DEF Types, TypeOK
<1>2. CASE HandleZone
  <2>1. \/ self' = self
        \/ \E z \in Zones : \E q : self' = [self EXCEPT !.zone[z] = q]
    BY <1>2, ZoneMoves
  <2> QED BY <1>1, <1>2, <2>1, ZoneMoves DEF Instance
<1>3. CASE HandleOutput
  <2>1. \/ self' = self
        \/ \E o \in Outputs : \E q : self' = [self EXCEPT !.output[o] = q]
    BY <1>3, OutputMoves
  <2> QED BY <1>1, <1>3, <2>1, OutputMoves DEF Instance
<1>4. CASE HandlePartition
  <2>1. CASE HandleSirenSetup
    BY <1>1, <2>1 DEF HandleSirenSetup, Takes, Instance
  <2>2. CASE ~ HandleSirenSetup
    BY <1>1, <1>4, <2>2
       DEF HandlePartition, HandleEquipListPartitionData, HandleLevel,
           HandleEquipListLightToSensorData, HandleEntryExitDelay, HandleTouchpadDisplay,
           HandleFeatureState, HandleSirenStop, HandleProgrammingMode, Takes, Instance
  <2> QED BY <2>1, <2>2
<1>5. CASE HandleLights
  <2>1. \E q : self' = [self EXCEPT !.light[f.partition] = q]
    BY <1>5, LightsMove
  <2> QED BY <1>1, <1>5, <2>1, LightsMove DEF Instance
<1>6. CASE HandleOther
  BY <1>1, <1>6 DEF HandleOther, HandleEquipListSuperbusDevData, HandleEquipListUserData,
     HandleEquipListComplete, HandleClearAutomationDynamicImage, HandleTimeAndDate, HandleSirenGo,
     EquipmentRefresh, Unlisted, Takes, Instance
<1> QED BY <1>2, <1>3, <1>4, <1>5, <1>6, HandleFamilies

\* A signal leaves a field of a partition as the client had it, or brings it
\* up to date.
LEMMA ToldOrNot ==
  ASSUME Types, Tells, view' # << >>, NEW p \in Partitions, NEW g \in Shown
  PROVE  /\ view # << >> /\ IsView(view)
         /\ \/ view'.partition[p][g] = view.partition[p][g]
            \/ view'.partition[p][g] = self'.partition[p][g]
<1>1. view # << >> /\ IsView(view)
  BY ToldView DEF Types
<1>2. CASE TellNothing
  BY <1>1, <1>2 DEF TellNothing
<1>3. ASSUME NEW z \in Zones, TellZone(z) PROVE view'.partition[p][g] = view.partition[p][g]
  BY <1>1, <1>3 DEF TellZone, IsView
<1>4. ASSUME NEW o \in Outputs, TellOutput(o) PROVE view'.partition[p][g] = view.partition[p][g]
  BY <1>1, <1>4 DEF TellOutput, IsView
<1>5. ASSUME NEW q \in Partitions, NEW lights, TellLights(q, lights)
      PROVE  view'.partition[p][g] = view.partition[p][g]
  BY <1>1, <1>5 DEF TellLights, IsView
<1>6. ASSUME NEW q \in Partitions, NEW fields, TellPartition(q, fields)
      PROVE  \/ view'.partition[p][g] = view.partition[p][g]
             \/ view'.partition[p][g] = self'.partition[p][g]
  BY <1>1, <1>6 DEF TellPartition, IsView
<1>7. CASE ForgetZones
  BY <1>1, <1>7 DEF ForgetZones, IsView
<1> QED BY <1>1, <1>2, <1>3, <1>4, <1>5, <1>6, <1>7 DEF Tells

\* Every handler tells of at most one thing.
LEMMA HandleTells ==
  ASSUME Types, Handle
  PROVE  Tells
<1>1. CASE HandlePartition
  BY <1>1, PartitionMoves DEF Tells
<1>2. CASE HandleOther
  BY <1>2, OtherMoves DEF Tells, Siren, Shown
<1> QED BY <1>1, <1>2, ZoneMoves, OutputMoves, LightsMove, HandleFamilies

\* A frame of a siren is handled by the handler of its kind.
LEMMA SirenHandler ==
  ASSUME Types, Handle
  PROVE  /\ Head(line).cmd = "SIREN_GO" => HandleSirenGo
         /\ Head(line).cmd = "SIREN_STOP" => HandleSirenStop
<1>1. CASE HandlePartition
  BY <1>1 DEF HandlePartition, HandleEquipListPartitionData, HandleLevel,
     HandleEquipListLightToSensorData, HandleEntryExitDelay, HandleTouchpadDisplay,
     HandleFeatureState, HandleSirenSetup, HandleProgrammingMode, HandleSirenStop, Takes
<1>2. CASE HandleOther
  BY <1>2 DEF HandleOther, HandleEquipListSuperbusDevData, HandleEquipListUserData,
     HandleEquipListComplete, HandleClearAutomationDynamicImage, HandleTimeAndDate, HandleSirenGo,
     Takes
<1>3. CASE HandleZone
  BY <1>3, ZoneMoves
<1>4. CASE HandleOutput
  BY <1>4, OutputMoves
<1>5. CASE HandleLights
  BY <1>5, LightsMove
<1> QED BY Zenon, <1>1, <1>2, <1>3, <1>4, <1>5, HandleFamilies

\* A handler leaves the client's account of a siren right, or about to be.
LEMMA HeardHandled ==
  ASSUME Types, Handle, SoundStep, view' # << >>, NEW p \in Partitions
  PROVE  Heard(p)'
<1> DEFINE f == Head(line)
<1>1. /\ line \in Seq(Frame) /\ line # << >> /\ f \in Frame
      /\ line' = line \/ line' = Tail(line)
  BY HandleTakes
<1>2. /\ view # << >> /\ IsView(view) /\ Heard(p)
      /\ \A g \in Cadence : \/ view'.partition[p][g] = view.partition[p][g]
                            \/ view'.partition[p][g] = self'.partition[p][g]
  BY HandleTells, ToldOrNot DEF SoundStep, Cadence, Shown
<1>3. ASSUME ~ Unheard(p), \A g \in Cadence : self'.partition[p][g] = self.partition[p][g]
      PROVE  Heard(p)'
  BY <1>2, <1>3 DEF Heard
<1>4. CASE f.cmd = "SIREN_SETUP" /\ f.partition = p
  <2>1. self'.siren_go_partition_id = p /\ self'.partition[p].siren_cadence
    BY <1>4, GoHandled, SoundsHandled
  <2>2. CASE line' = line
    BY <1>1, <1>4, <2>2 DEF Heard, Unheard
  <2>3. CASE line' = Tail(line)
    <3>1. line[1] = f /\ 1 \in DOMAIN line
      BY <1>1
    <3>2. 2 \in DOMAIN line /\ line[2].cmd = "SIREN_GO"
      BY <1>4, <3>1 DEF SoundStep, Announced
    <3>3. line' # << >> /\ Head(line') = line[2]
      <4> DEFINE u == Tail(line)
      <4>1. u \in Seq(Frame) /\ Len(u) = Len(line) - 1 /\ Len(line) >= 2 /\ Len(line) \in Nat
        BY <1>1, <3>2
      <4>2. u[1] = line[2]
        BY <1>1, <4>1
      <4> HIDE DEF u
      <4>3. u # << >> /\ Head(u) = u[1]
        BY <4>1
      <4> QED BY <2>3, <4>2, <4>3 DEF u
    <3> QED BY <2>1, <3>2, <3>3 DEF Heard, Unheard
  <2> QED BY <1>1, <2>2, <2>3
<1>5. CASE f.cmd = "SIREN_GO"
  <2>1. HandleSirenGo /\ self' = self
    BY <1>5, SirenHandler DEF HandleSirenGo
  <2>2. CASE Unheard(p)
    <3>1. self.siren_go_partition_id = p /\ self.partition[p].siren_cadence
      BY <1>5, <2>2 DEF Unheard
    <3>2. TellPartition(p, Siren)
      BY <2>1, <3>1 DEF HandleSirenGo, SirenGoPartition
    <3>3. \A g \in Cadence : view'.partition[p][g] = self'.partition[p][g]
      BY <1>2, <3>2 DEF TellPartition, IsView, Siren, Shown, Cadence
    <3> QED BY <3>3 DEF Heard
  <2>3. CASE ~ Unheard(p)
    BY <1>3, <2>1, <2>3
  <2> QED BY <2>2, <2>3
<1>6. CASE f.cmd = "SIREN_STOP" /\ f.partition = p
  <2>1. ~ Unheard(p)
    BY <1>6 DEF Unheard
  <2>2. TellPartition(p, {"siren_cadence"})
    BY <1>6, SirenHandler DEF HandleSirenStop
  <2>3. /\ view'.partition[p].siren_cadence = self'.partition[p].siren_cadence
        /\ view'.partition[p].siren_repeat = view.partition[p].siren_repeat
    BY <1>2, <2>2 DEF TellPartition, IsView, Shown
  <2>4. view.partition[p].siren_repeat = self'.partition[p].siren_repeat
    BY <1>2, <1>6, <2>1, SoundsHandled DEF Heard, Cadence
  <2> QED BY <2>3, <2>4 DEF Heard, Cadence
<1>7. CASE ~ (f.cmd \in {"SIREN_SETUP", "SIREN_STOP"} /\ f.partition = p) /\ f.cmd # "SIREN_GO"
  <2>1. ~ Unheard(p)
    BY <1>7 DEF Unheard
  <2> QED BY <1>3, <1>7, <2>1, SoundsHandled
<1> QED BY <1>4, <1>5, <1>6, <1>7

\* Taking a frame leaves the others as they were announced.
LEMMA AnnouncedTail ==
  ASSUME NEW s \in Seq(Frame), s # << >>, Announced(s)
  PROVE  Announced(Tail(s))
<1> DEFINE u == Tail(s)
<1>1. /\ u \in Seq(Frame) /\ Len(u) = Len(s) - 1 /\ Len(s) \in Nat
      /\ \A i \in 1 .. Len(u) : u[i] = s[i + 1]
  BY HeadTailProperties
<1> HIDE DEF u
<1>2. DOMAIN u = 1 .. Len(u) /\ DOMAIN s = 1 .. Len(s)
  BY <1>1
<1>3. ASSUME NEW i \in DOMAIN u, u[i].cmd = "SIREN_SETUP"
      PROVE  i + 1 \in DOMAIN u /\ u[i + 1].cmd = "SIREN_GO"
  <2>1. i + 1 \in DOMAIN s /\ s[i + 1].cmd = "SIREN_SETUP"
    BY <1>1, <1>2, <1>3
  <2>2. (i + 1) + 1 \in DOMAIN s /\ s[(i + 1) + 1].cmd = "SIREN_GO"
    BY <2>1 DEF Announced
  <2>3. i + 1 \in DOMAIN u
    BY <1>1, <1>2, <1>3, <2>2
  <2> QED BY <1>1, <1>2, <2>2, <2>3
<1> QED BY <1>3 DEF Announced, u

\* So does a report that announces its own.
LEMMA AnnouncedConcat ==
  ASSUME NEW s \in Seq(Frame), NEW t \in Seq(Frame), Announced(s), Announced(t)
  PROVE  Announced(s \o t)
<1>1. /\ DOMAIN (s \o t) = 1 .. Len(s) + Len(t) /\ DOMAIN t = 1 .. Len(t) /\ DOMAIN s = 1 .. Len(s)
      /\ Len(s) \in Nat /\ Len(t) \in Nat
      /\ \A j \in 1 .. Len(s) : (s \o t)[j] = s[j]
      /\ \A j \in Len(s) + 1 .. Len(s) + Len(t) : (s \o t)[j] = t[j - Len(s)]
  OBVIOUS
<1> DEFINE u == s \o t
<1> HIDE DEF u
<1>2. ASSUME NEW i \in DOMAIN u, u[i].cmd = "SIREN_SETUP"
      PROVE  i + 1 \in DOMAIN u /\ u[i + 1].cmd = "SIREN_GO"
  <2>1. CASE i <= Len(s)
    <3>1. i \in DOMAIN s /\ s[i].cmd = "SIREN_SETUP"
      BY <1>1, <1>2, <2>1 DEF u
    <3>2. i + 1 \in DOMAIN s /\ s[i + 1].cmd = "SIREN_GO"
      BY <3>1 DEF Announced
    <3> QED BY <1>1, <3>2 DEF u
  <2>2. CASE i > Len(s)
    <3> DEFINE k == i - Len(s)
    <3>1. k \in DOMAIN t /\ t[k].cmd = "SIREN_SETUP"
      BY <1>1, <1>2, <2>2 DEF u
    <3>2. k + 1 \in DOMAIN t /\ t[k + 1].cmd = "SIREN_GO"
      BY <3>1 DEF Announced
    <3>3. i + 1 \in Len(s) + 1 .. Len(s) + Len(t) /\ (i + 1) - Len(s) = k + 1
      <4>1. k + 1 \in 1 .. Len(t) /\ Len(s) \in Nat /\ Len(t) \in Nat
        BY <1>1, <3>2
      <4>2. i \in Int
        BY <1>1, <1>2 DEF u
      <4> QED BY <4>1, <4>2
    <3> QED BY <1>1, <3>2, <3>3 DEF u
  <2> QED BY <1>1, <1>2, <2>1, <2>2 DEF u
<1> QED BY <1>2 DEF Announced, u

\* The frames about a siren depend on the plan and the panel alone.
LEMMA SameSound ==
  ASSUME plan' = plan, NEW p
  PROVE  /\ OfSound(p)' = OfSound(p)
         /\ real'.siren[p] = real.siren[p] => TrueOfSound(p)' = TrueOfSound(p)
BY SamePlan DEF OfSound, TrueOfSound

\* A handler keeps sirens in step.
LEMMA SoundHandled ==
  ASSUME Types, Handle, SoundStep
  PROVE  SoundStep'
<1>1. /\ line \in Seq(Frame) /\ line # << >> /\ Head(line) \in Frame
      /\ line' = line \/ line' = Tail(line)
      /\ real' = real /\ plan' = plan
  BY HandleTakes
<1>2. ASSUME NEW p \in Partitions
      PROVE  Sync(line', OfSound(p)', TrueOfSound(p)', Sounds(p)' = real'.siren[p])
  <2> DEFINE right == Sounds(p) = real.siren[p]
             rightNow == Sounds(p)' = real.siren[p]
  <2>1. Sync(line, OfSound(p), TrueOfSound(p), right)
    BY DEF SoundStep
  <2>2. Head(line) \in OfSound(p) => (Head(line) \in TrueOfSound(p) => rightNow)
    BY SoundsHandled DEF OfSound, TrueOfSound, Sounds
  <2>3. Head(line) \notin OfSound(p) => (right => rightNow)
    BY <1>1, SoundsHandled DEF OfSound, Sounds, Cadence
  <2> HIDE DEF right, rightNow
  <2>4. Sync(line', OfSound(p), TrueOfSound(p), rightNow)
    BY <1>1, <2>1, <2>2, <2>3, SyncTaken
  <2> QED BY <1>1, <2>4, SameSound DEF rightNow
<1>3. Announced(line')
  BY <1>1, AnnouncedTail DEF SoundStep
<1> QED BY <1>1, <1>2, <1>3, HeardHandled DEF SoundStep

\* A call leaves them alone.
LEMMA SoundCalled ==
  ASSUME Types, Call, SoundStep
  PROVE  SoundStep'
<1>1. /\ line' = line /\ real' = real /\ plan' = plan /\ self \in Instance
      /\ self' = self \/ self' = Unlisted
      /\ GetInfo \/ view' = view \/ ForgetZones
  BY DEF Call, SetOutput, SetArmLevel, SetLight, SetZoneBypass, Answers, Refresh, EquipmentRefresh,
         GetInfo, Types, TypeOK
<1>2. self'.siren_go_partition_id = self.siren_go_partition_id
  BY <1>1 DEF Unlisted, Instance
<1>3. ASSUME NEW p \in Partitions, NEW g \in Cadence
      PROVE  self'.partition[p][g] = self.partition[p][g]
  <2>1. CASE self' = self
    BY <2>1
  <2>2. CASE self' = Unlisted
    <3>1. /\ self.partition[p] \in Partition
          /\ self'.partition[p] = [self.partition[p] EXCEPT !.active = FALSE,
               !.entry_delay_active = FALSE, !.exit_delay_active = FALSE]
      BY <1>1, <2>2, Parts, UnlistedStored
    <3> QED BY <3>1 DEF Partition, Cadence
  <2> QED BY <1>1, <2>1, <2>2
<1>4. ASSUME NEW p \in Partitions
      PROVE  Sync(line', OfSound(p)', TrueOfSound(p)', Sounds(p)' = real'.siren[p])
  <2>1. Sounds(p)' = Sounds(p)
    BY <1>3 DEF Sounds, Cadence
  <2> QED BY <1>1, <2>1, SameSound DEF SoundStep
<1>5. ASSUME view' # << >>, NEW p \in Partitions PROVE Heard(p)'
  <2>1. CASE GetInfo
    <3>1. view'.partition = [q \in Partitions |-> PartitionInfo(q)] /\ self' = self
      BY <2>1 DEF GetInfo
    <3> QED BY <3>1 DEF Heard, PartitionInfo, Shown, Cadence
  <2>2. CASE view' = view \/ ForgetZones
    <3>1. view # << >> /\ view'.partition = view.partition
      BY <1>5, <2>2 DEF ForgetZones, Types, IsView
    <3> QED BY <1>1, <1>2, <1>3, <3>1 DEF SoundStep, Heard, Unheard, Cadence
  <2> QED BY <1>1, <2>1, <2>2
<1> QED BY <1>1, <1>4, <1>5 DEF SoundStep

\* What is reported leaves what is heard alone.
LEMMA HeardReported ==
  ASSUME Types, SoundStep, NEW frames \in Seq(Frame), line' = line \o frames,
         UNCHANGED <<self, view>>, view' # << >>, NEW p \in Partitions
  PROVE  Heard(p)'
<1>1. Heard(p) /\ line \in Seq(Frame)
  BY DEF SoundStep, Types
<1>2. line # << >> => line' # << >> /\ Head(line') = Head(line)
  BY <1>1
<1> QED BY <1>1, <1>2 DEF Heard, Unheard

\* A report about no siren keeps them in step.
LEMMA SoundAside ==
  ASSUME Types, SoundStep, NEW frames \in Seq(Frame), line' = line \o frames,
         UNCHANGED <<self, view, plan>>, real'.siren = real.siren,
         \A f \in Range(frames) : f.cmd \notin {"SIREN_SETUP", "SIREN_STOP"}
  PROVE  SoundStep'
<1>1. ASSUME NEW p \in Partitions
      PROVE  Sync(line', OfSound(p)', TrueOfSound(p)', Sounds(p)' = real'.siren[p])
  <2> DEFINE right == Sounds(p) = real.siren[p]
  <2>1. Sync(line, OfSound(p), TrueOfSound(p), right) /\ line \in Seq(Frame)
    BY DEF SoundStep, Types
  <2>2. Range(frames) \intersect OfSound(p) = {}
    BY DEF OfSound
  <2> HIDE DEF right
  <2>3. Sync(line', OfSound(p), TrueOfSound(p), right)
    BY <2>1, <2>2, SyncOthers
  <2>4. (Sounds(p)' = real'.siren[p]) = right
    BY DEF Sounds, right
  <2> QED BY <2>3, <2>4, SameSound
<1>2. Announced(frames)
  BY DEF Announced, Range
<1>3. Announced(line')
  BY <1>2, AnnouncedConcat DEF SoundStep, Types
<1> QED BY <1>1, <1>3, HeardReported DEF SoundStep

\* A report about one siren says what it does.
LEMMA SoundReported ==
  ASSUME Types, SoundStep, NEW frames \in Seq(Frame), line' = line \o frames,
         UNCHANGED <<self, view, plan>>, Announced(frames),
         NEW q \in plan.partitions, NEW on \in BOOLEAN,
         real'.siren = [real.siren EXCEPT ![q] = on],
         \E f \in Range(frames) : f.cmd \in {"SIREN_SETUP", "SIREN_STOP"},
         \A f \in Range(frames) : f.cmd \in {"SIREN_SETUP", "SIREN_STOP"} =>
           f.partition = q /\ (f.cmd = "SIREN_SETUP" /\ f.repeat = 0) = on
  PROVE  SoundStep'
<1>1. real.siren \in [Partitions -> BOOLEAN] /\ q \in Partitions /\ line \in Seq(Frame)
  BY RealParts, PlanThings DEF Types, TypeOK
<1>2. \A p \in Partitions : real'.siren[p] = IF p = q THEN on ELSE real.siren[p]
  BY <1>1
<1>3. Range(frames) \subseteq Frame
  BY DEF Range
<1>4. ASSUME NEW p \in Partitions
      PROVE  Sync(line', OfSound(p)', TrueOfSound(p)', Sounds(p)' = real'.siren[p])
  <2> DEFINE right == Sounds(p) = real.siren[p]
             rightNow == (Sounds(p) = real.siren[p])'
  <2>1. Sync(line, OfSound(p), TrueOfSound(p), right)
    BY DEF SoundStep
  <2>2. CASE p = q
    <3>1. Range(frames) \intersect OfSound(p) # {}
      BY <1>3, <2>2 DEF OfSound
    <3>2. Range(frames) \intersect OfSound(p) \subseteq TrueOfSound(p)'
      BY <1>2, <2>2, SameSound DEF OfSound, TrueOfSound
    <3> HIDE DEF rightNow
    <3>3. Sync(line', OfSound(p), TrueOfSound(p)', rightNow)
      BY <1>1, <3>1, <3>2, SyncNews
    <3> QED BY <3>3, SameSound DEF rightNow
  <2>3. CASE p # q
    <3>1. Range(frames) \intersect OfSound(p) = {}
      BY <2>3 DEF OfSound
    <3> HIDE DEF right
    <3>2. Sync(line', OfSound(p), TrueOfSound(p), right)
      BY <1>1, <2>1, <3>1, SyncOthers
    <3>3. (Sounds(p)' = real'.siren[p]) = right
      BY <1>2, <2>3 DEF Sounds, right
    <3> QED BY <1>2, <2>3, <3>2, <3>3, SameSound
  <2> QED BY <2>2, <2>3
<1>5. Announced(line')
  BY <1>1, AnnouncedConcat DEF SoundStep
<1> QED BY <1>4, <1>5, HeardReported DEF SoundStep

\* Reports of lights and of a loss are of one frame.
LEMMA SoloActs ==
  ASSUME NEW frames, LightsAct(frames) \/ UserLightAct(frames) \/ LossAct(frames)
  PROVE  \A f \in Range(frames) :
           f.cmd \in {"LIGHTS_STATE", "USER_LIGHTS", "CLEAR_AUTOMATION_DYNAMIC_IMAGE"}
<1>1. ASSUME NEW p, NEW now, frames = <<[cmd |-> "LIGHTS_STATE", partition |-> p, on |-> now]>>
      PROVE  \A f \in Range(frames) : f.cmd = "LIGHTS_STATE"
  <2>1. Range(frames) = {[cmd |-> "LIGHTS_STATE", partition |-> p, on |-> now]}
    BY <1>1, RangeOfFrames
  <2> QED BY <2>1
<1>2. ASSUME NEW p, NEW l, NEW on,
             frames = <<[cmd |-> "USER_LIGHTS", partition |-> p, light |-> l, on |-> on]>>
      PROVE  \A f \in Range(frames) : f.cmd = "USER_LIGHTS"
  <2>1. Range(frames) = {[cmd |-> "USER_LIGHTS", partition |-> p, light |-> l, on |-> on]}
    BY <1>2, RangeOfFrames
  <2> QED BY <2>1
<1>3. ASSUME frames = <<[cmd |-> "CLEAR_AUTOMATION_DYNAMIC_IMAGE"]>>
      PROVE  \A f \in Range(frames) : f.cmd = "CLEAR_AUTOMATION_DYNAMIC_IMAGE"
  <2>1. Range(frames) = {[cmd |-> "CLEAR_AUTOMATION_DYNAMIC_IMAGE"]}
    BY <1>3, RangeOfFrames
  <2> QED BY <2>1
<1>4. CASE LightsAct(frames)
  BY <1>1, <1>4 DEF LightsAct
<1>5. CASE UserLightAct(frames)
  BY <1>2, <1>5 DEF UserLightAct
<1>6. CASE LossAct(frames)
  BY <1>3, <1>6 DEF LossAct
<1> QED BY <1>4, <1>5, <1>6

\* Whatever the panel does, it keeps sirens in step.
LEMMA SoundActs ==
  ASSUME Types, SoundStep, PanelLists \/ Obey \/ Happen
  PROVE  SoundStep'
<1>1. CASE PanelLists
  <2> DEFINE e == Head(listing)
             f == Report(e[1], e[2])
             frames == <<f>>
  <2>1. /\ listing \in Seq(Entry) /\ listing # << >> /\ Reports(frames)
        /\ UNCHANGED <<self, view, plan, real>>
    BY <1>1 DEF Types, PanelLists
  <2>2. e \in Entry
    BY <2>1
  <2>3. f \in Frame /\ f.cmd = e[1]
    BY <2>2, ReportOfEntry
  <2>4. f.cmd \notin {"SIREN_SETUP", "SIREN_STOP"}
    BY <2>2, <2>3 DEF Entry
  <2> HIDE DEF f
  <2>5. frames \in Seq(Frame) /\ Range(frames) = {f} /\ line' = line \o frames
    BY <2>1, <2>3, RangeOfFrames DEF Reports
  <2> HIDE DEF frames
  <2> QED BY <2>1, <2>4, <2>5, SoundAside
<1>2. CASE PanelListsOnRequest
  <2>1. /\ UNCHANGED <<line, real, self, view, plan>>
    BY <1>2 DEF PanelListsOnRequest, Obeys
  <2>2. \A p : OfSound(p)' = OfSound(p) /\ TrueOfSound(p)' = TrueOfSound(p) /\ Sounds(p)' = Sounds(p)
    BY <2>1, SameSound DEF Sounds
  <2> QED BY <2>1, <2>2 DEF SoundStep, Heard, Unheard
<1>3. ASSUME NEW frames, Acts(frames) PROVE SoundStep'
  <2>1. /\ frames \in Seq(Frame) /\ line' = line \o frames /\ UNCHANGED <<self, view, plan>>
    BY <1>3, ActsLine DEF Acts
  <2>2. CASE PlainAct(frames)
    BY <2>1, <2>2, SoundAside DEF PlainAct, PlainCmds
  <2>3. CASE StopAct(frames)
    <3>1. PICK p \in plan.partitions :
            /\ real'.siren = [real.siren EXCEPT ![p] = FALSE]
            /\ [cmd |-> "SIREN_STOP", partition |-> p] \in Range(frames)
            /\ \A f \in Range(frames) :
                 f.cmd \in PlainCmds \/ f = [cmd |-> "SIREN_STOP", partition |-> p]
      BY <2>3 DEF StopAct
    <3>2. \E f \in Range(frames) : f.cmd \in {"SIREN_SETUP", "SIREN_STOP"}
      BY <3>1
    <3>3. \A f \in Range(frames) : f.cmd \in {"SIREN_SETUP", "SIREN_STOP"} =>
            f.partition = p /\ (f.cmd = "SIREN_SETUP" /\ f.repeat = 0) = FALSE
      BY <3>1 DEF PlainCmds
    <3>4. Announced(frames)
      BY <3>1 DEF Announced, Range, PlainCmds
    <3> QED BY <2>1, <3>1, <3>2, <3>3, <3>4, SoundReported
  <2>4. CASE StartAct(frames)
    <3>1. PICK p \in plan.partitions, repeat \in {0, 1} :
            /\ real'.siren = [real.siren EXCEPT ![p] = repeat = 0]
            /\ frames = <<[cmd |-> "SIREN_SETUP", partition |-> p, repeat |-> repeat],
                          [cmd |-> "SIREN_GO"]>>
      BY <2>4 DEF StartAct
    <3> DEFINE setup == [cmd |-> "SIREN_SETUP", partition |-> p, repeat |-> repeat]
               go == [cmd |-> "SIREN_GO"]
    <3>2. /\ setup.cmd = "SIREN_SETUP" /\ setup.partition = p /\ setup.repeat = repeat
          /\ go.cmd = "SIREN_GO" /\ frames = <<setup, go>>
      BY <3>1
    <3> HIDE DEF setup, go
    <3>3. Range(frames) = {setup, go} /\ DOMAIN frames = {1, 2} /\ frames[1] = setup /\ frames[2] = go
      BY <3>2, RangeOfFrames
    <3>4. Announced(frames)
      BY <3>2, <3>3 DEF Announced
    <3>5. \E f \in Range(frames) : f.cmd \in {"SIREN_SETUP", "SIREN_STOP"}
      BY <3>2, <3>3
    <3>6. \A f \in Range(frames) : f.cmd \in {"SIREN_SETUP", "SIREN_STOP"} =>
            f.partition = p /\ (f.cmd = "SIREN_SETUP" /\ f.repeat = 0) = (repeat = 0)
      BY <3>2, <3>3
    <3>7. CASE repeat = 0
      <4>1. real'.siren = [real.siren EXCEPT ![p] = TRUE]
        BY <3>1, <3>7
      <4>2. \A f \in Range(frames) : f.cmd \in {"SIREN_SETUP", "SIREN_STOP"} =>
              f.partition = p /\ (f.cmd = "SIREN_SETUP" /\ f.repeat = 0) = TRUE
        BY <3>6, <3>7
      <4> QED BY <2>1, <3>4, <3>5, <4>1, <4>2, SoundReported
    <3>8. CASE repeat = 1
      <4> DEFINE on == repeat = 0
      <4>3. on = FALSE /\ real'.siren = [real.siren EXCEPT ![p] = on]
        BY <3>1, <3>8
      <4>1. real'.siren = [real.siren EXCEPT ![p] = FALSE]
        <5> HIDE DEF on
        <5> QED BY <4>3
      <4>2. \A f \in Range(frames) : f.cmd \in {"SIREN_SETUP", "SIREN_STOP"} =>
              f.partition = p /\ (f.cmd = "SIREN_SETUP" /\ f.repeat = 0) = FALSE
        BY <3>6, <3>8
      <4> QED BY <2>1, <3>4, <3>5, <4>1, <4>2, SoundReported
    <3> QED BY <3>1, <3>7, <3>8
  <2>5. CASE LightsAct(frames) \/ UserLightAct(frames) \/ LossAct(frames)
    <3>1. real'.siren = real.siren
      BY <2>5 DEF LightsAct, UserLightAct, LossAct
    <3>2. \A f \in Range(frames) : f.cmd \notin {"SIREN_SETUP", "SIREN_STOP"}
      BY <2>5, SoloActs
    <3> QED BY <2>1, <3>1, <3>2, SoundAside
  <2> QED BY <1>3, <2>2, <2>3, <2>4, <2>5 DEF Acts
<1> QED BY <1>1, <1>2, <1>3, PanelSteps

\* A client that sounds an alarm when sirenRepeat and sirenCadence say so, the
\* way concordctl's keypad does, sounds it when the panel's siren sounds, once
\* the panel has nothing more to say: a burst of beeps, which is announced by a
\* frame that names no partition, is never taken for an alarm, nor an alarm that
\* stopped for one that goes on (GE_RS232_PTA_SUBCMD_SIREN_SETUP, SIREN_GO and
\* SIREN_STOP in concordd_handle_subcmd()).
THEOREM AlarmIsHeard == Spec => []SirenHeard
<1> DEFINE Inv == Types /\ SoundStep
<1>1. Init => Inv
  <2> SUFFICES ASSUME Init PROVE SoundStep
    BY InitTypes
  <2>1. /\ line = << >> /\ view = << >>
    BY DEF Init
  <2>3. Range(line) = {} /\ DOMAIN line = {}
    BY <2>1, RangeOfFrames
  <2>2. \A p \in Partitions : Sounds(p) = FALSE /\ real.siren[p] = FALSE
    BY DEF Init, Sounds
  <2> QED BY <2>1, <2>2, <2>3 DEF SoundStep, Sync, Announced
<1>2. Inv /\ [Next]_vars => Inv'
  <2> SUFFICES ASSUME Types, SoundStep, [Next]_vars PROVE SoundStep'
    BY NextTypes
  <2>1. CASE UNCHANGED vars
    <3>1. UNCHANGED <<line, real, self, view, plan>>
      BY <2>1 DEF vars
    <3>2. \A p : OfSound(p)' = OfSound(p) /\ TrueOfSound(p)' = TrueOfSound(p) /\ Sounds(p)' = Sounds(p)
      BY <3>1, SameSound DEF Sounds
    <3> QED BY <3>1, <3>2 DEF SoundStep, Heard, Unheard
  <2> QED BY <2>1, SoundHandled, SoundCalled, SoundActs DEF Next
<1>3. Inv => SirenHeard
  <2> SUFFICES ASSUME Types, SoundStep, Quiet, view # << >>, NEW p \in Partitions
               PROVE  real.siren[p] <=> view.partition[p].siren_repeat = 0 /\ view.partition[p].siren_cadence
    BY DEF SirenHeard
  <2>1. line = << >> /\ Range(line) = {} /\ DOMAIN line = {}
    BY RangeOfFrames DEF Quiet
  <2>2. Sounds(p) = real.siren[p]
    BY <2>1 DEF SoundStep, Sync, Ends
  <2>3. \A g \in Cadence : view.partition[p][g] = self.partition[p][g]
    BY <2>1 DEF SoundStep, Heard, Unheard
  <2>4. real.siren[p] \in BOOLEAN /\ self.partition[p] \in Partition
    BY RealParts, Parts DEF Types, TypeOK
  <2> QED BY <2>2, <2>3, <2>4 DEF Sounds, Cadence
<1> QED BY <1>1, <1>2, <1>3, PTL DEF Spec

-----------------------------------------------------------------------------
(* Lights that change one at a time.                                       *)

LightsOf(p) == [l \in Lights |-> self.light[p][l].state]

OneDiffers(a, b) == \A l, m \in Lights : a[l] # b[l] /\ a[m] # b[m] => l = m

\* Lights a of partition p, after a frame says that they are b.
Lit(f, p, a, b) ==
  IF f.cmd = "LIGHTS_STATE" /\ f.partition = p THEN b = f.on /\ OneDiffers(a, b)
  ELSE IF f.cmd = "USER_LIGHTS" /\ f.partition = p THEN b = [a EXCEPT ![f.light] = f.on]
  ELSE b = a

\* The frames lead from lights a of a partition to lights b, by way of h.
LightPath(s, p, a, b, h) ==
  /\ h \in [0 .. Len(s) -> [Lights -> BOOLEAN]]
  /\ h[0] = a /\ h[Len(s)] = b
  /\ \A i \in 1 .. Len(s) : Lit(s[i], p, h[i - 1], h[i])

\* What the panel has reported of the lights leads from the image to the panel.
LightStep ==
  /\ \A k \in Range(keys) : k.cmd # "LIGHT"
  /\ \A p \in Partitions : \E h : LightPath(line, p, LightsOf(p), real.light[p], h)

\* A frame taken leads one step less far, or the same when it comes again.
LEMMA PathTaken ==
  ASSUME NEW s \in Seq(Frame), s # << >>, NEW p, NEW a, NEW b, NEW h, LightPath(s, p, a, b, h)
  PROVE  /\ h[1] \in [Lights -> BOOLEAN] /\ Lit(Head(s), p, a, h[1])
         /\ \E g : LightPath(Tail(s), p, h[1], b, g)
<1> DEFINE u == Tail(s)
           g == [i \in 0 .. Len(s) - 1 |-> h[i + 1]]
<1>1. /\ u \in Seq(Frame) /\ Len(u) = Len(s) - 1 /\ Len(s) \in Nat \ {0} /\ Head(s) = s[1]
      /\ \A i \in 1 .. Len(u) : u[i] = s[i + 1]
  BY HeadTailProperties
<1>2. /\ h \in [0 .. Len(s) -> [Lights -> BOOLEAN]] /\ h[0] = a /\ h[Len(s)] = b
      /\ \A i \in 1 .. Len(s) : Lit(s[i], p, h[i - 1], h[i])
  BY DEF LightPath
<1> HIDE DEF u
<1>3. h[1] \in [Lights -> BOOLEAN] /\ Lit(Head(s), p, a, h[1])
  <2>1. 1 \in 1 .. Len(s) /\ 1 - 1 = 0 /\ 1 \in 0 .. Len(s)
    BY <1>1
  <2> QED BY <1>1, <1>2, <2>1
<1>4. LightPath(u, p, h[1], b, g)
  <2>1. g \in [0 .. Len(u) -> [Lights -> BOOLEAN]] /\ g[0] = h[1] /\ g[Len(u)] = b
    BY <1>1, <1>2
  <2>2. ASSUME NEW i \in 1 .. Len(u) PROVE Lit(u[i], p, g[i - 1], g[i])
    <3>1. /\ i + 1 \in 1 .. Len(s) /\ (i + 1) - 1 = i /\ i - 1 \in 0 .. Len(s) - 1
          /\ i \in 0 .. Len(s) - 1 /\ (i - 1) + 1 = i
      BY <1>1
    <3>2. g[i - 1] = h[i] /\ g[i] = h[i + 1] /\ u[i] = s[i + 1]
      BY <1>1, <3>1
    <3>3. Lit(s[i + 1], p, h[i], h[i + 1])
      BY <1>2, <3>1
    <3> QED BY <3>2, <3>3
  <2> HIDE DEF g
  <2> QED BY <2>1, <2>2 DEF LightPath
<1> QED BY <1>3, <1>4 DEF u

\* Taken and coming again, it leads from where it led to.
LEMMA PathAgain ==
  ASSUME NEW s \in Seq(Frame), s # << >>, NEW p, NEW a, NEW b, NEW h, LightPath(s, p, a, b, h)
  PROVE  \E g : LightPath(s, p, h[1], b, g)
<1> DEFINE g == [h EXCEPT ![0] = h[1]]
<1>1. /\ h \in [0 .. Len(s) -> [Lights -> BOOLEAN]] /\ h[0] = a /\ h[Len(s)] = b
      /\ \A i \in 1 .. Len(s) : Lit(s[i], p, h[i - 1], h[i])
      /\ Len(s) \in Nat \ {0} /\ s[1] \in Frame
  BY DEF LightPath
<1>2. g \in [0 .. Len(s) -> [Lights -> BOOLEAN]] /\ g[0] = h[1] /\ g[Len(s)] = b
  BY <1>1
<1>3. \A i \in 1 .. Len(s) : g[i] = h[i]
  BY <1>1
<1>4. ASSUME NEW i \in 1 .. Len(s) PROVE Lit(s[i], p, g[i - 1], g[i])
  <2>1. CASE i = 1
    <3>1. g[1 - 1] = h[1] /\ g[1] = h[1] /\ Lit(s[1], p, h[1 - 1], h[1])
      BY <1>1, <1>2, <1>3
    <3>2. h[1 - 1] \in [Lights -> BOOLEAN] /\ h[1] \in [Lights -> BOOLEAN]
      BY <1>1
    <3>3. Lit(s[1], p, h[1], h[1])
      <4> DEFINE before == h[1 - 1]
                 after == h[1]
      <4> HIDE DEF before, after
      <4>1. s[1].cmd = "USER_LIGHTS" => s[1].light \in Lights
        BY <1>1, FrameFields
      <4>2. before \in [Lights -> BOOLEAN] /\ after \in [Lights -> BOOLEAN] /\ Lit(s[1], p, before, after)
        BY <3>1, <3>2 DEF before, after
      <4>3. Lit(s[1], p, after, after)
        BY <4>1, <4>2 DEF Lit, OneDiffers
      <4> QED BY <4>3 DEF after
    <3> QED BY <2>1, <3>1, <3>3
  <2>2. CASE i # 1
    <3>1. i - 1 \in 1 .. Len(s) /\ i \in 1 .. Len(s)
      BY <1>1, <2>2
    <3> QED BY <1>1, <1>3, <3>1
  <2> QED BY <2>1, <2>2
<1> HIDE DEF g
<1>5. LightPath(s, p, h[1], b, g)
  BY <1>2, <1>4 DEF LightPath
<1> QED BY <1>5

\* A report leads on from where the last one led.
LEMMA PathReported ==
  ASSUME NEW s \in Seq(Frame), NEW t \in Seq(Frame), NEW p, NEW a, NEW b, NEW h,
         LightPath(s, p, a, b, h), NEW c \in [Lights -> BOOLEAN],
         \A i \in DOMAIN t : Lit(t[i], p, IF i = 1 THEN b ELSE c, c),
         t = << >> => b = c
  PROVE  \E g : LightPath(s \o t, p, a, c, g)
<1> DEFINE u == s \o t
           g == [i \in 0 .. Len(u) |-> IF i <= Len(s) THEN h[i] ELSE c]
<1>1. /\ h \in [0 .. Len(s) -> [Lights -> BOOLEAN]] /\ h[0] = a /\ h[Len(s)] = b
      /\ \A i \in 1 .. Len(s) : Lit(s[i], p, h[i - 1], h[i])
  BY DEF LightPath
<1>2. /\ Len(u) = Len(s) + Len(t) /\ DOMAIN t = 1 .. Len(t) /\ Len(s) \in Nat /\ Len(t) \in Nat
      /\ \A j \in 1 .. Len(s) : u[j] = s[j]
      /\ \A j \in Len(s) + 1 .. Len(s) + Len(t) : u[j] = t[j - Len(s)]
      /\ t = << >> <=> Len(t) = 0
  OBVIOUS
<1> HIDE DEF u
<1>3. g \in [0 .. Len(u) -> [Lights -> BOOLEAN]] /\ g[0] = a
  BY <1>1, <1>2
<1>4. g[Len(u)] = c
  <2>1. CASE Len(t) = 0
    <3>1. b = c /\ Len(u) = Len(s) /\ Len(u) \in 0 .. Len(u) /\ Len(u) <= Len(s)
      BY <1>2, <2>1
    <3>2. g[Len(u)] = h[Len(u)]
      BY <3>1
    <3> HIDE DEF g
    <3> QED BY <1>1, <3>1, <3>2
  <2>2. CASE Len(t) > 0
    <3>1. Len(u) \in 0 .. Len(u) /\ ~ (Len(u) <= Len(s))
      BY <1>2, <2>2
    <3> QED BY <3>1
  <2> QED BY <1>2, <2>1, <2>2
<1>5. ASSUME NEW i \in 1 .. Len(u) PROVE Lit(u[i], p, g[i - 1], g[i])
  <2>1. CASE i <= Len(s)
    <3>1. i \in 1 .. Len(s) /\ i - 1 <= Len(s) /\ i - 1 \in 0 .. Len(u) /\ i \in 0 .. Len(u)
      BY <1>2, <2>1
    <3>2. u[i] = s[i] /\ g[i - 1] = h[i - 1] /\ g[i] = h[i]
      BY <1>2, <2>1, <3>1
    <3> QED BY <1>1, <3>1, <3>2
  <2>2. CASE i > Len(s)
    <3> DEFINE k == i - Len(s)
    <3>1. /\ k \in DOMAIN t /\ u[i] = t[k] /\ i - 1 \in 0 .. Len(u) /\ i \in 0 .. Len(u)
          /\ i - 1 <= Len(s) <=> k = 1 
      BY <1>2, <2>2
    <3>2. g[i] = c /\ g[i - 1] = IF k = 1 THEN b ELSE c
      BY <1>1, <1>2, <2>2, <3>1
    <3>3. Lit(t[k], p, IF k = 1 THEN b ELSE c, c)
      BY <3>1
    <3> QED BY <3>1, <3>2, <3>3
  <2> QED BY <1>2, <2>1, <2>2
<1> HIDE DEF g
<1>6. LightPath(u, p, a, c, g)
  BY <1>3, <1>4, <1>5 DEF LightPath
<1> QED BY <1>6 DEF u

\* What a handler makes of the lights when at most one differs.
LEMMA LightsHandledOne ==
  ASSUME Types, Handle, NEW p \in Partitions, NEW b \in [Lights -> BOOLEAN],
         Lit(Head(line), p, LightsOf(p), b)
  PROVE  LightsOf(p)' = b
<1> DEFINE f == Head(line)
           a == LightsOf(p)
<1>1. /\ self \in Instance /\ self.light \in [Partitions -> [Lights -> LightEntry]]
      /\ Lights \subseteq 0 .. 9 /\ f \in Frame
  BY Parts, HandleTakes, PanelAssumption DEF Types, TypeOK, LightEntry
<1>2. ASSUME self'.light[p] = self.light[p], f.cmd \in {"LIGHTS_STATE", "USER_LIGHTS"} => f.partition # p
      PROVE  LightsOf(p)' = b
  BY <1>2 DEF Lit, LightsOf
<1>3. CASE HandleLightsState
  <2> DEFINE q == f.partition
             lights == LightsTaken(q, f.on)
             new == [l \in Lights |-> IF l \in lights.taken THEN [state |-> f.on[l], changed |-> TRUE]
                                      ELSE self.light[q][l]]
  <2>1. f.cmd = "LIGHTS_STATE" /\ self' = [self EXCEPT !.light[q] = new]
    BY <1>3 DEF HandleLightsState, Takes
  <2>2. q \in Partitions /\ f.on \in [Lights -> BOOLEAN]
    BY <1>1, <2>1, FrameFields, PlanThings DEF Types, TypeOK
  <2> HIDE DEF new
  <2>3. self'.light = [self.light EXCEPT ![q] = new]
    BY <1>1, <2>1 DEF Instance
  <2>4. CASE q # p
    BY <1>1, <1>2, <2>2, <2>3, <2>4
  <2>5. CASE q = p
    <3>1. b = f.on /\ OneDiffers(a, b)
      BY <2>1, <2>5 DEF Lit
    <3>2. self'.light[p] = new
      BY <1>1, <2>2, <2>3, <2>5
    <3>3. ASSUME NEW l \in Lights PROVE new[l].state = b[l]
      <4>1. CASE l \in LightsDiffering(q, f.on)
        <5>1. \A m \in LightsDiffering(q, f.on) : m = l
          BY <2>5, <3>1, <4>1 DEF LightsDiffering, OneDiffers, LightsOf
        <5>2. l <= l
          BY <1>1
        <5>3. l \in lights.taken
          BY <4>1, <5>1, <5>2 DEF LightsTaken
        <5> QED BY <3>1, <5>3 DEF new
      <4>2. CASE l \notin LightsDiffering(q, f.on)
        <5>1. l \notin lights.taken /\ self.light[q][l].state = f.on[l]
          BY <4>2 DEF LightsTaken, LightsDiffering
        <5> QED BY <3>1, <5>1 DEF new
      <4> QED BY <4>1, <4>2
    <3> QED BY <3>2, <3>3 DEF LightsOf
  <2> QED BY <2>4, <2>5
<1>4. CASE HandleUserLights
  <2> DEFINE q == f.partition
             new == [self.light[q] EXCEPT ![f.light] = [state |-> f.on, changed |-> TRUE]]
  <2>1. f.cmd = "USER_LIGHTS" /\ self' = [self EXCEPT !.light[q] = new]
    BY <1>4 DEF HandleUserLights, Takes
  <2>2. q \in Partitions /\ f.light \in Lights /\ f.on \in BOOLEAN
    BY <1>1, <2>1, FrameFields, PlanThings DEF Types, TypeOK
  <2> HIDE DEF new
  <2>3. self'.light = [self.light EXCEPT ![q] = new]
    BY <1>1, <2>1 DEF Instance
  <2>4. CASE q # p
    BY <1>1, <1>2, <2>2, <2>3, <2>4
  <2>5. CASE q = p
    <3>1. b = [a EXCEPT ![f.light] = f.on]
      BY <2>1, <2>5 DEF Lit
    <3>2. self'.light[p] = new
      BY <1>1, <2>2, <2>3, <2>5
    <3>3. ASSUME NEW l \in Lights PROVE new[l].state = b[l]
      BY <1>1, <2>2, <2>5, <3>1 DEF new, LightsOf
    <3> QED BY <3>2, <3>3 DEF LightsOf
  <2> QED BY <2>4, <2>5
<1>5. CASE HandleZone
  <2>1. \/ self' = self
        \/ \E z \in Zones : \E q : self' = [self EXCEPT !.zone[z] = q]
    BY <1>5, ZoneMoves
  <2>2. self'.light = self.light
    BY <1>1, <2>1 DEF Instance
  <2> QED BY <1>2, <1>5, <2>2, ZoneMoves
<1>6. CASE HandleOutput
  <2>1. \/ self' = self
        \/ \E o \in Outputs : \E q : self' = [self EXCEPT !.output[o] = q]
    BY <1>6, OutputMoves
  <2>2. self'.light = self.light
    BY <1>1, <2>1 DEF Instance
  <2> QED BY <1>2, <1>6, <2>2, OutputMoves
<1>7. CASE HandlePartition
  <2>1. \E q, new : \/ self' = [self EXCEPT !.partition[q] = new]
                    \/ self' = [self EXCEPT !.siren_go_partition_id = q, !.partition[q] = new]
    BY <1>7, PartitionMoves
  <2>2. self'.light = self.light
    BY <1>1, <2>1 DEF Instance
  <2> QED BY <1>2, <1>7, <2>2, PartitionMoves DEF PartitionCmds
<1>8. CASE HandleOther
  <2>1. self'.light = self.light
    BY <1>1, <1>8, OtherMoves, UnlistedStored
  <2> QED BY <1>2, <1>8, <2>1, OtherMoves DEF OtherCmds
<1> QED BY <1>3, <1>4, <1>5, <1>6, <1>7, <1>8, HandleFamilies DEF HandleLights

\* A message more or less that switches no light.
LEMMA NoMoreKeys ==
  ASSUME NEW s \in Seq(Key), NEW t, NEW cmd, \A k \in Range(s) : k.cmd # cmd,
         \/ t = s
         \/ s # << >> /\ t = Tail(s)
         \/ \E k : t = Append(s, k) /\ k.cmd # cmd
  PROVE  \A k \in Range(t) : k.cmd # cmd
<1>1. CASE s # << >> /\ t = Tail(s)
  <2>1. Range(t) \subseteq Range(s)
    <3>1. \A i \in DOMAIN t : i + 1 \in DOMAIN s /\ t[i] = s[i + 1]
      BY <1>1
    <3> QED BY <3>1 DEF Range
  <2> QED BY <2>1
<1>2. ASSUME NEW k, t = Append(s, k), k.cmd # cmd PROVE \A m \in Range(t) : m.cmd # cmd
  <2>1. Range(t) = Range(s) \union {k}
    BY <1>2, InAppend
  <2> QED BY <1>2, <2>1
<1> QED BY <1>1, <1>2

\* A handler leaves the lights on their way.
LEMMA LightHandled ==
  ASSUME Types, Handle, LightStep
  PROVE  LightStep'
<1>1. /\ line \in Seq(Frame) /\ line # << >> /\ Head(line) \in Frame
      /\ line' = line \/ line' = Tail(line)
      /\ real' = real /\ plan' = plan
  BY HandleTakes
<1>2. ASSUME NEW p \in Partitions PROVE \E h : LightPath(line', p, LightsOf(p)', real'.light[p], h)
  <2>1. PICK h : LightPath(line, p, LightsOf(p), real.light[p], h)
    BY DEF LightStep
  <2>2. /\ h[1] \in [Lights -> BOOLEAN] /\ Lit(Head(line), p, LightsOf(p), h[1])
        /\ \E g : LightPath(Tail(line), p, h[1], real.light[p], g)
    BY <1>1, <2>1, PathTaken
  <2>3. LightsOf(p)' = h[1]
    BY <2>2, LightsHandledOne
  <2>4. \E g : LightPath(line, p, h[1], real.light[p], g)
    BY <1>1, <2>1, PathAgain
  <2> QED BY <1>1, <2>2, <2>3, <2>4
<1>3. \/ keys' = keys
      \/ \E k : keys' = Append(keys, k) /\ k.cmd # "LIGHT"
  <2>1. CASE HandleOther
    <3>1. CASE Head(line).cmd = "CLEAR_AUTOMATION_DYNAMIC_IMAGE"
      BY <2>1, <3>1, OtherMoves
    <3>2. CASE Head(line).cmd = "EQUIP_LIST_COMPLETE"
      BY <2>1, <3>2, OtherMoves
    <3>3. CASE Head(line).cmd \notin {"CLEAR_AUTOMATION_DYNAMIC_IMAGE", "EQUIP_LIST_COMPLETE"}
      BY <2>1, <3>3, OtherMoves
    <3> QED BY <3>1, <3>2, <3>3
  <2> QED BY <2>1, ZoneMoves, OutputMoves, PartitionMoves, LightsMove, HandleFamilies
<1>4. \A k \in Range(keys') : k.cmd # "LIGHT"
  BY <1>3, NoMoreKeys DEF Types, LightStep
<1> QED BY <1>2, <1>4 DEF LightStep

\* A call leaves them where they are, and switches none.
LEMMA LightCalled ==
  ASSUME Types, Call, LightStep, "light" \notin plan.requests
  PROVE  LightStep'
<1>1. /\ line' = line /\ real' = real /\ plan' = plan /\ self \in Instance
      /\ self' = self \/ self' = Unlisted
  BY DEF Call, SetOutput, SetArmLevel, SetLight, SetZoneBypass, Answers, Refresh, EquipmentRefresh,
         GetInfo, Types, TypeOK
<1>2. \A p : LightsOf(p)' = LightsOf(p)
  BY <1>1, UnlistedStored DEF LightsOf
<1>3. \/ keys' = keys
      \/ \E k : keys' = Append(keys, k) /\ k.cmd # "LIGHT"
  <2>1. ASSUME NEW status, NEW k, k.cmd # "LIGHT", Answers(status, k)
        PROVE  \/ keys' = keys
               \/ \E m : keys' = Append(keys, m) /\ m.cmd # "LIGHT"
    BY <2>1 DEF Answers
  <2>2. ASSUME NEW o \in Outputs, NEW on \in BOOLEAN, SetOutput(o, on)
        PROVE  \/ keys' = keys
               \/ \E m : keys' = Append(keys, m) /\ m.cmd # "LIGHT"
    BY <2>1, <2>2 DEF SetOutput
  <2>3. ASSUME NEW p \in Partitions, NEW level \in Levels, SetArmLevel(p, level)
        PROVE  \/ keys' = keys
               \/ \E m : keys' = Append(keys, m) /\ m.cmd # "LIGHT"
    BY <2>1, <2>3 DEF SetArmLevel
  <2>4. ASSUME NEW z \in Zones, NEW bypass \in BOOLEAN, SetZoneBypass(z, bypass)
        PROVE  \/ keys' = keys
               \/ \E m : keys' = Append(keys, m) /\ m.cmd # "LIGHT"
    BY <2>1, <2>4 DEF SetZoneBypass
  <2>5. ~ \E p \in Partitions, l \in Lights, on \in BOOLEAN : SetLight(p, l, on)
    BY DEF SetLight, Calls
  <2> QED BY <2>2, <2>3, <2>4, <2>5 DEF Call, Refresh, EquipmentRefresh, GetInfo
<1>4. \A k \in Range(keys') : k.cmd # "LIGHT"
  BY <1>3, NoMoreKeys DEF Types, LightStep
<1> QED BY <1>1, <1>2, <1>4 DEF LightStep

\* What is reported leads on to what the lights are.
LEMMA LightReported ==
  ASSUME Types, LightStep, NEW frames \in Seq(Frame), line' = line \o frames,
         UNCHANGED self, real' \in Panel,
         \/ keys' = keys
         \/ keys # << >> /\ keys' = Tail(keys),
         frames = << >> => real'.light = real.light,
         \A p \in Partitions, i \in DOMAIN frames :
           Lit(frames[i], p, IF i = 1 THEN real.light[p] ELSE real'.light[p], real'.light[p])
  PROVE  LightStep'
<1>1. ASSUME NEW p \in Partitions PROVE \E h : LightPath(line', p, LightsOf(p)', real'.light[p], h)
  <2> DEFINE c == real'.light[p]
  <2>1. PICK h : LightPath(line, p, LightsOf(p), real.light[p], h)
    BY DEF LightStep
  <2>2. c \in [Lights -> BOOLEAN]
    BY DEF Panel
  <2>3. /\ \A i \in DOMAIN frames : Lit(frames[i], p, IF i = 1 THEN real.light[p] ELSE c, c)
        /\ frames = << >> => real.light[p] = c
    OBVIOUS
  <2> HIDE DEF c
  <2>4. \E g : LightPath(line \o frames, p, LightsOf(p), c, g)
    BY <2>1, <2>2, <2>3, PathReported DEF Types
  <2> QED BY <2>4 DEF c, LightsOf
<1>2. \A k \in Range(keys') : k.cmd # "LIGHT"
  BY NoMoreKeys DEF Types, LightStep
<1> QED BY <1>1, <1>2 DEF LightStep

\* Whatever the panel does, the lights are on their way, or change one at a
\* time.
LEMMA LightActs ==
  ASSUME Types, LightStep, PanelLists \/ Obey \/ Happen, "lights" \notin plan.topics
  PROVE  LightStep'
<1>1. /\ real \in Panel /\ real.light \in [Partitions -> [Lights -> BOOLEAN]] /\ keys \in Seq(Key)
      /\ plan.partitions \subseteq Partitions
  BY RealParts, PlanThings DEF Types, TypeOK
<1>2. ASSUME NEW frames \in Seq(Frame), line' = line \o frames, UNCHANGED self, real' \in Panel,
             keys' = keys \/ (keys # << >> /\ keys' = Tail(keys)), real'.light = real.light,
             \A f \in Range(frames) : f.cmd \notin {"LIGHTS_STATE", "USER_LIGHTS"}
      PROVE  LightStep'
  <2>1. ASSUME NEW p \in Partitions, NEW i \in DOMAIN frames
        PROVE  Lit(frames[i], p, IF i = 1 THEN real.light[p] ELSE real'.light[p], real'.light[p])
    <3>1. frames[i].cmd \notin {"LIGHTS_STATE", "USER_LIGHTS"}
      BY <1>2 DEF Range
    <3> QED BY <1>2, <3>1 DEF Lit
  <2> QED BY <1>2, <2>1, LightReported
<1>3. ASSUME NEW f \in Frame, line' = line \o <<f>>, UNCHANGED self, real' \in Panel,
             keys' = keys \/ (keys # << >> /\ keys' = Tail(keys)),
             \A p \in Partitions : Lit(f, p, real.light[p], real'.light[p])
      PROVE  LightStep'
  <2> DEFINE frames == <<f>>
  <2>1. frames \in Seq(Frame) /\ frames # << >> /\ DOMAIN frames = {1} /\ frames[1] = f
    OBVIOUS
  <2>2. line' = line \o frames
    BY <1>3
  <2> HIDE DEF frames
  <2> QED BY <1>3, <2>1, <2>2, LightReported
<1>4. CASE PanelLists
  <2> DEFINE e == Head(listing)
             f == Report(e[1], e[2])
  <2>1. /\ listing \in Seq(Entry) /\ listing # << >> /\ Reports(<<f>>)
        /\ UNCHANGED <<self, real, keys>>
    BY <1>4 DEF Types, PanelLists
  <2>2. e \in Entry
    BY <2>1
  <2>3. f \in Frame /\ f.cmd = e[1]
    BY <2>2, ReportOfEntry
  <2>4. f.cmd # "USER_LIGHTS"
    BY <2>2, <2>3 DEF Entry
  <2>5. f.cmd = "LIGHTS_STATE" => f.on = real.light[f.partition]
    BY <2>3 DEF Report
  <2> HIDE DEF f
  <2>6. \A p \in Partitions : Lit(f, p, real.light[p], real'.light[p])
    BY <2>1, <2>4, <2>5 DEF Lit, OneDiffers
  <2>7. line' = line \o <<f>>
    BY <2>1 DEF Reports
  <2>8. self' = self /\ real' \in Panel /\ keys' = keys /\ f \in Frame
    BY <1>1, <2>1, <2>3
  <2> HIDE <2>1
  <2> QED BY <1>3, <2>6, <2>7, <2>8
<1>5. CASE PanelListsOnRequest
  <2>1. /\ UNCHANGED <<line, real, self>> /\ keys # << >> /\ keys' = Tail(keys)
    BY <1>5 DEF PanelListsOnRequest, Obeys
  <2>2. \A k \in Range(keys') : k.cmd # "LIGHT"
    BY <1>1, <2>1, NoMoreKeys DEF LightStep
  <2>3. \A p : LightsOf(p)' = LightsOf(p)
    BY <2>1 DEF LightsOf
  <2> QED BY <2>1, <2>2, <2>3 DEF LightStep
<1>6. ASSUME NEW frames, Acts(frames) PROVE LightStep'
  <2>1. /\ frames \in Seq(Frame) /\ line' = line \o frames /\ UNCHANGED self /\ real' \in Panel
        /\ keys' = keys \/ (keys # << >> /\ keys' = Tail(keys))
    BY <1>6, ActsLine DEF Acts
  <2>2. CASE PlainAct(frames)
    BY <1>2, <2>1, <2>2 DEF PlainAct, PlainCmds
  <2>3. CASE StopAct(frames)
    <3>1. /\ real'.light = real.light
          /\ \A f \in Range(frames) : f.cmd \in PlainCmds \/ f.cmd = "SIREN_STOP"
      BY <2>3 DEF StopAct
    <3> QED BY <1>2, <2>1, <3>1 DEF PlainCmds
  <2>4. CASE StartAct(frames)
    <3>1. PICK p \in plan.partitions, repeat \in {0, 1} :
            /\ real'.light = real.light
            /\ frames = <<[cmd |-> "SIREN_SETUP", partition |-> p, repeat |-> repeat],
                          [cmd |-> "SIREN_GO"]>>
      BY <2>4 DEF StartAct
    <3> DEFINE setup == [cmd |-> "SIREN_SETUP", partition |-> p, repeat |-> repeat]
               go == [cmd |-> "SIREN_GO"]
    <3>2. setup.cmd = "SIREN_SETUP" /\ go.cmd = "SIREN_GO" /\ frames = <<setup, go>>
      BY <3>1
    <3> HIDE DEF setup, go
    <3>3. Range(frames) = {setup, go}
      BY <3>2, RangeOfFrames
    <3>4. \A f \in Range(frames) : f.cmd \notin {"LIGHTS_STATE", "USER_LIGHTS"}
      BY <3>2, <3>3
    <3> QED BY <1>2, <2>1, <3>1, <3>4
  <2>5. CASE LightsAct(frames)
    <3>1. PICK p \in plan.partitions, now \in [Lights -> BOOLEAN] :
            /\ real'.light = [real.light EXCEPT ![p] = now]
            /\ frames = <<[cmd |-> "LIGHTS_STATE", partition |-> p, on |-> now]>>
            /\ \/ keys # << >> /\ Head(keys).cmd = "LIGHT"
               \/ \E l \in Lights : now = [real.light[p] EXCEPT ![l] = ~ real.light[p][l]]
      BY <2>5 DEF LightsAct
    <3> DEFINE f == [cmd |-> "LIGHTS_STATE", partition |-> p, on |-> now]
    <3>2. f \in LightsFrame /\ f.cmd = "LIGHTS_STATE" /\ f.partition = p /\ f.on = now
      BY <3>1 DEF LightsFrame
    <3>3. f \in Frame /\ line' = line \o <<f>>
      BY <2>1, <3>1, <3>2, FrameKinds
    <3> HIDE DEF f
    <3>4. ~ (keys # << >> /\ Head(keys).cmd = "LIGHT")
      <4>1. keys # << >> => Head(keys) \in Range(keys)
        BY <1>1 DEF Range
      <4> QED BY <4>1 DEF LightStep
    <3>5. PICK l \in Lights : now = [real.light[p] EXCEPT ![l] = ~ real.light[p][l]]
      BY <3>1, <3>4
    <3>6. OneDiffers(real.light[p], now)
      BY <1>1, <3>1, <3>5 DEF OneDiffers
    <3>7. \A q \in Partitions : real'.light[q] = IF q = p THEN now ELSE real.light[q]
      BY <1>1, <3>1
    <3>8. \A q \in Partitions : Lit(f, q, real.light[q], real'.light[q])
      BY <3>2, <3>6, <3>7 DEF Lit
    <3> QED BY <1>3, <2>1, <3>3, <3>8
  <2>6. CASE UserLightAct(frames)
    <3>1. PICK p \in plan.partitions, l \in Lights, on \in BOOLEAN :
            /\ real'.light = [real.light EXCEPT ![p] = [real.light[p] EXCEPT ![l] = on]]
            /\ frames = <<[cmd |-> "USER_LIGHTS", partition |-> p, light |-> l, on |-> on]>>
      BY <2>6 DEF UserLightAct
    <3> DEFINE f == [cmd |-> "USER_LIGHTS", partition |-> p, light |-> l, on |-> on]
               now == [real.light[p] EXCEPT ![l] = on]
    <3>2. f \in LightFrame /\ f.cmd = "USER_LIGHTS" /\ f.partition = p /\ f.light = l /\ f.on = on
      BY <3>1 DEF LightFrame
    <3>3. f \in Frame /\ line' = line \o <<f>>
      BY <2>1, <3>1, <3>2, FrameKinds
    <3>4. real'.light = [real.light EXCEPT ![p] = now] /\ now = [real.light[p] EXCEPT ![l] = on]
      BY <3>1
    <3> HIDE DEF f, now
    <3>5. \A q \in Partitions : real'.light[q] = IF q = p THEN now ELSE real.light[q]
      BY <1>1, <3>1, <3>4
    <3>6. \A q \in Partitions : Lit(f, q, real.light[q], real'.light[q])
      BY <3>2, <3>4, <3>5 DEF Lit
    <3> QED BY <1>3, <2>1, <3>3, <3>6
  <2>7. CASE LossAct(frames)
    <3>1. real'.light = real.light
      BY <2>7 DEF LossAct
    <3>2. \A f \in Range(frames) : f.cmd \notin {"LIGHTS_STATE", "USER_LIGHTS"}
      <4>1. frames = <<[cmd |-> "CLEAR_AUTOMATION_DYNAMIC_IMAGE"]>>
        BY <2>7 DEF LossAct
      <4>2. Range(frames) = {[cmd |-> "CLEAR_AUTOMATION_DYNAMIC_IMAGE"]}
        BY <4>1, RangeOfFrames
      <4> QED BY <4>2
    <3> QED BY <1>2, <2>1, <3>1, <3>2
  <2> QED BY <1>6, <2>2, <2>3, <2>4, <2>5, <2>6, <2>7 DEF Acts
<1> QED BY <1>4, <1>5, <1>6, PanelSteps

\* Initially all lights are off, at the panel and in the image.
LEMMA InitLights == Init => LightStep
<1> SUFFICES ASSUME Init PROVE LightStep
  OBVIOUS
<1> DEFINE request == [cmd |-> "EQUIP_LIST_REQUEST"]
<1>1. keys = <<request>> /\ request.cmd # "LIGHT" /\ line = << >>
  BY DEF Init
<1>2. \A k \in Range(keys) : k.cmd # "LIGHT"
  <2> HIDE DEF request
  <2>1. Range(keys) = {request}
    BY <1>1, RangeOfFrames
  <2> QED BY <1>1, <2>1
<1>3. ASSUME NEW p \in Partitions PROVE \E h : LightPath(line, p, LightsOf(p), real.light[p], h)
  <2> DEFINE off == [l \in Lights |-> FALSE]
             h == [i \in 0 .. 0 |-> off]
  <2>1. LightsOf(p) = off /\ real.light[p] = off
    BY DEF Init, LightsOf
  <2>2. off \in [Lights -> BOOLEAN] /\ Len(line) = 0
    BY <1>1
  <2> HIDE DEF off
  <2>3. LightPath(line, p, off, off, h)
    BY <2>2 DEF LightPath
  <2> QED BY <2>1, <2>3
<1> QED BY <1>2, <1>3 DEF LightStep

\* When the panel has nothing more to say, every light is stored as the panel
\* has it, also one that changed while a refresh was pending, provided lights
\* change one at a time: no client switches all of a partition's, and the panel
\* reports each change as it happens.  The loop over the lights of a report,
\* which ends at the first change it announces, misses none then
\* (GE_RS232_PTA_SUBCMD2_LIGHTS_STATE in concordd_handle_subcmd2()).
THEOREM LightsAreReported ==
  ASSUME \A q \in Plans : "lights" \notin q.topics /\ "light" \notin q.requests
  PROVE  Spec => []LightsAsReported
<1> DEFINE Inv == Types /\ LightStep
<1>1. Init => Inv
  BY InitTypes, InitLights
<1>2. Inv /\ [Next]_vars => Inv'
  <2> SUFFICES ASSUME Types, LightStep, [Next]_vars PROVE LightStep'
    BY NextTypes
  <2>1. "lights" \notin plan.topics /\ "light" \notin plan.requests
    BY DEF Types, TypeOK
  <2>2. CASE UNCHANGED vars
    <3>1. UNCHANGED <<line, real, self, keys>>
      BY <2>2 DEF vars
    <3> QED BY <3>1 DEF LightStep, LightsOf
  <2> QED BY <2>1, <2>2, LightHandled, LightCalled, LightActs DEF Next
<1>3. Inv => LightsAsReported
  <2> SUFFICES ASSUME LightStep, Quiet, NEW p \in Partitions, NEW l \in Lights
               PROVE  self.light[p][l].state = real.light[p][l]
    BY DEF LightsAsReported
  <2>1. PICK h : LightPath(line, p, LightsOf(p), real.light[p], h)
    BY DEF LightStep
  <2>2. Len(line) = 0
    BY DEF Quiet
  <2>3. LightsOf(p) = real.light[p]
    BY <2>1, <2>2 DEF LightPath
  <2> QED BY <2>3 DEF LightsOf
<1> QED BY <1>1, <1>2, <1>3, PTL DEF Spec
-----------------------------------------------------------------------------
(* Where things are in a sequence.                                         *)

None(s, M) == Range(s) \intersect M = {}

Sole(s, M) == \E i \in DOMAIN s : \A j \in DOMAIN s : s[j] \in M <=> j = i

\* A member of A comes, and none of M before it.
Before(s, A, M) == \E i \in DOMAIN s : s[i] \in A /\ \A j \in 1 .. i : s[j] \notin M

\* What is left of a sequence.
LEMMA TailOf ==
  ASSUME NEW S, NEW s \in Seq(S), s # << >>
  PROVE  /\ Tail(s) \in Seq(S) /\ Head(s) = s[1] /\ 1 \in DOMAIN s
         /\ DOMAIN s = 1 .. Len(s) /\ DOMAIN Tail(s) = 1 .. Len(s) - 1 /\ Len(s) \in Nat \ {0}
         /\ \A i \in DOMAIN Tail(s) : i + 1 \in DOMAIN s /\ Tail(s)[i] = s[i + 1]
<1> DEFINE u == Tail(s)
<1>1. /\ u \in Seq(S) /\ Len(u) = Len(s) - 1 /\ Head(s) = s[1] /\ Len(s) \in Nat \ {0}
      /\ \A i \in 1 .. Len(u) : u[i] = s[i + 1]
  BY HeadTailProperties
<1> HIDE DEF u
<1>2. DOMAIN s = 1 .. Len(s) /\ DOMAIN u = 1 .. Len(u)
  BY <1>1
<1>3. \A i \in DOMAIN u : i + 1 \in DOMAIN s /\ u[i] = s[i + 1]
  BY <1>1, <1>2
<1> QED BY <1>1, <1>2, <1>3 DEF u

\* u is s and then t.
Concat(u, s, t) ==
  /\ Len(s) \in Nat /\ Len(t) \in Nat
  /\ DOMAIN u = 1 .. Len(s) + Len(t) /\ DOMAIN s = 1 .. Len(s) /\ DOMAIN t = 1 .. Len(t)
  /\ \A i \in DOMAIN s : i \in DOMAIN u /\ u[i] = s[i]
  /\ \A i \in DOMAIN u : i \in DOMAIN s \/ i - Len(s) \in DOMAIN t
  /\ \A i \in DOMAIN t : Len(s) + i \in DOMAIN u /\ u[Len(s) + i] = t[i]

\* Two sequences in a row.
LEMMA ConcatOf ==
  ASSUME NEW S, NEW s \in Seq(S), NEW t \in Seq(S)
  PROVE  s \o t \in Seq(S) /\ Concat(s \o t, s, t)
<1> DEFINE u == s \o t
<1>1. /\ u \in Seq(S) /\ Len(u) = Len(s) + Len(t) /\ Len(s) \in Nat /\ Len(t) \in Nat
      /\ \A i \in 1 .. Len(s) + Len(t) : u[i] = IF i <= Len(s) THEN s[i] ELSE t[i - Len(s)]
  BY ConcatProperties
<1> HIDE DEF u
<1>2. DOMAIN u = 1 .. Len(s) + Len(t) /\ DOMAIN s = 1 .. Len(s) /\ DOMAIN t = 1 .. Len(t)
  BY <1>1
<1>3. \A i \in DOMAIN s : i \in DOMAIN u /\ u[i] = s[i]
  BY <1>1, <1>2
<1>4. \A i \in DOMAIN u : i \in DOMAIN s \/ i - Len(s) \in DOMAIN t
  BY <1>1, <1>2
<1>5. \A i \in DOMAIN t : Len(s) + i \in DOMAIN u /\ u[Len(s) + i] = t[i]
  BY <1>1, <1>2
<1>6. Concat(u, s, t)
  BY <1>1, <1>2, <1>3, <1>4, <1>5 DEF Concat
<1> QED BY <1>1, <1>6 DEF u

\* Appending is putting a sequence of one behind.
LEMMA AppendOne ==
  ASSUME NEW S, NEW s \in Seq(S), NEW x \in S
  PROVE  Append(s, x) = s \o <<x>> /\ <<x>> \in Seq(S) /\ Range(<<x>>) = {x}
BY AppendIsConcat, RangeOfFrames

\* None, of the rest and of two sequences.
LEMMA NoneTaken ==
  ASSUME NEW S, NEW s \in Seq(S), s # << >>, NEW M, None(s, M)
  PROVE  Head(s) \notin M /\ None(Tail(s), M)
<1>1. Head(s) \in Range(s) /\ Range(Tail(s)) \subseteq Range(s)
  BY TailOf DEF Range
<1> QED BY <1>1 DEF None

LEMMA NoneOfBoth ==
  ASSUME NEW S, NEW s \in Seq(S), NEW t \in Seq(S), NEW M
  PROVE  None(s \o t, M) <=> None(s, M) /\ None(t, M)
BY RangeConcatenation DEF None

\* A sole member is the first, or it is in the rest.
LEMMA SoleTaken ==
  ASSUME NEW S, NEW s \in Seq(S), s # << >>, NEW M, Sole(s, M)
  PROVE  IF Head(s) \in M THEN None(Tail(s), M) ELSE Sole(Tail(s), M)
<1>1. PICK i \in DOMAIN s : \A j \in DOMAIN s : s[j] \in M <=> j = i
  BY DEF Sole
<1> DEFINE u == Tail(s)
<1>2. /\ Head(s) = s[1] /\ 1 \in DOMAIN s /\ Len(s) \in Nat \ {0}
      /\ DOMAIN s = 1 .. Len(s) /\ DOMAIN u = 1 .. Len(s) - 1
      /\ \A j \in DOMAIN u : j + 1 \in DOMAIN s /\ u[j] = s[j + 1]
  BY TailOf
<1> HIDE DEF u
<1>3. CASE i = 1
  <2>1. Head(s) \in M
    BY <1>1, <1>2, <1>3
  <2>2. \A j \in DOMAIN u : u[j] \notin M
    <3> SUFFICES ASSUME NEW j \in DOMAIN u PROVE u[j] \notin M
      OBVIOUS
    <3>1. j + 1 # 1 /\ j + 1 \in DOMAIN s /\ u[j] = s[j + 1]
      BY <1>2
    <3> QED BY <1>1, <1>3, <3>1
  <2> QED BY <2>1, <2>2 DEF None, Range, u
<1>4. CASE i # 1
  <2>1. Head(s) \notin M
    BY <1>1, <1>2, <1>4
  <2>2. i - 1 \in DOMAIN u
    BY <1>2, <1>4
  <2>3. ASSUME NEW j \in DOMAIN u PROVE u[j] \in M <=> j = i - 1
    <3>1. j + 1 \in DOMAIN s /\ u[j] = s[j + 1] /\ (j + 1 = i <=> j = i - 1)
      BY <1>2
    <3> QED BY <1>1, <3>1
  <2>4. Sole(u, M)
    BY <2>2, <2>3 DEF Sole
  <2> QED BY <2>1, <2>4 DEF u
<1> QED BY <1>3, <1>4

\* It stays so when others follow,
LEMMA SoleStays ==
  ASSUME NEW S, NEW s \in Seq(S), NEW t \in Seq(S), NEW M, Sole(s, M), None(t, M)
  PROVE  Sole(s \o t, M)
<1> DEFINE u == s \o t
<1>0. Concat(u, s, t)
  BY ConcatOf
<1> HIDE DEF u
<1>1. PICK i \in DOMAIN s : \A j \in DOMAIN s : s[j] \in M <=> j = i
  BY DEF Sole
<1>2. /\ Len(s) \in Nat /\ DOMAIN s = 1 .. Len(s) /\ DOMAIN t = 1 .. Len(t)
      /\ DOMAIN u = 1 .. Len(s) + Len(t) /\ Len(t) \in Nat
      /\ \A j \in DOMAIN s : j \in DOMAIN u /\ u[j] = s[j]
      /\ \A j \in DOMAIN u : j \in DOMAIN s \/ j - Len(s) \in DOMAIN t
      /\ \A j \in DOMAIN t : u[Len(s) + j] = t[j]
  BY <1>0 DEF Concat
<1>3. \A j \in DOMAIN t : t[j] \notin M
  BY DEF None, Range
<1>4. ASSUME NEW j \in DOMAIN u PROVE u[j] \in M <=> j = i
  <2>1. CASE j \in DOMAIN s
    BY <1>1, <1>2, <2>1
  <2>2. CASE j \notin DOMAIN s
    <3> DEFINE k == j - Len(s)
    <3>1. k \in DOMAIN t /\ Len(s) + k = j /\ j # i
      <4>1. k \in DOMAIN t
        BY <1>2, <2>2
      <4>2. j \in Int /\ Len(s) \in Int
        BY <1>2
      <4>3. j # i
        BY <2>2
      <4> QED BY <4>1, <4>2, <4>3
    <3>2. u[j] = t[k]
      BY <1>2, <3>1
    <3> HIDE DEF k
    <3> QED BY <1>3, <3>1, <3>2
  <2> QED BY <2>1, <2>2
<1> QED BY <1>1, <1>2, <1>4 DEF Sole, u

\* and is so when the first one comes.
LEMMA SoleComes ==
  ASSUME NEW S, NEW s \in Seq(S), NEW t \in Seq(S), NEW M, None(s, M), Sole(t, M)
  PROVE  Sole(s \o t, M)
<1> DEFINE u == s \o t
<1>0. Concat(u, s, t)
  BY ConcatOf
<1> HIDE DEF u
<1>1. PICK i \in DOMAIN t : \A j \in DOMAIN t : t[j] \in M <=> j = i
  BY DEF Sole
<1>2. /\ Len(s) \in Nat /\ DOMAIN s = 1 .. Len(s) /\ DOMAIN t = 1 .. Len(t)
      /\ DOMAIN u = 1 .. Len(s) + Len(t) /\ Len(t) \in Nat
      /\ \A j \in DOMAIN s : j \in DOMAIN u /\ u[j] = s[j]
      /\ \A j \in DOMAIN u : j \in DOMAIN s \/ j - Len(s) \in DOMAIN t
      /\ \A j \in DOMAIN t : Len(s) + j \in DOMAIN u /\ u[Len(s) + j] = t[j]
  BY <1>0 DEF Concat
<1>3. \A j \in DOMAIN s : s[j] \notin M
  BY DEF None, Range
<1>4. ASSUME NEW j \in DOMAIN u PROVE u[j] \in M <=> j = Len(s) + i
  <2>1. CASE j \in DOMAIN s
    <3>1. j # Len(s) + i
      BY <1>1, <1>2, <2>1
    <3> QED BY <1>2, <1>3, <2>1, <3>1
  <2>2. CASE j \notin DOMAIN s
    <3> DEFINE k == j - Len(s)
    <3>1. k \in DOMAIN t /\ Len(s) + k = j /\ (j = Len(s) + i <=> k = i)
      BY <1>1, <1>2, <2>2
    <3>2. u[j] = t[k]
      BY <1>2, <3>1
    <3> HIDE DEF k
    <3> QED BY <1>1, <3>1, <3>2
  <2> QED BY <2>1, <2>2
<1>5. Len(s) + i \in DOMAIN u
  BY <1>1, <1>2
<1>6. Sole(u, M)
  BY <1>4, <1>5 DEF Sole
<1> QED BY <1>6 DEF u

\* What comes before the others is first, or it comes before them in the rest.
LEMMA BeforeTaken ==
  ASSUME NEW S, NEW s \in Seq(S), s # << >>, NEW A, NEW M, Before(s, A, M)
  PROVE  Head(s) \notin M /\ (Head(s) \in A \/ Before(Tail(s), A, M))
<1>1. PICK i \in DOMAIN s : s[i] \in A /\ \A j \in 1 .. i : s[j] \notin M
  BY DEF Before
<1> DEFINE u == Tail(s)
<1>2. /\ Head(s) = s[1] /\ DOMAIN s = 1 .. Len(s) /\ DOMAIN u = 1 .. Len(s) - 1 /\ Len(s) \in Nat \ {0}
      /\ \A j \in DOMAIN u : j + 1 \in DOMAIN s /\ u[j] = s[j + 1]
  BY TailOf
<1> HIDE DEF u
<1>3. Head(s) \notin M
  <2>1. 1 \in 1 .. i
    BY <1>1, <1>2
  <2> QED BY <1>1, <1>2, <2>1
<1>4. CASE i # 1
  <2>1. i - 1 \in DOMAIN u /\ u[i - 1] = s[i]
    <3>1. i - 1 \in DOMAIN u /\ (i - 1) + 1 = i
      BY <1>1, <1>2, <1>4
    <3> QED BY <1>2, <3>1
  <2>2. ASSUME NEW j \in 1 .. i - 1 PROVE u[j] \notin M
    <3>1. j \in DOMAIN u /\ j + 1 \in 1 .. i
      BY <1>1, <1>2
    <3> QED BY <1>1, <1>2, <3>1
  <2>3. Before(u, A, M)
    BY <1>1, <2>1, <2>2 DEF Before
  <2> QED BY <1>3, <2>3 DEF u
<1> QED BY <1>1, <1>2, <1>3, <1>4

\* It does so when more follows,
LEMMA BeforeStays ==
  ASSUME NEW S, NEW s \in Seq(S), NEW t \in Seq(S), NEW A, NEW M, Before(s, A, M)
  PROVE  Before(s \o t, A, M)
<1> DEFINE u == s \o t
<1>0. Concat(u, s, t)
  BY ConcatOf
<1> HIDE DEF u
<1>1. PICK i \in DOMAIN s : s[i] \in A /\ \A j \in 1 .. i : s[j] \notin M
  BY DEF Before
<1>2. DOMAIN s = 1 .. Len(s) /\ Len(s) \in Nat /\ \A j \in DOMAIN s : j \in DOMAIN u /\ u[j] = s[j]
  BY <1>0 DEF Concat
<1>3. ASSUME NEW j \in 1 .. i PROVE u[j] \notin M
  <2>1. j \in DOMAIN s
    BY <1>1, <1>2
  <2> QED BY <1>1, <1>2, <2>1
<1>4. Before(u, A, M)
  BY <1>1, <1>2, <1>3 DEF Before
<1> QED BY <1>4 DEF u

\* and when there are no others.
LEMMA BeforeNone ==
  ASSUME NEW S, NEW s \in Seq(S), NEW A, NEW M, None(s, M), NEW x \in Range(s), x \in A
  PROVE  Before(s, A, M)
<1>1. PICK i \in DOMAIN s : s[i] = x
  BY DEF Range
<1>2. \A j \in 1 .. i : j \in DOMAIN s
  OBVIOUS
<1>3. \A j \in DOMAIN s : s[j] \notin M
  BY DEF None, Range
<1> QED BY <1>1, <1>2, <1>3 DEF Before

-----------------------------------------------------------------------------
(* What the panel lists, and in which order.                               *)

\* The entries whose things have to be there when the refresh ends.
Things ==
  ({"EQUIP_LIST_ZONE_DATA"} \X plan.zones) \union ({"EQUIP_LIST_OUTPUT_DATA"} \X plan.outputs)
  \union ({"EQUIP_LIST_PARTITION_DATA"} \X plan.partitions)

DeviceEntry(d) == {<<"EQUIP_LIST_SUPERBUS_DEV_DATA", d>>}

\* The ends of the two lists.
Complete == <<"EQUIP_LIST_COMPLETE", 0>>
TimeAndDate == <<"TIME_AND_DATE", 0>>
ListEnds == {Complete, TimeAndDate}

\* Each thing is listed once.
LEMMA EachSole ==
  ASSUME NEW cmd, NEW things, IsFiniteSet(things), NEW x \in things
  PROVE  Sole(Each(cmd, things), {<<cmd, x>>})
<1> DEFINE s == SetToSeq(things)
           t == [n \in DOMAIN s |-> <<cmd, s[n]>>]
<1>1. s \in Seq(things) /\ Range(s) = things /\ IsInjective(s)
  BY SeqOfSet
<1> HIDE DEF s
<1>2. PICK i \in DOMAIN s : s[i] = x
  BY <1>1 DEF Range
<1>3. \A j \in DOMAIN s : s[j] = x => j = i
  BY <1>1, <1>2 DEF IsInjective
<1>4. DOMAIN t = DOMAIN s /\ \A j \in DOMAIN t : t[j] \in {<<cmd, x>>} <=> j = i
  BY <1>2, <1>3
<1>5. Sole(t, {<<cmd, x>>})
  BY <1>2, <1>4 DEF Sole
<1>6. Each(cmd, things) = t
  BY DEF Each, s
<1> QED BY <1>5, <1>6

\* The equipment comes before the end of its list, every bus device once, and
\* none of them in the second list.
LEMMA ListOrder ==
  ASSUME plan \in Plans
  PROVE  \E b \in Seq(Entry), c \in Seq(Entry) :
           /\ EquipmentList = b \o <<Complete>> /\ DynamicData = c \o <<TimeAndDate>>
           /\ None(b, ListEnds) /\ None(c, ListEnds)
           /\ Things \subseteq Range(b)
           /\ \A d \in Devices : Sole(b, DeviceEntry(d)) /\ None(c, DeviceEntry(d))
<1>1. /\ IsFiniteSet(plan.zones) /\ IsFiniteSet(plan.outputs) /\ IsFiniteSet(plan.partitions)
      /\ IsFiniteSet(Devices) /\ IsFiniteSet({0}) /\ IsFiniteSet({}) /\ IsFiniteSet(LitPartitions)
      /\ LitPartitions \subseteq plan.partitions
  BY PanelAssumption, PlanThings, FS_Subset, FS_EmptySet, FS_Singleton DEF LitPartitions
<1> DEFINE users == IF "bypass" \in plan.requests THEN {0} ELSE {}
           e1 == Each("EQUIP_LIST_PARTITION_DATA", plan.partitions)
           e2 == Each("EQUIP_LIST_ZONE_DATA", plan.zones)
           e3 == Each("EQUIP_LIST_OUTPUT_DATA", plan.outputs)
           e4 == Each("EQUIP_LIST_SUPERBUS_DEV_DATA", Devices)
           e5 == Each("EQUIP_LIST_USER_DATA", users)
           e6 == Each("EQUIP_LIST_LIGHT_TO_SENSOR_DATA", LitPartitions)
           d1 == Each("ZONE_STATUS", plan.zones)
           d2 == Each("LEVEL", plan.partitions)
           d3 == Each("LIGHTS_STATE", LitPartitions)
<1>2. /\ {"EQUIP_LIST_PARTITION_DATA"} \X plan.partitions \subseteq Entry
      /\ {"EQUIP_LIST_ZONE_DATA"} \X plan.zones \subseteq Entry
      /\ {"EQUIP_LIST_OUTPUT_DATA"} \X plan.outputs \subseteq Entry
      /\ {"EQUIP_LIST_SUPERBUS_DEV_DATA"} \X Devices \subseteq Entry
      /\ {"EQUIP_LIST_USER_DATA"} \X users \subseteq Entry
      /\ {"EQUIP_LIST_LIGHT_TO_SENSOR_DATA"} \X LitPartitions \subseteq Entry
      /\ {"ZONE_STATUS"} \X plan.zones \subseteq Entry
      /\ {"LEVEL"} \X plan.partitions \subseteq Entry
      /\ {"LIGHTS_STATE"} \X LitPartitions \subseteq Entry
      /\ IsFiniteSet(users)
  BY <1>1 DEF Entry
<1>3. /\ e1 \in Seq(Entry) /\ Range(e1) = {"EQUIP_LIST_PARTITION_DATA"} \X plan.partitions
      /\ e2 \in Seq(Entry) /\ Range(e2) = {"EQUIP_LIST_ZONE_DATA"} \X plan.zones
      /\ e3 \in Seq(Entry) /\ Range(e3) = {"EQUIP_LIST_OUTPUT_DATA"} \X plan.outputs
      /\ e4 \in Seq(Entry) /\ Range(e4) = {"EQUIP_LIST_SUPERBUS_DEV_DATA"} \X Devices
      /\ e5 \in Seq(Entry) /\ Range(e5) = {"EQUIP_LIST_USER_DATA"} \X users
      /\ e6 \in Seq(Entry) /\ Range(e6) = {"EQUIP_LIST_LIGHT_TO_SENSOR_DATA"} \X LitPartitions
      /\ d1 \in Seq(Entry) /\ Range(d1) = {"ZONE_STATUS"} \X plan.zones
      /\ d2 \in Seq(Entry) /\ Range(d2) = {"LEVEL"} \X plan.partitions
      /\ d3 \in Seq(Entry) /\ Range(d3) = {"LIGHTS_STATE"} \X LitPartitions
  <2> HIDE DEF users
  <2>1. e1 \in Seq(Entry) /\ Range(e1) = {"EQUIP_LIST_PARTITION_DATA"} \X plan.partitions
    BY <1>1, <1>2, EachListed
  <2>2. e2 \in Seq(Entry) /\ Range(e2) = {"EQUIP_LIST_ZONE_DATA"} \X plan.zones
    BY <1>1, <1>2, EachListed
  <2>3. e3 \in Seq(Entry) /\ Range(e3) = {"EQUIP_LIST_OUTPUT_DATA"} \X plan.outputs
    BY <1>1, <1>2, EachListed
  <2>4. e4 \in Seq(Entry) /\ Range(e4) = {"EQUIP_LIST_SUPERBUS_DEV_DATA"} \X Devices
    BY <1>1, <1>2, EachListed
  <2>5. e5 \in Seq(Entry) /\ Range(e5) = {"EQUIP_LIST_USER_DATA"} \X users
    BY <1>2, EachListed
  <2>6. e6 \in Seq(Entry) /\ Range(e6) = {"EQUIP_LIST_LIGHT_TO_SENSOR_DATA"} \X LitPartitions
    BY <1>1, <1>2, EachListed
  <2>7. d1 \in Seq(Entry) /\ Range(d1) = {"ZONE_STATUS"} \X plan.zones
    BY <1>1, <1>2, EachListed
  <2>8. d2 \in Seq(Entry) /\ Range(d2) = {"LEVEL"} \X plan.partitions
    BY <1>1, <1>2, EachListed
  <2>9. d3 \in Seq(Entry) /\ Range(d3) = {"LIGHTS_STATE"} \X LitPartitions
    BY <1>1, <1>2, EachListed
  <2> HIDE DEF e1, e2, e3, e4, e5, e6, d1, d2, d3
  <2> QED BY Zenon, <2>1, <2>2, <2>3, <2>4, <2>5, <2>6, <2>7, <2>8, <2>9
<1>4. \A d \in Devices : Sole(e4, DeviceEntry(d))
  BY <1>1, EachSole DEF DeviceEntry
<1> HIDE DEF users, e1, e2, e3, e4, e5, e6, d1, d2, d3
<1>5. /\ \A s \in {e1, e2, e3, e5, e6, d1, d2, d3} :
           None(s, ListEnds) /\ \A d : None(s, DeviceEntry(d))
      /\ None(e4, ListEnds)
  <2>1. None(e1, ListEnds) /\ \A d : None(e1, DeviceEntry(d))
    BY <1>3 DEF None, ListEnds, Complete, TimeAndDate, DeviceEntry
  <2>2. None(e2, ListEnds) /\ \A d : None(e2, DeviceEntry(d))
    BY <1>3 DEF None, ListEnds, Complete, TimeAndDate, DeviceEntry
  <2>3. None(e3, ListEnds) /\ \A d : None(e3, DeviceEntry(d))
    BY <1>3 DEF None, ListEnds, Complete, TimeAndDate, DeviceEntry
  <2>4. None(e5, ListEnds) /\ \A d : None(e5, DeviceEntry(d))
    BY <1>3 DEF None, ListEnds, Complete, TimeAndDate, DeviceEntry
  <2>5. None(e6, ListEnds) /\ \A d : None(e6, DeviceEntry(d))
    BY <1>3 DEF None, ListEnds, Complete, TimeAndDate, DeviceEntry
  <2>6. None(d1, ListEnds) /\ \A d : None(d1, DeviceEntry(d))
    BY <1>3 DEF None, ListEnds, Complete, TimeAndDate, DeviceEntry
  <2>7. None(d2, ListEnds) /\ \A d : None(d2, DeviceEntry(d))
    BY <1>3 DEF None, ListEnds, Complete, TimeAndDate, DeviceEntry
  <2>8. None(d3, ListEnds) /\ \A d : None(d3, DeviceEntry(d))
    BY <1>3 DEF None, ListEnds, Complete, TimeAndDate, DeviceEntry
  <2>9. None(e4, ListEnds)
    BY <1>3 DEF None, ListEnds, Complete, TimeAndDate, DeviceEntry
  <2> QED BY <2>1, <2>2, <2>3, <2>4, <2>5, <2>6, <2>7, <2>8, <2>9
<1> DEFINE l2 == e1 \o e2
           l3 == l2 \o e3
           l4 == l3 \o e4
           l5 == l4 \o e5
           b == l5 \o e6
           m2 == d1 \o d2
           c == m2 \o d3
<1>6. l2 \in Seq(Entry) /\ Range(l2) = Range(e1) \union Range(e2)
  BY <1>3, ConcatListed
<1>7. None(l2, ListEnds) /\ \A d : None(l2, DeviceEntry(d))
  BY <1>3, <1>5, NoneOfBoth
<1> HIDE DEF l2
<1>8. l3 \in Seq(Entry) /\ Range(l3) = Range(l2) \union Range(e3)
  BY <1>3, <1>6, ConcatListed
<1>9. None(l3, ListEnds) /\ \A d : None(l3, DeviceEntry(d))
  BY <1>3, <1>5, <1>6, <1>7, NoneOfBoth
<1> HIDE DEF l3
<1>10. l4 \in Seq(Entry) /\ Range(l3) \subseteq Range(l4)
  BY <1>3, <1>8, ConcatListed
<1>11. None(l4, ListEnds) /\ \A d \in Devices : Sole(l4, DeviceEntry(d))
  BY <1>3, <1>4, <1>5, <1>8, <1>9, NoneOfBoth, SoleComes
<1> HIDE DEF l4
<1>12. l5 \in Seq(Entry) /\ Range(l3) \subseteq Range(l5)
  BY <1>3, <1>10, ConcatListed
<1>13. None(l5, ListEnds) /\ \A d \in Devices : Sole(l5, DeviceEntry(d))
  BY <1>3, <1>5, <1>10, <1>11, NoneOfBoth, SoleStays
<1> HIDE DEF l5
<1>14. b \in Seq(Entry) /\ Range(l3) \subseteq Range(b)
  BY <1>3, <1>12, ConcatListed
<1>15. None(b, ListEnds) /\ \A d \in Devices : Sole(b, DeviceEntry(d))
  BY <1>3, <1>5, <1>12, <1>13, NoneOfBoth, SoleStays
<1>16. Things \subseteq Range(l3)
  BY <1>3, <1>6, <1>8 DEF Things
<1>17. EquipmentList = b \o <<Complete>>
  BY DEF EquipmentList, Complete, users, e1, e2, e3, e4, e5, e6, l2, l3, l4, l5
<1> HIDE DEF b
<1>18. m2 \in Seq(Entry) /\ None(m2, ListEnds) /\ \A d : None(m2, DeviceEntry(d))
  BY <1>3, <1>5, ConcatListed, NoneOfBoth
<1> HIDE DEF m2
<1>19. c \in Seq(Entry) /\ None(c, ListEnds) /\ \A d : None(c, DeviceEntry(d))
  BY <1>3, <1>5, <1>18, ConcatListed, NoneOfBoth
<1>20. DynamicData = c \o <<TimeAndDate>>
  BY DEF DynamicData, TimeAndDate, d1, d2, d3, m2
<1> HIDE DEF c
<1> QED BY <1>14, <1>15, <1>16, <1>17, <1>19, <1>20

-----------------------------------------------------------------------------
(* What a handler does to the image as a whole.                            *)

\* Whether a listed thing is there.
Active(e) ==
  CASE e[1] = "EQUIP_LIST_ZONE_DATA" -> self.zone[e[2]].active
    [] e[1] = "EQUIP_LIST_OUTPUT_DATA" -> self.output[e[2]].active
    [] e[1] = "EQUIP_LIST_PARTITION_DATA" -> self.partition[e[2]].active

\* The frames that list it.
Listing(f) ==
  CASE f.cmd = "EQUIP_LIST_ZONE_DATA" -> f.zone
    [] f.cmd = "EQUIP_LIST_OUTPUT_DATA" -> f.output
    [] f.cmd = "EQUIP_LIST_PARTITION_DATA" -> f.partition
    [] f.cmd = "EQUIP_LIST_SUPERBUS_DEV_DATA" -> f.device

ListCmds == {"EQUIP_LIST_ZONE_DATA", "EQUIP_LIST_OUTPUT_DATA", "EQUIP_LIST_PARTITION_DATA",
             "EQUIP_LIST_SUPERBUS_DEV_DATA"}

FramesOf(e) == {f \in Frame : f.cmd = e[1] /\ f.cmd \in ListCmds /\ Listing(f) = e[2]}

\* The frames a refresh goes by.
MarkCmds == {"EQUIP_LIST_COMPLETE", "TIME_AND_DATE", "CLEAR_AUTOMATION_DYNAMIC_IMAGE"}
Says(cmds) == {f \in Frame : f.cmd \in cmds}
Asks(cmds) == {k \in Key : k.cmd \in cmds}

\* The frames and messages of a kind are the same throughout.
LEMMA SameWords ==
  ASSUME plan' = plan
  PROVE  /\ \A e : FramesOf(e)' = FramesOf(e)
         /\ \A cmds : Says(cmds)' = Says(cmds) /\ Asks(cmds)' = Asks(cmds)
         /\ Things' = Things
BY SamePlan DEF FramesOf, Says, Asks, Things

\* A zone is active as soon as a frame names it, and until an image that is
\* worthless is cleared.
LEMMA ZoneActive ==
  ASSUME Types, Handle, NEW z \in Zones
  PROVE  /\ Head(line).cmd = "EQUIP_LIST_ZONE_DATA" /\ Head(line).zone = z => self'.zone[z].active
         /\ self.zone[z].active /\ Head(line).cmd # "CLEAR_AUTOMATION_DYNAMIC_IMAGE" =>
              self'.zone[z].active
<1> DEFINE f == Head(line)
<1>1. self \in Instance /\ self.zone \in [Zones -> ZoneEntry]
  BY Parts DEF Types, TypeOK, ZoneEntry
<1>2. CASE HandleZone
  <2>1. /\ f.cmd \in {"ZONE_STATUS", "EQUIP_LIST_ZONE_DATA", "KEYFOB"}
        /\ f.zone \in Zones /\ ZoneAfter(f) \in ZoneEntry
    BY <1>2, ZoneMoves
  <2>2. ZoneAfter(f).active
    <3> DEFINE q == self.zone[f.zone]
    <3> HIDE DEF q
    <3>1. q \in ZoneEntry
      BY <1>1, <2>1 DEF q
    <3> QED BY <2>1, <3>1 DEF ZoneAfter, ZoneEntry, q
  <2>3. CASE f.cmd = "KEYFOB" /\ self' = self
    BY <2>3
  <2>4. CASE self' = [self EXCEPT !.zone[f.zone] = ZoneAfter(f)]
    <3>1. self'.zone = [self.zone EXCEPT ![f.zone] = ZoneAfter(f)]
      BY <1>1, <2>1, <2>4, ZoneStored
    <3> QED BY <1>1, <2>1, <2>2, <3>1
  <2> QED BY <1>2, <2>3, <2>4, ZoneMoves
<1>3. CASE HandleOutput
  <2>1. \/ self' = self
        \/ \E o \in Outputs : \E q : self' = [self EXCEPT !.output[o] = q]
    BY <1>3, OutputMoves
  <2>2. self'.zone = self.zone
    BY <1>1, <2>1 DEF Instance
  <2> QED BY <1>3, <2>2, OutputMoves
<1>4. CASE HandlePartition
  <2>1. \E p, q : \/ self' = [self EXCEPT !.partition[p] = q]
                  \/ self' = [self EXCEPT !.siren_go_partition_id = p, !.partition[p] = q]
    BY <1>4, PartitionMoves
  <2>2. self'.zone = self.zone
    BY <1>1, <2>1 DEF Instance
  <2> QED BY <1>4, <2>2, PartitionMoves DEF PartitionCmds
<1>5. CASE HandleLights
  <2>1. \E q : self' = [self EXCEPT !.light[f.partition] = q]
    BY <1>5, LightsMove
  <2>2. self'.zone = self.zone
    BY <1>1, <2>1 DEF Instance
  <2> QED BY <1>5, <2>2, LightsMove
<1>6. CASE HandleOther
  BY <1>6, OtherMoves DEF OtherCmds
<1> QED BY <1>2, <1>3, <1>4, <1>5, <1>6, HandleFamilies

\* So is an output,
LEMMA OutputActive ==
  ASSUME Types, Handle, NEW o \in Outputs
  PROVE  /\ Head(line).cmd = "EQUIP_LIST_OUTPUT_DATA" /\ Head(line).output = o => self'.output[o].active
         /\ self.output[o].active /\ Head(line).cmd # "CLEAR_AUTOMATION_DYNAMIC_IMAGE" =>
              self'.output[o].active
<1> DEFINE f == Head(line)
<1>1. self \in Instance /\ self.output \in [Outputs -> OutputEntry]
  BY Parts DEF Types, TypeOK, OutputEntry
<1>2. CASE HandleOutput
  <2> DEFINE q == [active |-> TRUE, state |-> SaidOfOutput(f)]
  <2>1. f.output \in Outputs /\ q \in OutputEntry /\ q.active
    BY <1>2, OutputMoves DEF OutputEntry
  <2>2. CASE f.cmd = "OUTPUT_EVENT" /\ self' = self
    BY <2>2
  <2>3. CASE self' = [self EXCEPT !.output[f.output] = q]
    <3> HIDE DEF q
    <3>1. self'.output = [self.output EXCEPT ![f.output] = q]
      BY <1>1, <2>1, <2>3, OutputStored
    <3> QED BY <1>1, <2>1, <3>1
  <2> QED BY <1>2, <2>2, <2>3, OutputMoves
<1>3. CASE HandleZone
  <2>1. \/ self' = self
        \/ \E z \in Zones : \E q : self' = [self EXCEPT !.zone[z] = q]
    BY <1>3, ZoneMoves
  <2>2. self'.output = self.output
    BY <1>1, <2>1 DEF Instance
  <2> QED BY <1>3, <2>2, ZoneMoves
<1>4. CASE HandlePartition
  <2>1. \E p, q : \/ self' = [self EXCEPT !.partition[p] = q]
                  \/ self' = [self EXCEPT !.siren_go_partition_id = p, !.partition[p] = q]
    BY <1>4, PartitionMoves
  <2>2. self'.output = self.output
    BY <1>1, <2>1 DEF Instance
  <2> QED BY <1>4, <2>2, PartitionMoves DEF PartitionCmds
<1>5. CASE HandleLights
  <2>1. \E q : self' = [self EXCEPT !.light[f.partition] = q]
    BY <1>5, LightsMove
  <2>2. self'.output = self.output
    BY <1>1, <2>1 DEF Instance
  <2> QED BY <1>5, <2>2, LightsMove
<1>6. CASE HandleOther
  BY <1>6, OtherMoves DEF OtherCmds
<1> QED BY <1>2, <1>3, <1>4, <1>5, <1>6, HandleFamilies

\* and a partition, which most of its frames make active and none makes inactive.
LEMMA PartitionActive ==
  ASSUME Types, Handle, NEW p \in Partitions
  PROVE  /\ Head(line).cmd = "EQUIP_LIST_PARTITION_DATA" /\ Head(line).partition = p =>
              self'.partition[p].active
         /\ self.partition[p].active /\ Head(line).cmd # "CLEAR_AUTOMATION_DYNAMIC_IMAGE" =>
              self'.partition[p].active
<1> DEFINE f == Head(line)
           part == self.partition[p]
<1>1. part \in Partition /\ self \in Instance
  BY Parts DEF Types, TypeOK
<1>2. CASE HandlePartition
  <2>1. f.cmd \in PartitionCmds /\ f \in Frame
    BY <1>2, PartitionMoves
  <2>2. CASE f.partition = p
    <3>1. self'.partition[p] = PartitionAfter(f)
      BY <2>1, <2>2, PartitionsHandled
    <3>2. /\ f.cmd = "EQUIP_LIST_PARTITION_DATA" => PartitionAfter(f).active
          /\ part.active => PartitionAfter(f).active
      <4> HIDE DEF f
      <4>1. f.cmd \in {"EQUIP_LIST_PARTITION_DATA", "LEVEL", "EQUIP_LIST_LIGHT_TO_SENSOR_DATA",
                       "TOUCHPAD_DISPLAY", "FEATURE_STATE", "SIREN_SETUP"} => PartitionAfter(f).active
        <5> HIDE DEF part
        <5> QED BY <1>1, <2>2 DEF PartitionAfter, Partition, part
      <4>2. f.cmd \in {"ENTRY_EXIT_DELAY", "SIREN_STOP", "PROGRAMMING_MODE"} =>
              PartitionAfter(f).active = part.active
        <5>1. ASSUME NEW q \in Partition, NEW v
              PROVE  /\ [q EXCEPT !.exit_delay_active = v].active = q.active
                     /\ [q EXCEPT !.entry_delay_active = v].active = q.active
                     /\ [q EXCEPT !.siren_cadence = v].active = q.active
                     /\ [q EXCEPT !.programming_mode = v].active = q.active
          BY DEF Partition
        <5>2. CASE f.cmd = "ENTRY_EXIT_DELAY"
          <6>1. PartitionAfter(f) = IF f.exit THEN [part EXCEPT !.exit_delay_active = f.begin]
                                  ELSE [part EXCEPT !.entry_delay_active = f.begin]
            BY <2>2, <5>2 DEF PartitionAfter
          <6>2. part \in Partition
            BY <1>1
          <6> HIDE DEF part
          <6>3. CASE f.exit
            BY <5>1, <6>1, <6>2, <6>3
          <6>4. CASE ~ f.exit
            BY <5>1, <6>1, <6>2, <6>4
          <6> QED BY <6>3, <6>4
        <5>3. CASE f.cmd = "SIREN_STOP"
          <6>1. PartitionAfter(f) = [part EXCEPT !.siren_cadence = FALSE]
            BY <2>2, <5>3 DEF PartitionAfter
          <6>2. part \in Partition
            BY <1>1
          <6> HIDE DEF part
          <6> QED BY <5>1, <6>1, <6>2
        <5>4. CASE f.cmd = "PROGRAMMING_MODE"
          <6>1. PartitionAfter(f) = [part EXCEPT !.programming_mode = f.begin]
            BY <2>2, <5>4 DEF PartitionAfter
          <6>2. part \in Partition
            BY <1>1
          <6> HIDE DEF part
          <6> QED BY <5>1, <6>1, <6>2
        <5> QED BY <5>2, <5>3, <5>4
      <4> QED BY <2>1, <4>1, <4>2 DEF PartitionCmds
    <3> QED BY <3>1, <3>2
  <2>3. CASE f.partition # p
    <3>1. /\ f.partition \in Partitions
          /\ \/ self' = [self EXCEPT !.partition[f.partition] = PartitionAfter(f)]
             \/ self' = [self EXCEPT !.siren_go_partition_id = f.partition,
                                     !.partition[f.partition] = PartitionAfter(f)]
          /\ PartitionAfter(f) \in Partition
      BY <1>2, PartitionMoves
    <3> HIDE DEF f
    <3>2. self'.partition = [self.partition EXCEPT ![f.partition] = PartitionAfter(f)]
      BY <1>1, <3>1, PartitionStored, SirenStored
    <3>3. self'.partition[p] = self.partition[p]
      BY <1>1, <2>3, <3>1, <3>2, Parts
    <3> QED BY <2>3, <3>3 DEF f
  <2> QED BY <2>2, <2>3
<1>3. CASE HandleZone
  <2>1. \/ self' = self
        \/ \E z \in Zones : \E q : self' = [self EXCEPT !.zone[z] = q]
    BY <1>3, ZoneMoves
  <2>2. self'.partition = self.partition
    BY <1>1, <2>1 DEF Instance
  <2> QED BY <1>3, <2>2, ZoneMoves
<1>4. CASE HandleOutput
  <2>1. \/ self' = self
        \/ \E o \in Outputs : \E q : self' = [self EXCEPT !.output[o] = q]
    BY <1>4, OutputMoves
  <2>2. self'.partition = self.partition
    BY <1>1, <2>1 DEF Instance
  <2> QED BY <1>4, <2>2, OutputMoves
<1>5. CASE HandleLights
  <2>1. \E q : self' = [self EXCEPT !.light[f.partition] = q]
    BY <1>5, LightsMove
  <2>2. self'.partition = self.partition
    BY <1>1, <2>1 DEF Instance
  <2> QED BY <1>5, <2>2, LightsMove
<1>6. CASE HandleOther
  BY <1>6, OtherMoves DEF OtherCmds
<1> QED BY <1>2, <1>3, <1>4, <1>5, <1>6, HandleFamilies

\* A listed thing is there once its frame is taken.
LEMMA ThingHandled ==
  ASSUME Types, Handle, NEW e \in Things
  PROVE  /\ Head(line) \in FramesOf(e) => Active(e)'
         /\ Active(e) /\ Head(line).cmd # "CLEAR_AUTOMATION_DYNAMIC_IMAGE" => Active(e)'
<1>1. /\ plan.zones \subseteq Zones /\ plan.outputs \subseteq Outputs
      /\ plan.partitions \subseteq Partitions
  BY PlanThings DEF Types, TypeOK
<1>2. CASE e \in {"EQUIP_LIST_ZONE_DATA"} \X plan.zones
  <2>1. e[1] = "EQUIP_LIST_ZONE_DATA" /\ e[2] \in Zones
    BY <1>1, <1>2
  <2> QED BY <2>1, ZoneActive DEF Active, FramesOf, Listing
<1>3. CASE e \in {"EQUIP_LIST_OUTPUT_DATA"} \X plan.outputs
  <2>1. e[1] = "EQUIP_LIST_OUTPUT_DATA" /\ e[2] \in Outputs
    BY <1>1, <1>3
  <2> QED BY <2>1, OutputActive DEF Active, FramesOf, Listing
<1>4. CASE e \in {"EQUIP_LIST_PARTITION_DATA"} \X plan.partitions
  <2>1. e[1] = "EQUIP_LIST_PARTITION_DATA" /\ e[2] \in Partitions
    BY <1>1, <1>4
  <2> QED BY <2>1, PartitionActive DEF Active, FramesOf, Listing
<1> QED BY <1>2, <1>3, <1>4 DEF Things

\* The bus devices, the pending refresh and the messages, after a handler.
LEMMA RefreshHandled ==
  ASSUME Types, Handle
  PROVE  LET f == Head(line)
         IN /\ f.cmd = "CLEAR_AUTOMATION_DYNAMIC_IMAGE" =>
                 /\ self' = Unlisted /\ self'.refresh_pending /\ self'.bus_device = << >>
                 /\ keys' = Append(keys, [cmd |-> "EQUIP_LIST_REQUEST"])
            /\ f.cmd # "CLEAR_AUTOMATION_DYNAMIC_IMAGE" =>
                 /\ self'.bus_device = IF f.cmd = "EQUIP_LIST_SUPERBUS_DEV_DATA"
                                       THEN Append(self.bus_device, f.device) ELSE self.bus_device
                 /\ f.cmd = "TIME_AND_DATE" => ~ self'.refresh_pending
                 /\ f.cmd # "TIME_AND_DATE" => self'.refresh_pending = self.refresh_pending
                 /\ keys' = IF f.cmd = "EQUIP_LIST_COMPLETE"
                            THEN Append(keys, [cmd |-> "DYNAMIC_DATA_REFRESH"]) ELSE keys
<1> DEFINE f == Head(line)
<1>1. self \in Instance /\ self.bus_device \in Seq(Devices) /\ self.refresh_pending \in BOOLEAN
  BY Parts DEF Types, TypeOK, Instance
<1>3. CASE HandleZone
  <2>1. \/ self' = self
        \/ \E z \in Zones : \E q : self' = [self EXCEPT !.zone[z] = q]
    BY <1>3, ZoneMoves
  <2>2. self'.bus_device = self.bus_device /\ self'.refresh_pending = self.refresh_pending
    BY <1>1, <2>1 DEF Instance
  <2> QED BY <1>3, <2>2, ZoneMoves
<1>4. CASE HandleOutput
  <2>1. \/ self' = self
        \/ \E o \in Outputs : \E q : self' = [self EXCEPT !.output[o] = q]
    BY <1>4, OutputMoves
  <2>2. self'.bus_device = self.bus_device /\ self'.refresh_pending = self.refresh_pending
    BY <1>1, <2>1 DEF Instance
  <2> QED BY <1>4, <2>2, OutputMoves
<1>5. CASE HandlePartition
  <2>1. \E p, q : \/ self' = [self EXCEPT !.partition[p] = q]
                  \/ self' = [self EXCEPT !.siren_go_partition_id = p, !.partition[p] = q]
    BY <1>5, PartitionMoves
  <2>2. self'.bus_device = self.bus_device /\ self'.refresh_pending = self.refresh_pending
    BY <1>1, <2>1 DEF Instance
  <2>3. keys' = keys /\ f.cmd \in PartitionCmds
    BY <1>5, PartitionMoves
  <2> QED BY <2>2, <2>3 DEF PartitionCmds
<1>6. CASE HandleLights
  <2>1. \E q : self' = [self EXCEPT !.light[f.partition] = q]
    BY <1>6, LightsMove
  <2>2. self'.bus_device = self.bus_device /\ self'.refresh_pending = self.refresh_pending
    BY <1>1, <2>1 DEF Instance
  <2> QED BY <1>6, <2>2, LightsMove
<1>7. CASE HandleEquipListSuperbusDevData
  <2> DEFINE devices == Append(self.bus_device, f.device)
  <2>1. f.cmd = "EQUIP_LIST_SUPERBUS_DEV_DATA" /\ keys' = keys /\ self' = [self EXCEPT !.bus_device = devices]
    BY <1>7 DEF HandleEquipListSuperbusDevData, Takes
  <2> HIDE DEF devices
  <2>2. self'.bus_device = devices /\ self'.refresh_pending = self.refresh_pending
    BY <1>1, <2>1 DEF Instance
  <2> QED BY <2>1, <2>2 DEF devices
<1>8. CASE HandleEquipListUserData
  <2>1. /\ f.cmd = "EQUIP_LIST_USER_DATA" /\ keys' = keys
        /\ self'.bus_device = self.bus_device /\ self'.refresh_pending = self.refresh_pending
    BY <1>1, <1>8 DEF HandleEquipListUserData, Takes, Instance
  <2> QED BY <2>1
<1>9. CASE HandleEquipListComplete
  BY <1>9 DEF HandleEquipListComplete, Takes
<1>10. CASE HandleClearAutomationDynamicImage
  <2>1. f.cmd = "CLEAR_AUTOMATION_DYNAMIC_IMAGE" /\ EquipmentRefresh
    BY <1>10 DEF HandleClearAutomationDynamicImage, Takes
  <2> QED BY <1>1, <2>1, UnlistedStored DEF EquipmentRefresh
<1>11. CASE HandleTimeAndDate
  <2>1. /\ f.cmd = "TIME_AND_DATE" /\ keys' = keys
        /\ self'.bus_device = self.bus_device /\ self'.refresh_pending = FALSE
    BY <1>1, <1>11 DEF HandleTimeAndDate, Takes, Instance
  <2> QED BY <2>1
<1>12. CASE HandleSirenGo
  BY <1>12 DEF HandleSirenGo, Takes
<1> QED BY <1>3, <1>4, <1>5, <1>6, <1>7, <1>8, <1>9, <1>10, <1>11, <1>12, HandleFamilies DEF HandleOther

\* Of what the panel does by itself or on request, only a loss has to do with
\* a refresh.
LEMMA ActsAside ==
  ASSUME Types, NEW frames, Acts(frames), ~ LossAct(frames)
  PROVE  /\ \A e : None(frames, FramesOf(e))
         /\ None(frames, Says(MarkCmds)) /\ None(frames, Says(ListCmds))
<1>1. frames \in Seq(Frame)
  BY DEF Acts
<1>2. ASSUME NEW f \in Range(frames) PROVE f.cmd \notin MarkCmds \union ListCmds
  <2>1. CASE PlainAct(frames) \/ StopAct(frames)
    <3>1. f.cmd \in PlainCmds \/ \E p : f = [cmd |-> "SIREN_STOP", partition |-> p]
      BY <1>2, <2>1 DEF PlainAct, StopAct
    <3>2. f.cmd \in PlainCmds \/ f.cmd = "SIREN_STOP"
      BY <3>1
    <3> QED BY <3>2 DEF PlainCmds, MarkCmds, ListCmds
  <2>2. CASE StartAct(frames)
    <3>1. PICK p \in plan.partitions, repeat \in {0, 1} :
            frames = <<[cmd |-> "SIREN_SETUP", partition |-> p, repeat |-> repeat],
                       [cmd |-> "SIREN_GO"]>>
      BY <2>2 DEF StartAct
    <3> DEFINE setup == [cmd |-> "SIREN_SETUP", partition |-> p, repeat |-> repeat]
               go == [cmd |-> "SIREN_GO"]
    <3>2. setup.cmd = "SIREN_SETUP" /\ go.cmd = "SIREN_GO" /\ frames = <<setup, go>>
      BY <3>1
    <3> HIDE DEF setup, go
    <3>3. Range(frames) = {setup, go}
      BY <3>2, RangeOfFrames
    <3> QED BY <1>2, <3>2, <3>3 DEF MarkCmds, ListCmds
  <2>3. CASE LightsAct(frames) \/ UserLightAct(frames)
    <3>1. PICK g : frames = <<g>> /\ g.cmd \in {"LIGHTS_STATE", "USER_LIGHTS"}
      <4>1. CASE LightsAct(frames)
        <5>1. PICK p \in plan.partitions, now \in [Lights -> BOOLEAN] :
                frames = <<[cmd |-> "LIGHTS_STATE", partition |-> p, on |-> now]>>
          BY <4>1 DEF LightsAct
        <5> DEFINE g == [cmd |-> "LIGHTS_STATE", partition |-> p, on |-> now]
        <5>2. frames = <<g>> /\ g.cmd = "LIGHTS_STATE"
          BY <5>1
        <5> HIDE DEF g
        <5> QED BY <5>2
      <4>2. CASE UserLightAct(frames)
        <5>1. PICK p \in plan.partitions, l \in Lights, on \in BOOLEAN :
                frames = <<[cmd |-> "USER_LIGHTS", partition |-> p, light |-> l, on |-> on]>>
          BY <4>2 DEF UserLightAct
        <5> DEFINE g == [cmd |-> "USER_LIGHTS", partition |-> p, light |-> l, on |-> on]
        <5>2. frames = <<g>> /\ g.cmd = "USER_LIGHTS"
          BY <5>1
        <5> HIDE DEF g
        <5> QED BY <5>2
      <4> QED BY <2>3, <4>1, <4>2
    <3>2. Range(frames) = {g}
      BY <3>1, RangeOfFrames
    <3> QED BY <1>2, <3>1, <3>2 DEF MarkCmds, ListCmds
  <2> QED BY <2>1, <2>2, <2>3 DEF Acts
<1> QED BY <1>2 DEF None, FramesOf, Says

\* What the panel lists makes the thing active, or marks the end.
LEMMA ReportSays ==
  ASSUME Types, NEW e \in Entry
  PROVE  LET f == Report(e[1], e[2])
         IN /\ f \in Frame
            /\ e \in Things => f \in FramesOf(e)
            /\ \A d \in Devices : e \in DeviceEntry(d) <=> f \in FramesOf(<<"EQUIP_LIST_SUPERBUS_DEV_DATA", d>>)
            /\ e = Complete => f \in Says({"EQUIP_LIST_COMPLETE"})
            /\ e = TimeAndDate => f \in Says({"TIME_AND_DATE"})
            /\ e \notin ListEnds => f \notin Says(MarkCmds)
<1> DEFINE f == Report(e[1], e[2])
<1>1. /\ f \in Frame /\ f.cmd = e[1]
      /\ e[1] = "EQUIP_LIST_ZONE_DATA" => f.zone = e[2]
      /\ e[1] = "EQUIP_LIST_OUTPUT_DATA" => f.output = e[2]
      /\ e[1] = "EQUIP_LIST_PARTITION_DATA" => f.partition = e[2]
  BY ReportOfEntry
<1>2. e[1] = "EQUIP_LIST_SUPERBUS_DEV_DATA" => f.device = e[2]
  BY DEF Report
<1> HIDE DEF f
<1>3. e \in Things => f \in FramesOf(e)
  BY <1>1 DEF Things, FramesOf, Listing, ListCmds
<1>4. e = <<e[1], e[2]>>
  BY DEF Entry
<1>5. \A d \in Devices : e \in DeviceEntry(d) <=> f \in FramesOf(<<"EQUIP_LIST_SUPERBUS_DEV_DATA", d>>)
  BY <1>1, <1>2, <1>4 DEF DeviceEntry, FramesOf, Listing, ListCmds
<1>6. e = Complete => f \in Says({"EQUIP_LIST_COMPLETE"})
  BY <1>1 DEF Complete, Says
<1>7. e = TimeAndDate => f \in Says({"TIME_AND_DATE"})
  BY <1>1 DEF TimeAndDate, Says
<1>8. e \notin ListEnds => f \notin Says(MarkCmds)
  BY <1>1 DEF Entry, ListEnds, Complete, TimeAndDate, Says, MarkCmds
<1> QED BY <1>1, <1>3, <1>5, <1>6, <1>7, <1>8 DEF f

-----------------------------------------------------------------------------
(* A client that follows the zones.                                        *)

\* A signal leaves a zone as the client had it, or brings it up to date.
LEMMA ZoneToldOrNot ==
  ASSUME Types, Tells, view' # << >>, NEW z \in Zones
  PROVE  /\ view # << >> /\ IsView(view)
         /\ \/ view'.zone[z] = view.zone[z]
            \/ view'.zone[z] = self'.zone[z].state
<1>1. view # << >> /\ IsView(view)
  BY ToldView DEF Types
<1>2. CASE TellNothing
  BY <1>1, <1>2 DEF TellNothing
<1>3. ASSUME NEW y \in Zones, TellZone(y)
      PROVE  view'.zone[z] = view.zone[z] \/ view'.zone[z] = self'.zone[z].state
  BY <1>1, <1>3 DEF TellZone, IsView
<1>4. ASSUME NEW o \in Outputs, TellOutput(o) PROVE view'.zone[z] = view.zone[z]
  BY <1>1, <1>4 DEF TellOutput, IsView
<1>5. ASSUME NEW p \in Partitions, NEW lights, TellLights(p, lights)
      PROVE  view'.zone[z] = view.zone[z]
  BY <1>1, <1>5 DEF TellLights, IsView
<1>6. ASSUME NEW p \in Partitions, NEW fields, TellPartition(p, fields)
      PROVE  view'.zone[z] = view.zone[z]
  BY <1>1, <1>6 DEF TellPartition, IsView
<1>7. CASE ForgetZones
  BY <1>1, <1>7 DEF ForgetZones, IsView
<1> QED BY <1>1, <1>2, <1>3, <1>4, <1>5, <1>6, <1>7 DEF Tells

\* What the client was told of a zone is its state, and the zone is active.
FreshStep ==
  view # << >> => \A z \in view.fresh : self.zone[z].active /\ view.zone[z] = self.zone[z].state

\* No signal adds to the zones the client knows.
LEMMA FreshTold ==
  ASSUME Types, Tells, view' # << >>
  PROVE  view # << >> /\ IsView(view) /\ view'.fresh \subseteq view.fresh
<1>1. view # << >> /\ IsView(view)
  BY ToldView DEF Types
<1>2. CASE TellNothing
  BY <1>1, <1>2 DEF TellNothing
<1>3. ASSUME NEW z \in Zones, TellZone(z) PROVE view'.fresh = view.fresh
  BY <1>1, <1>3 DEF TellZone, IsView
<1>4. ASSUME NEW o \in Outputs, TellOutput(o) PROVE view'.fresh = view.fresh
  BY <1>1, <1>4 DEF TellOutput, IsView
<1>5. ASSUME NEW p \in Partitions, NEW lights, TellLights(p, lights) PROVE view'.fresh = view.fresh
  BY <1>1, <1>5 DEF TellLights, IsView
<1>6. ASSUME NEW p \in Partitions, NEW fields, TellPartition(p, fields) PROVE view'.fresh = view.fresh
  BY <1>1, <1>6 DEF TellPartition, IsView
<1>7. CASE ForgetZones
  BY <1>1, <1>7 DEF ForgetZones, IsView
<1> QED BY <1>1, <1>2, <1>3, <1>4, <1>5, <1>6, <1>7 DEF Tells

\* The state of a zone the client knows is announced whenever a handler changes
\* it, for the zone is active; CLEAR makes it inactive, and unknown.
LEMMA ZoneTold ==
  ASSUME Types, Handle, FreshStep
  PROVE  FreshStep'
<1> DEFINE f == Head(line)
<1>1. Tells
  BY HandleTells
<1>2. f.cmd = "CLEAR_AUTOMATION_DYNAMIC_IMAGE" => ForgetZones
  <2>1. CASE HandleOther
    BY <2>1, OtherMoves
  <2>2. CASE ~ HandleOther
    BY <2>2, ZoneMoves, OutputMoves, PartitionMoves, LightsMove, HandleFamilies DEF PartitionCmds
  <2> QED BY <2>1, <2>2
<1> SUFFICES ASSUME view' # << >>, NEW z \in view'.fresh
             PROVE  self'.zone[z].active /\ view'.zone[z] = self'.zone[z].state
  BY DEF FreshStep
<1>3. /\ view # << >> /\ IsView(view) /\ view'.fresh \subseteq view.fresh
  BY <1>1, FreshTold
<1>4. z \in Zones /\ self.zone[z].active /\ view.zone[z] = self.zone[z].state
  BY <1>3 DEF FreshStep, IsView
<1>5. f.cmd # "CLEAR_AUTOMATION_DYNAMIC_IMAGE"
  BY <1>2, <1>3 DEF ForgetZones, IsView
<1>6. self'.zone[z].active
  BY <1>4, <1>5, ZoneActive
<1>7. view'.zone[z] = view.zone[z] \/ view'.zone[z] = self'.zone[z].state
  BY <1>1, <1>4, ZoneToldOrNot
<1>8. self'.zone[z].state = IF f \in OfZone(z) THEN f.state ELSE self.zone[z].state
  BY <1>4, ZonesHandled
<1>9. CASE f \in OfZone(z) /\ f.state # self.zone[z].state
  <2>1. f.zone = z /\ f.cmd \in {"ZONE_STATUS", "EQUIP_LIST_ZONE_DATA"}
    BY <1>9 DEF OfZone
  <2>2. AnnouncesZone(z, f.state)
    BY <1>4, <1>9 DEF AnnouncesZone
  <2>3. HandleZone
    BY <2>1, OutputMoves, PartitionMoves, LightsMove, OtherMoves, HandleFamilies
       DEF PartitionCmds, OtherCmds
  <2>4. TellZone(z)
    BY <2>1, <2>2, <2>3 DEF HandleZone, HandleZoneStatus, HandleEquipListZoneData, HandleKeyfob, Takes
  <2>5. view'.zone[z] = self'.zone[z].state
    BY <1>3, <1>4, <2>4 DEF TellZone, IsView
  <2> QED BY <1>6, <2>5
<1>10. CASE ~ (f \in OfZone(z) /\ f.state # self.zone[z].state)
  BY <1>4, <1>6, <1>7, <1>8, <1>10
<1> QED BY <1>9, <1>10

\* get_info brings what is current of the active zones, and a refresh outdates
\* all; the other calls leave the zones alone.
LEMMA FreshCalled ==
  ASSUME Types, Call, FreshStep
  PROVE  FreshStep'
<1>1. CASE GetInfo
  <2>1. /\ view'.fresh = ActiveZones /\ view'.zone = [z \in Zones |-> ZoneInfo(z)] /\ self' = self
    BY <1>1 DEF GetInfo
  <2> QED BY <2>1 DEF FreshStep, ActiveZones, ZoneInfo
<1>2. CASE Refresh
  <2>1. ForgetZones
    BY <1>2 DEF Refresh, EquipmentRefresh
  <2>2. view' # << >> => view'.fresh = {}
    BY <2>1 DEF ForgetZones, Types, IsView
  <2> QED BY <2>2 DEF FreshStep
<1>3. CASE ~ GetInfo /\ ~ Refresh
  <2>1. self' = self /\ view' = view
    BY <1>3 DEF Call, SetOutput, SetArmLevel, SetLight, SetZoneBypass, Answers
  <2> QED BY <2>1 DEF FreshStep
<1> QED BY <1>1, <1>2, <1>3

\* What a client was told of a zone by get_info and by the signals since is the
\* zone's state, until the next refresh or CLEAR begins: the zones get_info
\* tells of are active, and every change of an active zone is announced
\* (concordd_handle_zone_status(), concordd_handle_equip_list_zone_data()).
\* That holds however refreshes, lists, CLEARs, lost and resent frames overlap.
THEOREM FollowsZones == Spec => []ZoneViewCurrent
<1> DEFINE Inv == Types /\ FreshStep
<1>1. Init => Inv
  <2>1. Init => FreshStep
    BY DEF Init, FreshStep
  <2> QED BY <2>1, InitTypes
<1>2. Inv /\ [Next]_vars => Inv'
  <2> SUFFICES ASSUME Types, FreshStep, [Next]_vars PROVE FreshStep'
    BY NextTypes
  <2>1. CASE UNCHANGED vars
    BY <2>1 DEF vars, FreshStep
  <2>2. CASE PanelLists \/ Obey \/ Happen
    BY <2>2, PanelMoves DEF Moves, FreshStep
  <2> QED BY <2>1, <2>2, ZoneTold, FreshCalled DEF Next
<1>3. Inv => ZoneViewCurrent
  BY DEF FreshStep, ZoneViewCurrent
<1> QED BY <1>1, <1>2, <1>3, PTL DEF Spec

-----------------------------------------------------------------------------
(* A refresh.                                                              *)

\* A call that is no refresh adds a message that asks for no list, or none.
LEMMA OtherCalls ==
  ASSUME Types, Call, ~ Refresh
  PROVE  /\ UNCHANGED <<self, line, listing, plan>>
         /\ \/ keys' = keys
            \/ \E k \in Key : keys' = Append(keys, k) /\ k.cmd \notin Requests
<1>1. keys' \in Seq(Key)
  BY CallTypes, SamePlan DEF Types, Call, SetOutput, SetArmLevel, SetLight, SetZoneBypass, Answers, GetInfo
<1>2. UNCHANGED <<self, line, listing, plan>>
  BY DEF Call, SetOutput, SetArmLevel, SetLight, SetZoneBypass, Answers, GetInfo
<1>3. ASSUME NEW status, NEW k, k.cmd \notin Requests, Answers(status, k)
      PROVE  \/ keys' = keys
             \/ \E m : keys' = Append(keys, m) /\ m.cmd \notin Requests
  BY <1>3 DEF Answers
<1>4. \/ keys' = keys
      \/ \E k : keys' = Append(keys, k) /\ k.cmd \notin Requests
  <2>1. ASSUME NEW o \in Outputs, NEW on \in BOOLEAN, SetOutput(o, on)
        PROVE  \/ keys' = keys
               \/ \E m : keys' = Append(keys, m) /\ m.cmd \notin Requests
    BY <1>3, <2>1 DEF SetOutput, Requests
  <2>2. ASSUME NEW p \in Partitions, NEW level \in Levels, SetArmLevel(p, level)
        PROVE  \/ keys' = keys
               \/ \E m : keys' = Append(keys, m) /\ m.cmd \notin Requests
    BY <1>3, <2>2 DEF SetArmLevel, Requests
  <2>3. ASSUME NEW z \in Zones, NEW bypass \in BOOLEAN, SetZoneBypass(z, bypass)
        PROVE  \/ keys' = keys
               \/ \E m : keys' = Append(keys, m) /\ m.cmd \notin Requests
    BY <1>3, <2>3 DEF SetZoneBypass, Requests
  <2>4. ASSUME NEW p \in Partitions, NEW l \in Lights, NEW on \in BOOLEAN, SetLight(p, l, on)
        PROVE  \/ keys' = keys
               \/ \E m : keys' = Append(keys, m) /\ m.cmd \notin Requests
    BY <1>3, <2>4 DEF SetLight, Requests
  <2>5. GetInfo => keys' = keys
    BY DEF GetInfo
  <2> QED BY <2>1, <2>2, <2>3, <2>4, <2>5 DEF Call
<1>5. ASSUME NEW k, keys' = Append(keys, k) PROVE k \in Key
  <2>1. keys' \in Seq(Key) /\ Range(keys') = Range(keys) \union {k}
    BY <1>1, <1>5, InAppend DEF Types
  <2>2. Range(keys') \subseteq Key
    BY <1>1 DEF Range
  <2> QED BY <2>1, <2>2
<1> QED BY <1>2, <1>4, <1>5

Marks == Says(MarkCmds)
Reqs == Asks(Requests)
DeviceFrames(d) == FramesOf(<<"EQUIP_LIST_SUPERBUS_DEV_DATA", d>>)

\* Where the refresh is: over, asked for, at a list, or at the end of a list.
Awaits(pending) == self.refresh_pending = pending /\ None(keys, Reqs)

AtRest == Awaits(FALSE) /\ listing = << >> /\ None(line, Marks)

AskedFor(cmd) ==
  /\ self.refresh_pending /\ listing = << >> /\ None(line, Marks)
  /\ Sole(keys, Reqs) /\ None(keys, Asks(Requests \ {cmd}))

\* The last entry of a list is its end.
EndsWith(s, end) ==
  s # << >> /\ \A i \in DOMAIN s : IF i = Len(s) THEN s[i] = end ELSE s[i] \notin ListEnds

AtList(end) == Awaits(TRUE) /\ EndsWith(listing, end) /\ None(line, Marks)

AtEnd(pending, cmd) ==
  /\ Awaits(pending) /\ listing = << >>
  /\ Sole(line, Marks) /\ None(line, Says(MarkCmds \ {cmd}))

\* A listed thing is there, or on its way.
ComingThing(e) ==
  \/ Active(e)
  \/ Before(line, FramesOf(e), Marks)
  \/ Before(listing, {e}, ListEnds) /\ None(line, Marks)

\* A bus device is entered, reported or listed, and is so once.
Entered(d) ==
  /\ Sole(self.bus_device, {d})
  /\ None(line, DeviceFrames(d)) /\ None(listing, DeviceEntry(d))

Reported(d) ==
  /\ None(self.bus_device, {d})
  /\ Sole(line, DeviceFrames(d)) /\ None(listing, DeviceEntry(d))
  /\ Before(line, DeviceFrames(d), Marks)

Listed(d) ==
  /\ None(self.bus_device, {d})
  /\ None(line, DeviceFrames(d)) /\ Sole(listing, DeviceEntry(d))
  /\ Before(listing, DeviceEntry(d), ListEnds) /\ None(line, Marks)

AllIn == (\A e \in Things : Active(e)) /\ \A d \in Devices : Entered(d)
AllComing ==
  /\ \A e \in Things : ComingThing(e)
  /\ \A d \in Devices : Entered(d) \/ Reported(d) \/ Listed(d)
NoneIn == self.bus_device = << >> /\ \A d \in Devices : None(line, DeviceFrames(d))

RefreshStep ==
  \/ (AtRest \/ AtEnd(FALSE, "CLEAR_AUTOMATION_DYNAMIC_IMAGE")) /\ AllIn
  \/ AskedFor("EQUIP_LIST_REQUEST") /\ NoneIn
  \/ (AtList(Complete) \/ AtEnd(TRUE, "EQUIP_LIST_COMPLETE")) /\ AllComing
  \/ /\ \/ AskedFor("DYNAMIC_DATA_REFRESH") \/ AtList(TimeAndDate)
        \/ AtEnd(TRUE, "TIME_AND_DATE")
     /\ AllIn

\* The kinds of frames and messages a refresh goes by are the same throughout.
LEMMA SameMarks ==
  ASSUME plan' = plan
  PROVE  /\ Marks' = Marks /\ Reqs' = Reqs /\ Things' = Things
         /\ \A d : DeviceFrames(d)' = DeviceFrames(d)
         /\ \A e : FramesOf(e)' = FramesOf(e)
         /\ \A cmds : Says(cmds)' = Says(cmds) /\ Asks(cmds)' = Asks(cmds)
BY SameWords DEF Marks, Reqs, DeviceFrames

\* What a handler does to a thing of which a frame is under way.
LEMMA ComingHandled ==
  ASSUME Types, Handle, Head(line).cmd # "CLEAR_AUTOMATION_DYNAMIC_IMAGE",
         NEW e \in Things, ComingThing(e)
  PROVE  IF Head(line) \in Marks THEN Active(e)' ELSE ComingThing(e)'
<1> DEFINE f == Head(line)
<1>1. /\ line \in Seq(Frame) /\ line # << >> /\ f \in Frame /\ line' \in {line, Tail(line)}
      /\ listing' = listing /\ plan' = plan
  BY HandleTakes
<1>2. /\ f \in FramesOf(e) => Active(e)'
      /\ Active(e) => Active(e)'
  BY ThingHandled
<1>3. CASE Active(e)
  BY <1>2, <1>3 DEF ComingThing
<1>4. CASE Before(line, FramesOf(e), Marks)
  <2>1. f \notin Marks /\ (f \in FramesOf(e) \/ Before(Tail(line), FramesOf(e), Marks))
    BY <1>1, <1>4, BeforeTaken
  <2> QED BY <1>1, <1>2, <1>4, <2>1, SameMarks DEF ComingThing
<1>5. CASE Before(listing, {e}, ListEnds) /\ None(line, Marks)
  <2>1. f \notin Marks /\ None(Tail(line), Marks)
    BY <1>1, <1>5, NoneTaken
  <2>2. None(line', Marks)
    BY <1>1, <1>5, <2>1
  <2> QED BY <1>1, <1>5, <2>1, <2>2, SameMarks DEF ComingThing, ListEnds, Complete, TimeAndDate
<1> QED BY <1>3, <1>4, <1>5 DEF ComingThing

\* A frame that comes once is handled once.
LEMMA HandledOnce ==
  ASSUME Types, Handle, ~ plan.resent
  PROVE  line' = Tail(line)
<1>1. Takes(Head(line).cmd)
  BY ZoneMoves, OutputMoves, PartitionMoves, LightsMove, OtherMoves, HandleFamilies
<1> QED BY <1>1 DEF Takes

\* Which frames are about a device.
LEMMA DeviceFrame1 ==
  ASSUME NEW f \in Frame, NEW d \in Devices
  PROVE  f \in DeviceFrames(d) <=> f.cmd = "EQUIP_LIST_SUPERBUS_DEV_DATA" /\ f.device = d
BY DEF DeviceFrames, FramesOf, Listing, ListCmds

\* Another device is entered, or none: the account of this one is the same.
LEMMA OtherEntered ==
  ASSUME Types, NEW d \in Devices, NEW q \in Devices, q # d
  PROVE  LET bus == Append(self.bus_device, q)
         IN /\ Sole(self.bus_device, {d}) => Sole(bus, {d})
            /\ None(self.bus_device, {d}) => None(bus, {d})
<1> DEFINE bus == self.bus_device
           one == <<q>>
<1>1. bus \in Seq(Devices)
  BY Parts DEF Types, TypeOK
<1> HIDE DEF bus
<1>2. Append(bus, q) = bus \o one /\ one \in Seq(Devices) /\ Range(one) = {q}
  BY <1>1, AppendOne
<1> HIDE DEF one
<1>3. None(one, {d})
  BY <1>2 DEF None
<1>4. Sole(bus, {d}) => Sole(bus \o one, {d})
  BY <1>1, <1>2, <1>3, SoleStays
<1>5. None(bus, {d}) => None(bus \o one, {d})
  BY <1>1, <1>2, <1>3, NoneOfBoth
<1> QED BY <1>2, <1>4, <1>5 DEF bus

\* A handler enters a device when its frame comes, and else leaves it entered,
\* reported or listed.
LEMMA DeviceHandled ==
  ASSUME Types, Handle, ~ plan.resent, Head(line).cmd # "CLEAR_AUTOMATION_DYNAMIC_IMAGE",
         NEW d \in Devices
  PROVE  /\ Entered(d) => Entered(d)'
         /\ Reported(d) => Head(line) \notin Marks /\ (Entered(d) \/ Reported(d))'
         /\ Listed(d) => Head(line) \notin Marks /\ Listed(d)'
<1> DEFINE f == Head(line)
           bus == self.bus_device
           D == DeviceFrames(d)
<1>1. /\ line \in Seq(Frame) /\ line # << >> /\ f \in Frame /\ line' = Tail(line)
      /\ listing' = listing /\ plan' = plan
  BY HandleTakes, HandledOnce
<1>2. D' = D /\ Marks' = Marks /\ DeviceEntry(d)' = DeviceEntry(d)
  BY <1>1, SameMarks DEF DeviceEntry
<1>3. self'.bus_device = IF f.cmd = "EQUIP_LIST_SUPERBUS_DEV_DATA" THEN Append(bus, f.device) ELSE bus
  BY RefreshHandled
<1>4. f \in D <=> f.cmd = "EQUIP_LIST_SUPERBUS_DEV_DATA" /\ f.device = d
  BY <1>1, DeviceFrame1
<1>5. bus \in Seq(Devices)
  BY Parts DEF Types, TypeOK
<1>6. f.cmd = "EQUIP_LIST_SUPERBUS_DEV_DATA" => f.device \in Devices
  BY <1>1, FrameFields
<1>7. ASSUME f \notin D
      PROVE  /\ Sole(bus, {d}) => Sole(self'.bus_device, {d})
             /\ None(bus, {d}) => None(self'.bus_device, {d})
  BY <1>3, <1>4, <1>6, <1>7, OtherEntered
<1>8. ASSUME f \in D, None(bus, {d}) PROVE Sole(self'.bus_device, {d})
  <2>1. self'.bus_device = Append(bus, d)
    BY <1>3, <1>4, <1>8
  <2> HIDE DEF bus
  <2>2. Append(bus, d) = bus \o <<d>> /\ <<d>> \in Seq(Devices)
    BY <1>5, AppendOne
  <2>3. Sole(<<d>>, {d})
    BY DEF Sole
  <2> QED BY <1>5, <1>8, <2>1, <2>2, <2>3, SoleComes
<1> HIDE DEF f, bus, D
<1>9. None(line, D) => f \notin D /\ None(line', D)
  BY <1>1, NoneTaken DEF f
<1>10. Sole(line, D) => IF f \in D THEN None(line', D) ELSE Sole(line', D)
  BY <1>1, SoleTaken DEF f
<1>11. Before(line, D, Marks) => f \notin Marks /\ (f \in D \/ Before(line', D, Marks))
  BY <1>1, BeforeTaken DEF f
<1>12. None(line, Marks) => f \notin Marks /\ None(line', Marks)
  BY <1>1, NoneTaken DEF f
<1>13. Entered(d) => Entered(d)'
  BY <1>1, <1>2, <1>7, <1>9 DEF Entered, bus, D
<1>14. Reported(d) => f \notin Marks /\ (Entered(d) \/ Reported(d))'
  BY <1>1, <1>2, <1>7, <1>8, <1>10, <1>11 DEF Entered, Reported, bus, D
<1>15. Listed(d) => f \notin Marks /\ Listed(d)'
  BY <1>1, <1>2, <1>7, <1>9, <1>12 DEF Listed, bus, D, ListEnds, Complete, TimeAndDate
<1> QED BY <1>13, <1>14, <1>15 DEF f

\* What all handlers do to what the refresh brings in.
LEMMA InHandled ==
  ASSUME Types, Handle, ~ plan.resent, Head(line).cmd # "CLEAR_AUTOMATION_DYNAMIC_IMAGE"
  PROVE  /\ AllIn => AllIn'
         /\ AllComing /\ Head(line) \in Marks => AllIn'
         /\ AllComing /\ Head(line) \notin Marks => AllComing'
<1>1. plan' = plan
  BY HandleTakes
<1>2. ASSUME AllIn PROVE AllIn'
  BY <1>1, <1>2, ThingHandled, DeviceHandled, SameMarks DEF AllIn
<1>3. ASSUME AllComing, Head(line) \in Marks PROVE AllIn'
  BY <1>1, <1>3, ComingHandled, DeviceHandled, SameMarks DEF AllIn, AllComing
<1>4. ASSUME AllComing, Head(line) \notin Marks PROVE AllComing'
  BY <1>1, <1>4, ComingHandled, DeviceHandled, SameMarks DEF AllComing
<1> QED BY <1>2, <1>3, <1>4

\* A message that asks for a list is the only one that does.
LEMMA AsksOnce ==
  ASSUME NEW s \in Seq(Key), None(s, Reqs), NEW c \in Requests
  PROVE  LET t == Append(s, [cmd |-> c])
         IN Sole(t, Reqs) /\ None(t, Asks(Requests \ {c}))
<1> DEFINE k == [cmd |-> c]
           one == <<k>>
           others == Asks(Requests \ {c})
<1>1. k.cmd = c /\ k \in Key
  <2>1. k \in [cmd : {"EQUIP_LIST_REQUEST", "DYNAMIC_DATA_REFRESH"}]
    BY DEF Requests
  <2> HIDE DEF k
  <2>2. k \in Key
    BY <2>1, Zenon DEF Key
  <2> QED BY <2>2 DEF k
<1> HIDE DEF k
<1>2. Append(s, k) = s \o one /\ one \in Seq(Key) /\ Range(one) = {k}
  BY <1>1, AppendOne
<1>3. Sole(one, Reqs)
  <2>1. k \in Reqs
    BY <1>1 DEF Reqs, Asks
  <2> QED BY <2>1 DEF Sole
<1> HIDE DEF one
<1>4. None(one, others) /\ None(s, others)
  BY <1>1, <1>2 DEF None, Reqs, Asks
<1> HIDE DEF others
<1>5. Sole(s \o one, Reqs) /\ None(s \o one, others)
  BY <1>2, <1>3, <1>4, SoleComes, NoneOfBoth
<1> QED BY <1>2, <1>5 DEF k, others

\* When everything is unlisted and the list is asked for, nothing is in.
LEMMA AskedAgain ==
  ASSUME Types, self' = Unlisted, keys' = Append(keys, [cmd |-> "EQUIP_LIST_REQUEST"]),
         plan' = plan, None(keys, Reqs), listing' = << >>, None(line', Marks),
         \A d \in Devices : None(line', DeviceFrames(d))
  PROVE  RefreshStep'
<1>1. self'.refresh_pending /\ self'.bus_device = << >>
  BY UnlistedStored DEF Types, TypeOK
<1>2. Sole(keys', Reqs) /\ None(keys', Asks(Requests \ {"EQUIP_LIST_REQUEST"}))
  BY AsksOnce DEF Types, Requests
<1>3. AskedFor("EQUIP_LIST_REQUEST")' /\ NoneIn'
  BY <1>1, <1>2, SameMarks DEF AskedFor, NoneIn
<1> QED BY <1>3 DEF RefreshStep

\* Where the refresh is does not change when other frames are handled,
LEMMA PlaceHandled ==
  ASSUME Types, Handle, ~ plan.resent, Head(line) \notin Marks
  PROVE  /\ AtRest => AtRest'
         /\ \A c : AskedFor(c) => AskedFor(c)'
         /\ \A end : AtList(end) => AtList(end)'
         /\ \A pending, c : AtEnd(pending, c) => AtEnd(pending, c)'
<1>1. /\ line \in Seq(Frame) /\ line # << >> /\ Head(line) \in Frame /\ line' = Tail(line)
      /\ listing' = listing /\ plan' = plan
  BY HandleTakes, HandledOnce
<1>2. self'.refresh_pending = self.refresh_pending /\ keys' = keys
  <2>1. Head(line).cmd \notin MarkCmds
    BY <1>1 DEF Marks, Says
  <2> QED BY <2>1, RefreshHandled DEF MarkCmds
<1>3. /\ None(line, Marks) => None(line', Marks)
      /\ Sole(line, Marks) => Sole(line', Marks)
  BY <1>1, NoneTaken, SoleTaken
<1>4. ASSUME NEW M, None(line, M) PROVE None(line', M)
  BY <1>1, <1>4, NoneTaken
<1>5. \A cmds : None(line, Says(cmds)) => None(line', Says(cmds))
  BY <1>4
<1>6. \A s, end : EndsWith(s, end)' = EndsWith(s', end)
  BY DEF EndsWith, ListEnds, Complete, TimeAndDate
<1> QED BY <1>1, <1>2, <1>3, <1>5, <1>6, SameMarks DEF AtRest, AskedFor, AtList, AtEnd, Awaits

\* and what is on its way comes in.
LEMMA RefreshTaken ==
  ASSUME Types, Handle, ~ plan.resent, RefreshStep
  PROVE  RefreshStep'
<1> DEFINE f == Head(line)
<1>1. /\ line \in Seq(Frame) /\ line # << >> /\ f \in Frame /\ line' = Tail(line)
      /\ listing' = listing /\ plan' = plan /\ f \in Range(line)
  BY HandleTakes, HandledOnce DEF Range
<1>2. CASE f \notin Marks
  <2>1. f.cmd # "CLEAR_AUTOMATION_DYNAMIC_IMAGE"
    BY <1>1, <1>2 DEF Marks, Says, MarkCmds
  <2>2. (AllIn => AllIn') /\ (AllComing => AllComing')
    BY <1>2, <2>1, InHandled
  <2>3. ASSUME NoneIn PROVE NoneIn'
    <3>1. f.cmd # "EQUIP_LIST_SUPERBUS_DEV_DATA"
      BY <1>1, <2>3, FrameFields, DeviceFrame1 DEF NoneIn, None
    <3>2. self'.bus_device = self.bus_device
      BY <2>1, <3>1, RefreshHandled
    <3>3. \A d \in Devices : None(line', DeviceFrames(d))
      BY <1>1, <2>3, NoneTaken DEF NoneIn
    <3> QED BY <1>1, <2>3, <3>2, <3>3, SameMarks DEF NoneIn
  <2> QED BY <1>2, <2>2, <2>3, PlaceHandled DEF RefreshStep
<1>3. CASE f \in Marks
  <2>1. ~ None(line, Marks)
    BY <1>1, <1>3 DEF None
  <2>2. ASSUME Sole(line, Marks) PROVE None(line', Marks)
    BY <1>1, <1>3, <2>2, SoleTaken
  <2>3. ASSUME NEW c, None(line, Says(MarkCmds \ {c})) PROVE f.cmd = c
    BY <1>1, <1>3, <2>3 DEF None, Marks, Says
  <2>4. CASE AtEnd(FALSE, "CLEAR_AUTOMATION_DYNAMIC_IMAGE") /\ AllIn
    <3>1. /\ None(line', Marks) /\ f.cmd = "CLEAR_AUTOMATION_DYNAMIC_IMAGE"
          /\ None(keys, Reqs) /\ listing = << >>
      BY <2>2, <2>3, <2>4 DEF AtEnd, Awaits
    <3>2. \A d \in Devices : None(line', DeviceFrames(d))
      BY <1>1, <2>4, NoneTaken DEF AllIn, Entered
    <3>3. self' = Unlisted /\ keys' = Append(keys, [cmd |-> "EQUIP_LIST_REQUEST"])
      BY <3>1, RefreshHandled
    <3> QED BY <1>1, <3>1, <3>2, <3>3, AskedAgain
  <2>5. CASE AtEnd(TRUE, "EQUIP_LIST_COMPLETE") /\ AllComing
    <3>1. /\ None(line', Marks) /\ f.cmd = "EQUIP_LIST_COMPLETE"
          /\ None(keys, Reqs) /\ listing = << >> /\ self.refresh_pending = TRUE
      BY <2>2, <2>3, <2>5 DEF AtEnd, Awaits
    <3>2. AllIn'
      BY <1>3, <2>5, <3>1, InHandled
    <3>3. self'.refresh_pending /\ keys' = Append(keys, [cmd |-> "DYNAMIC_DATA_REFRESH"])
      BY <3>1, RefreshHandled
    <3>4. Sole(keys', Reqs) /\ None(keys', Asks(Requests \ {"DYNAMIC_DATA_REFRESH"}))
      BY <3>1, <3>3, AsksOnce DEF Types, Requests
    <3> QED BY <1>1, <3>1, <3>2, <3>3, <3>4, SameMarks DEF RefreshStep, AskedFor
  <2>6. CASE AtEnd(TRUE, "TIME_AND_DATE") /\ AllIn
    <3>1. /\ None(line', Marks) /\ f.cmd = "TIME_AND_DATE"
          /\ None(keys, Reqs) /\ listing = << >> /\ self.refresh_pending = TRUE
      BY <2>2, <2>3, <2>6 DEF AtEnd, Awaits
    <3>2. AllIn'
      BY <2>6, <3>1, InHandled
    <3>3. self'.refresh_pending = FALSE /\ keys' = keys
      BY <3>1, RefreshHandled, HandleTypes, Parts DEF Types, TypeOK
    <3> QED BY <1>1, <3>1, <3>2, <3>3, SameMarks DEF RefreshStep, AtRest, Awaits
  <2> QED BY <2>1, <2>4, <2>5, <2>6 DEF RefreshStep, AtRest, AskedFor, AtList
<1> QED BY <1>2, <1>3

\* What is in or on its way stays so when only messages come and go.
LEMMA InKept ==
  ASSUME UNCHANGED <<self, line, listing, plan>>
  PROVE  (AllIn => AllIn') /\ (AllComing => AllComing') /\ (NoneIn => NoneIn')
<1>1. \A e : Active(e)' = Active(e)
  BY DEF Active
<1>2. \A e : ComingThing(e)' = ComingThing(e)
  BY <1>1, SameMarks DEF ComingThing, ListEnds, Complete, TimeAndDate
<1>3. \A d : /\ Entered(d)' = Entered(d) /\ Reported(d)' = Reported(d) /\ Listed(d)' = Listed(d)
             /\ DeviceFrames(d)' = DeviceFrames(d)
  BY SameMarks DEF Entered, Reported, Listed, DeviceEntry, ListEnds, Complete, TimeAndDate
<1> QED BY <1>1, <1>2, <1>3, SameMarks DEF AllIn, AllComing, NoneIn

\* Messages that ask for no list come behind the one that does, or leave it in place.
LEMMA AskedStays ==
  ASSUME Types, NEW k \in Key, k.cmd \notin Requests
  PROVE  LET t == Append(keys, k)
         IN /\ None(keys, Reqs) => None(t, Reqs)
            /\ Sole(keys, Reqs) => Sole(t, Reqs)
            /\ \A c : None(keys, Asks(Requests \ {c})) => None(t, Asks(Requests \ {c}))
<1> DEFINE one == <<k>>
<1>1. keys \in Seq(Key)
  BY DEF Types
<1>2. Append(keys, k) = keys \o one /\ one \in Seq(Key) /\ Range(one) = {k}
  BY <1>1, AppendOne
<1> HIDE DEF one
<1>3. None(one, Reqs) /\ \A c : None(one, Asks(Requests \ {c}))
  BY <1>2 DEF None, Reqs, Asks
<1>4. None(keys, Reqs) => None(keys \o one, Reqs)
  BY <1>1, <1>2, <1>3, NoneOfBoth
<1>5. Sole(keys, Reqs) => Sole(keys \o one, Reqs)
  BY <1>1, <1>2, <1>3, SoleStays
<1>6. ASSUME NEW c, None(keys, Asks(Requests \ {c}))
      PROVE  None(keys \o one, Asks(Requests \ {c}))
  <2> DEFINE M == Asks(Requests \ {c})
  <2>1. None(keys, M) /\ None(one, M)
    BY <1>3, <1>6
  <2> HIDE DEF M
  <2>2. None(keys \o one, M)
    BY <1>1, <1>2, <2>1, NoneOfBoth
  <2> QED BY <2>2 DEF M
<1> QED BY <1>2, <1>4, <1>5, <1>6

\* Whoever waits for a refresh to be over finds everything in the image.
LEMMA RefreshIsOver ==
  ASSUME Types, RefreshIdle, RefreshStep
  PROVE  AtRest /\ AllIn
<1>1. (AtRest \/ AtEnd(FALSE, "CLEAR_AUTOMATION_DYNAMIC_IMAGE")) /\ AllIn
  BY DEF RefreshIdle, RefreshStep, AskedFor, AtList, AtEnd, Awaits
<1>2. ASSUME AtEnd(FALSE, "CLEAR_AUTOMATION_DYNAMIC_IMAGE") PROVE FALSE
  <2>1. PICK i \in DOMAIN line : line[i] \in Marks
    BY <1>2 DEF AtEnd, Sole
  <2>2. line[i] \notin Says(MarkCmds \ {"CLEAR_AUTOMATION_DYNAMIC_IMAGE"})
    BY <1>2 DEF AtEnd, None, Range
  <2>3. line[i].cmd = "CLEAR_AUTOMATION_DYNAMIC_IMAGE" /\ i \in 1 .. Len(line)
    BY <2>1, <2>2 DEF Marks, Says, Types
  <2> QED BY <2>3 DEF RefreshIdle
<1> QED BY <1>1, <1>2

\* A client that asks for a refresh does so when none is under way; its other
\* calls ask for no list.
LEMMA RefreshCalled ==
  ASSUME Types, Call, ~ plan.overlap, RefreshStep
  PROVE  RefreshStep'
<1>1. CASE Refresh
  <2>1. /\ self' = Unlisted /\ keys' = Append(keys, [cmd |-> "EQUIP_LIST_REQUEST"])
        /\ UNCHANGED <<line, listing, plan>> /\ RefreshIdle
    BY <1>1 DEF Refresh, EquipmentRefresh
  <2>2. AtRest /\ AllIn
    BY <2>1, RefreshIsOver
  <2>4. None(keys, Reqs) /\ listing = << >> /\ None(line, Marks)
    BY <2>2 DEF AtRest, Awaits
  <2>5. \A d \in Devices : None(line, DeviceFrames(d))
    BY <2>2 DEF AllIn, Entered
  <2> QED BY <2>1, <2>4, <2>5, AskedAgain
<1>2. CASE ~ Refresh
  <2>1. /\ UNCHANGED <<self, line, listing, plan>>
        /\ \/ keys' = keys
           \/ \E k \in Key : keys' = Append(keys, k) /\ k.cmd \notin Requests
    BY <1>2, OtherCalls
  <2>2. /\ None(keys, Reqs) => None(keys', Reqs)
        /\ Sole(keys, Reqs) => Sole(keys', Reqs)
        /\ \A c : None(keys, Asks(Requests \ {c})) => None(keys', Asks(Requests \ {c}))
    BY <2>1, AskedStays
  <2>3. \A end : EndsWith(listing, end)' = EndsWith(listing, end)
    BY <2>1 DEF EndsWith, ListEnds, Complete, TimeAndDate
  <2>4. /\ AtRest => AtRest'
        /\ \A c : AskedFor(c) => AskedFor(c)'
        /\ \A end : AtList(end) => AtList(end)'
        /\ \A pending, c : AtEnd(pending, c) => AtEnd(pending, c)'
    <3>1. AtRest => AtRest'
      BY <2>1, <2>2, SameMarks DEF AtRest, Awaits
    <3>2. ASSUME NEW c, AskedFor(c) PROVE AskedFor(c)'
      <4> DEFINE M == Asks(Requests \ {c})
      <4>1. M' = M
        BY <2>1, SameMarks
      <4>2. None(keys', M) /\ Sole(keys', Reqs)
        BY <2>2, <3>2 DEF AskedFor
      <4> QED BY <2>1, <3>2, <4>1, <4>2, SameMarks DEF AskedFor
    <3>3. \A end : AtList(end) => AtList(end)'
      BY <2>1, <2>2, <2>3, SameMarks DEF AtList, Awaits
    <3>4. \A pending, c : AtEnd(pending, c) => AtEnd(pending, c)'
      BY <2>1, <2>2, SameMarks DEF AtEnd, Awaits
    <3> QED BY <3>1, <3>2, <3>3, <3>4
  <2> QED BY <2>1, <2>4, InKept DEF RefreshStep, Complete, TimeAndDate
<1> QED BY <1>1, <1>2

\* Nothing that is in or on its way is lost when the panel reports what has
\* nothing to do with a list.
LEMMA InActs ==
  ASSUME Types, NEW frames, Acts(frames), ~ LossAct(frames)
  PROVE  (AllIn => AllIn') /\ (AllComing => AllComing') /\ (NoneIn => NoneIn')
<1>1. /\ line \in Seq(Frame) /\ frames \in Seq(Frame) /\ line' = line \o frames
      /\ UNCHANGED <<self, listing, plan>>
  BY ActsLine DEF Acts
<1>2. /\ \A e : None(frames, FramesOf(e))
      /\ \A d : None(frames, DeviceFrames(d))
      /\ None(frames, Marks)
  BY ActsAside DEF Marks, DeviceFrames
<1>3. ASSUME NEW M, None(frames, M)
      PROVE  (None(line, M) => None(line', M)) /\ (Sole(line, M) => Sole(line', M))
  BY <1>1, <1>3, NoneOfBoth, SoleStays
<1>4. ASSUME NEW A, NEW M, Before(line, A, M) PROVE Before(line', A, M)
  BY <1>1, <1>4, BeforeStays
<1>5. \A e : Active(e)' = Active(e)
  BY <1>1 DEF Active
<1>6. None(line, Marks) => None(line', Marks)
  BY <1>2, <1>3
<1>7. ASSUME NEW e, ComingThing(e) PROVE ComingThing(e)'
  BY <1>1, <1>4, <1>5, <1>6, <1>7, SameMarks DEF ComingThing, ListEnds, Complete, TimeAndDate
<1>8. ASSUME NEW d \in Devices
      PROVE  /\ Entered(d) => Entered(d)'
             /\ Reported(d) => Reported(d)'
             /\ Listed(d) => Listed(d)'
             /\ None(line, DeviceFrames(d)) => None(line, DeviceFrames(d))'
  <2> DEFINE D == DeviceFrames(d)
  <2>1. D' = D
    BY <1>1, SameMarks
  <2>2. None(frames, D)
    BY <1>2
  <2>3. (None(line, D) => None(line', D)) /\ (Sole(line, D) => Sole(line', D))
        /\ (Before(line, D, Marks) => Before(line', D, Marks))
    <3> HIDE DEF D
    <3> QED BY <1>3, <1>4, <2>2
  <2>4. Marks' = Marks /\ ListEnds' = ListEnds /\ DeviceEntry(d)' = DeviceEntry(d)
    BY <1>1, SameMarks DEF DeviceEntry, ListEnds, Complete, TimeAndDate
  <2>5. Entered(d) => Entered(d)'
    BY <1>1, <2>1, <2>3, <2>4 DEF Entered
  <2>6. Reported(d) => Reported(d)'
    BY <1>1, <2>1, <2>3, <2>4 DEF Reported
  <2>7. Listed(d) => Listed(d)'
    BY <1>1, <1>6, <2>1, <2>3, <2>4 DEF Listed
  <2>8. None(line, D) => None(line', D')
    BY <2>1, <2>3
  <2> QED BY <2>5, <2>6, <2>7, <2>8
<1> QED BY <1>1, <1>5, <1>7, <1>8, SameMarks DEF AllIn, AllComing, NoneIn

\* Nor does it change where the refresh is.
LEMMA PlaceActs ==
  ASSUME Types, NEW frames, Acts(frames), ~ LossAct(frames)
  PROVE  /\ AtRest => AtRest'
         /\ \A c : AskedFor(c) => AskedFor(c)'
         /\ \A end : AtList(end) => AtList(end)'
         /\ \A pending, c : AtEnd(pending, c) => AtEnd(pending, c)'
<1>1. /\ line \in Seq(Frame) /\ frames \in Seq(Frame) /\ line' = line \o frames
      /\ UNCHANGED <<self, listing, plan>> /\ keys \in Seq(Key)
      /\ \/ keys' = keys
         \/ keys # << >> /\ Head(keys).cmd \notin Requests /\ keys' = Tail(keys)
  BY ActsLine DEF Acts, Types
<1>2. ASSUME NEW M, None(keys, M) PROVE None(keys', M)
  <2>1. keys # << >> => None(Tail(keys), M)
    BY <1>1, <1>2, NoneTaken
  <2> QED BY <1>1, <1>2, <2>1
<1>3. Sole(keys, Reqs) => Sole(keys', Reqs)
  <2>1. Head(keys).cmd \notin Requests => Head(keys) \notin Reqs
    BY DEF Reqs, Asks
  <2>2. ASSUME keys # << >>, Sole(keys, Reqs), Head(keys) \notin Reqs
        PROVE  Sole(Tail(keys), Reqs)
    BY <1>1, <2>2, SoleTaken
  <2> QED BY <1>1, <2>1, <2>2
<1>4. None(frames, Marks)
  BY ActsAside DEF Marks
<1>5. /\ None(line, Marks) => None(line', Marks)
      /\ Sole(line, Marks) => Sole(line', Marks)
  BY <1>1, <1>4, NoneOfBoth, SoleStays
<1>6. ASSUME NEW c, None(line, Says(MarkCmds \ {c})) PROVE None(line', Says(MarkCmds \ {c}))
  <2> DEFINE M == Says(MarkCmds \ {c})
  <2>1. None(frames, M) /\ None(line, M)
    BY <1>4, <1>6 DEF None, Marks, Says
  <2> HIDE DEF M
  <2>2. None(line', M)
    BY <1>1, <2>1, NoneOfBoth
  <2> QED BY <2>2 DEF M
<1>7. \A c : None(keys, Asks(Requests \ {c})) => None(keys', Asks(Requests \ {c}))
  BY <1>2
<1>8. None(keys, Reqs) => None(keys', Reqs)
  BY <1>2
<1>9. \A end : EndsWith(listing, end)' = EndsWith(listing, end)
  BY <1>1 DEF EndsWith, ListEnds, Complete, TimeAndDate
<1>10. AtRest => AtRest'
  BY <1>1, <1>5, <1>8, SameMarks DEF AtRest, Awaits
<1>11. ASSUME NEW c, AskedFor(c) PROVE AskedFor(c)'
  <2> DEFINE M == Asks(Requests \ {c})
  <2>1. M' = M
    BY <1>1, SameMarks
  <2>2. None(keys', M)
    BY <1>7, <1>11 DEF AskedFor
  <2> QED BY <1>1, <1>3, <1>5, <1>11, <2>1, <2>2, SameMarks DEF AskedFor
<1>12. \A end : AtList(end) => AtList(end)'
  BY <1>1, <1>5, <1>8, <1>9, SameMarks DEF AtList, Awaits
<1>13. ASSUME NEW pending, NEW c, AtEnd(pending, c) PROVE AtEnd(pending, c)'
  <2> DEFINE M == Says(MarkCmds \ {c})
  <2>1. M' = M
    BY <1>1, SameMarks
  <2>2. None(line', M)
    BY <1>6, <1>13 DEF AtEnd
  <2> QED BY <1>1, <1>5, <1>8, <1>13, <2>1, <2>2, SameMarks DEF AtEnd, Awaits
<1> QED BY <1>10, <1>11, <1>12, <1>13

\* When the panel asks for a refresh, none is under way.
LEMMA RefreshLost ==
  ASSUME Types, NEW frames, Acts(frames), LossAct(frames), ~ plan.overlap, RefreshStep
  PROVE  RefreshStep'
<1> DEFINE g == [cmd |-> "CLEAR_AUTOMATION_DYNAMIC_IMAGE"]
           one == <<g>>
           others == Says(MarkCmds \ {"CLEAR_AUTOMATION_DYNAMIC_IMAGE"})
<1>1. /\ line \in Seq(Frame) /\ line' = line \o one /\ one \in Seq(Frame)
      /\ UNCHANGED <<self, keys, listing, plan>> /\ RefreshIdle
  BY ActsLine DEF LossAct, LosesEvents, Happens
<1>2. AtRest /\ AllIn
  BY <1>1, RefreshIsOver
<1>3. g.cmd = "CLEAR_AUTOMATION_DYNAMIC_IMAGE" /\ Range(one) = {g}
  BY RangeOfFrames
<1> HIDE DEF g
<1>4. g \in Frame
  BY <1>1, <1>3 DEF Range
<1>5. /\ Sole(one, Marks) /\ None(one, others)
      /\ \A d \in Devices : None(one, DeviceFrames(d))
  <2>1. g \in Marks /\ g \notin others /\ \A d \in Devices : g \notin DeviceFrames(d)
    BY <1>3, <1>4, DeviceFrame1 DEF Marks, Says, MarkCmds
  <2>2. Sole(one, Marks)
    <3> HIDE DEF others
    <3> QED BY <2>1 DEF Sole
  <2>3. None(one, others) /\ \A d \in Devices : None(one, DeviceFrames(d))
    BY <1>3, <2>1 DEF None
  <2> QED BY <2>2, <2>3
<1>6. None(line, others) /\ None(line, Marks)
  BY <1>2 DEF AtRest, None, Marks, Says
<1> HIDE DEF one, others
<1>7. None(line', others) /\ Sole(line', Marks)
  BY <1>1, <1>5, <1>6, NoneOfBoth, SoleComes
<1>8. ASSUME NEW d \in Devices PROVE None(line', DeviceFrames(d))
  <2> DEFINE D == DeviceFrames(d)
  <2>1. None(line, D) /\ None(one, D)
    BY <1>2, <1>5 DEF AllIn, Entered
  <2> HIDE DEF D
  <2>2. None(line', D)
    BY <1>1, <2>1, NoneOfBoth
  <2> QED BY <2>2 DEF D
<1>9. others' = others
  BY <1>1, SameMarks DEF others
<1>10. AtEnd(FALSE, "CLEAR_AUTOMATION_DYNAMIC_IMAGE")'
  BY <1>1, <1>2, <1>7, <1>9, SameMarks DEF AtEnd, AtRest, Awaits, others
<1>11. AllIn'
  <2>1. \A e : Active(e)' = Active(e)
    BY <1>1 DEF Active
  <2>2. \A d \in Devices : Entered(d)'
    BY <1>1, <1>2, <1>8, SameMarks DEF AllIn, Entered, DeviceEntry
  <2> QED BY <1>1, <1>2, <2>1, <2>2, SameMarks DEF AllIn
<1> QED BY <1>10, <1>11 DEF RefreshStep

\* The end of a list is the last that is listed,
LEMMA EndTaken ==
  ASSUME NEW s \in Seq(Entry), NEW end \in ListEnds, EndsWith(s, end)
  PROVE  IF Len(s) = 1 THEN Head(s) = end /\ Tail(s) = << >>
                       ELSE Head(s) \notin ListEnds /\ EndsWith(Tail(s), end)
<1> DEFINE u == Tail(s)
<1>0. s # << >>
  BY DEF EndsWith
<1>1. /\ u \in Seq(Entry) /\ Head(s) = s[1] /\ 1 \in DOMAIN s
      /\ DOMAIN s = 1 .. Len(s) /\ DOMAIN u = 1 .. Len(s) - 1 /\ Len(s) \in Nat \ {0}
      /\ \A i \in DOMAIN u : i + 1 \in DOMAIN s /\ u[i] = s[i + 1]
  BY <1>0, TailOf
<1>3. Len(u) = Len(s) - 1
  BY <1>0, HeadTailProperties
<1> HIDE DEF u
<1>2. \A i \in DOMAIN s : IF i = Len(s) THEN s[i] = end ELSE s[i] \notin ListEnds
  BY DEF EndsWith
<1>4. CASE Len(s) = 1
  <2>1. u = << >>
    BY <1>1, <1>3, <1>4
  <2> QED BY <1>1, <1>2, <1>4, <2>1 DEF u
<1>5. CASE Len(s) # 1
  <2>1. Head(s) \notin ListEnds /\ u # << >>
    BY <1>1, <1>2, <1>3, <1>5
  <2>2. ASSUME NEW i \in DOMAIN u
        PROVE  IF i = Len(u) THEN u[i] = end ELSE u[i] \notin ListEnds
    <3>1. i + 1 \in DOMAIN s /\ u[i] = s[i + 1] /\ (i = Len(u) <=> i + 1 = Len(s))
      BY <1>1, <1>3
    <3> QED BY <1>2, <3>1
  <2>3. EndsWith(u, end)
    BY <2>1, <2>2 DEF EndsWith
  <2> QED BY <1>5, <2>1, <2>3 DEF u
<1> QED BY <1>4, <1>5

\* and a list with no end in it ends with the one put behind it.
LEMMA EndPut ==
  ASSUME NEW b \in Seq(Entry), None(b, ListEnds), NEW end \in Entry
  PROVE  EndsWith(b \o <<end>>, end)
<1> DEFINE one == <<end>>
           s == b \o one
<1>1. one \in Seq(Entry) /\ Len(one) = 1 /\ one[1] = end
  OBVIOUS
<1> HIDE DEF one
<1>2. /\ s \in Seq(Entry) /\ Len(b) \in Nat /\ DOMAIN s = 1 .. Len(b) + 1
      /\ DOMAIN b = 1 .. Len(b) /\ DOMAIN one = 1 .. 1
      /\ \A i \in DOMAIN b : s[i] = b[i]
      /\ \A i \in DOMAIN one : s[Len(b) + i] = one[i]
  <2>1. s \in Seq(Entry) /\ Concat(s, b, one)
    BY <1>1, ConcatOf
  <2>2. DOMAIN one = 1 .. 1 /\ Len(one) = 1
    BY <1>1
  <2> HIDE DEF s
  <2> QED BY <2>1, <2>2 DEF Concat
<1> HIDE DEF s
<1>3. Len(s) = Len(b) + 1 /\ s # << >> /\ s[Len(b) + 1] = end
  BY <1>1, <1>2
<1>4. \A i \in DOMAIN b : b[i] \notin ListEnds
  BY DEF None, Range
<1>5. ASSUME NEW i \in DOMAIN s
      PROVE  IF i = Len(s) THEN s[i] = end ELSE s[i] \notin ListEnds
  <2>1. i # Len(s) => i \in DOMAIN b
    BY <1>2, <1>3
  <2> QED BY <1>2, <1>3, <1>4, <2>1
<1>6. EndsWith(s, end)
  BY <1>3, <1>5 DEF EndsWith
<1> QED BY <1>6 DEF s, one

\* A list goes on, or its end is reported.
LEMMA PlaceListed ==
  ASSUME Types, PanelLists, NEW end \in ListEnds, AtList(end)
  PROVE  (AtList(end) \/ AtEnd(TRUE, end[1]))'
<1> DEFINE h == Head(listing)
           f == Report(h[1], h[2])
           one == <<f>>
           others == Says(MarkCmds \ {end[1]})
<1>1. /\ line \in Seq(Frame) /\ listing \in Seq(Entry) /\ listing # << >> /\ h \in Entry
      /\ line' = line \o one /\ listing' = Tail(listing) /\ UNCHANGED <<self, keys, plan>>
  BY DEF PanelLists, Reports, Types
<1>2. /\ f \in Frame
      /\ h = Complete => f \in Says({"EQUIP_LIST_COMPLETE"})
      /\ h = TimeAndDate => f \in Says({"TIME_AND_DATE"})
      /\ h \notin ListEnds => f \notin Says(MarkCmds)
  BY <1>1, ReportSays
<1>3. IF Len(listing) = 1 THEN h = end /\ Tail(listing) = << >>
                          ELSE h \notin ListEnds /\ EndsWith(Tail(listing), end)
  BY <1>1, EndTaken DEF AtList
<1> HIDE DEF f, h
<1>4. one \in Seq(Frame) /\ Range(one) = {f}
  BY <1>2, RangeOfFrames
<1>5. Awaits(TRUE)' /\ None(line, Marks)
  BY <1>1, SameMarks DEF AtList, Awaits
<1>6. CASE Len(listing) # 1
  <2>1. None(one, Marks)
    BY <1>2, <1>3, <1>4, <1>6 DEF None, Marks
  <2> HIDE DEF one
  <2>2. None(line', Marks)
    BY <1>1, <1>4, <1>5, <2>1, NoneOfBoth
  <2>3. EndsWith(listing', end) /\ ListEnds' = ListEnds
    BY <1>1, <1>3, <1>6 DEF ListEnds, Complete, TimeAndDate
  <2>4. EndsWith(listing, end)'
    BY <2>3 DEF EndsWith
  <2> QED BY <1>1, <1>5, <2>2, <2>4, SameMarks DEF AtList
<1>7. CASE Len(listing) = 1
  <2>1. f \in Frame /\ f.cmd = end[1] /\ end[1] \in MarkCmds
    <3>1. CASE end = Complete
      BY <1>2, <1>3, <1>7, <3>1 DEF Complete, MarkCmds, Says
    <3>2. CASE end = TimeAndDate
      BY <1>2, <1>3, <1>7, <3>2 DEF TimeAndDate, MarkCmds, Says
    <3> QED BY <3>1, <3>2 DEF ListEnds
  <2>2. f \in Marks /\ f \notin others
    BY <2>1 DEF Marks, Says
  <2>3. None(line, others)
    BY <1>5 DEF None, Marks, Says
  <2>4. others' = others
    BY <1>1, SameMarks
  <2> HIDE DEF others
  <2>5. None(one, others)
    BY <1>4, <2>2 DEF None
  <2>7. Sole(one, Marks)
    BY <2>2 DEF Sole
  <2> HIDE DEF one
  <2>6. Sole(line', Marks) /\ None(line', others)
    BY <1>1, <1>4, <1>5, <2>3, <2>5, <2>7, SoleComes, NoneOfBoth
  <2> QED BY <1>1, <1>3, <1>5, <1>7, <2>4, <2>6, SameMarks DEF AtEnd, others
<1> QED BY <1>6, <1>7

\* What is listed is on its way, or still to be listed.
LEMMA ComingListed ==
  ASSUME Types, PanelLists, None(line, Marks), NEW e \in Things, ComingThing(e)
  PROVE  ComingThing(e)'
<1> DEFINE h == Head(listing)
           f == Report(h[1], h[2])
           one == <<f>>
<1>1. /\ line \in Seq(Frame) /\ listing \in Seq(Entry) /\ listing # << >> /\ h \in Entry
      /\ line' = line \o one /\ listing' = Tail(listing) /\ UNCHANGED <<self, keys, plan>>
  BY DEF PanelLists, Reports, Types
<1>2. /\ f \in Frame
      /\ h \in Things => f \in FramesOf(h)
      /\ h \notin ListEnds => f \notin Marks
  BY <1>1, ReportSays DEF Marks
<1> HIDE DEF f, h
<1>3. one \in Seq(Frame) /\ Range(one) = {f}
  BY <1>2, RangeOfFrames
<1> HIDE DEF one
<1>4. CASE Active(e)
  BY <1>1, <1>4 DEF ComingThing, Active
<1>5. CASE Before(line, FramesOf(e), Marks)
  <2>1. Before(line', FramesOf(e), Marks)
    BY <1>1, <1>3, <1>5, BeforeStays
  <2> QED BY <1>1, <2>1, SameMarks DEF ComingThing
<1>6. CASE Before(listing, {e}, ListEnds)
  <2>1. h \notin ListEnds /\ (h = e \/ Before(Tail(listing), {e}, ListEnds))
    BY <1>1, <1>6, BeforeTaken DEF h
  <2>2. None(one, Marks)
    BY <1>2, <1>3, <2>1 DEF None
  <2>3. None(line', Marks)
    BY <1>1, <1>3, <2>2, NoneOfBoth
  <2>4. CASE h = e
    <3>1. line' \in Seq(Frame) /\ Range(line') = Range(line) \union Range(one)
      BY <1>1, <1>3, ConcatListed
    <3>2. f \in FramesOf(e) /\ f \in Range(line')
      BY <1>2, <1>3, <2>4, <3>1
    <3>3. Before(line', FramesOf(e), Marks)
      BY <2>3, <3>1, <3>2, BeforeNone
    <3> QED BY <1>1, <3>3, SameMarks DEF ComingThing
  <2>5. CASE Before(Tail(listing), {e}, ListEnds)
    BY <1>1, <2>3, <2>5, SameMarks DEF ComingThing, ListEnds, Complete, TimeAndDate
  <2> QED BY <2>1, <2>4, <2>5
<1> QED BY <1>4, <1>5, <1>6 DEF ComingThing

\* A bus device that is listed is reported once.
LEMMA DeviceListed ==
  ASSUME Types, PanelLists, None(line, Marks), NEW d \in Devices
  PROVE  /\ Entered(d) => Entered(d)'
         /\ Reported(d) => Reported(d)'
         /\ Listed(d) => Reported(d)' \/ Listed(d)'
<1> DEFINE h == Head(listing)
           f == Report(h[1], h[2])
           one == <<f>>
           D == DeviceFrames(d)
           E == DeviceEntry(d)
<1>1. /\ line \in Seq(Frame) /\ listing \in Seq(Entry) /\ listing # << >> /\ h \in Entry
      /\ line' = line \o one /\ listing' = Tail(listing) /\ UNCHANGED <<self, keys, plan>>
  BY DEF PanelLists, Reports, Types
<1>2. /\ f \in Frame
      /\ h \in E <=> f \in D
      /\ h \notin ListEnds => f \notin Marks
  BY <1>1, ReportSays DEF Marks, DeviceFrames
<1>3. D' = D /\ E' = E /\ Marks' = Marks /\ ListEnds' = ListEnds
  BY <1>1, SameMarks DEF DeviceEntry, ListEnds, Complete, TimeAndDate
<1> HIDE DEF f, h, D, E
<1>4. one \in Seq(Frame) /\ Range(one) = {f} /\ (f \in D => Sole(one, D))
  BY <1>2, RangeOfFrames DEF Sole
<1> HIDE DEF one
<1>5. ASSUME None(listing, E)
      PROVE  /\ None(listing', E) /\ None(one, D)
             /\ None(line, D) => None(line', D)
             /\ Sole(line, D) => Sole(line', D)
  <2>1. h \notin E /\ None(Tail(listing), E)
    BY <1>1, <1>5, NoneTaken DEF h
  <2>2. None(one, D)
    BY <1>2, <1>4, <2>1 DEF None
  <2>3. (None(line, D) => None(line \o one, D)) /\ (Sole(line, D) => Sole(line \o one, D))
    BY <1>1, <1>4, <2>2, NoneOfBoth, SoleStays
  <2> QED BY <1>1, <2>1, <2>2, <2>3
<1>6. Before(line, D, Marks) => Before(line', D, Marks)
  <2>1. Before(line, D, Marks) => Before(line \o one, D, Marks)
    BY <1>1, <1>4, BeforeStays
  <2> QED BY <1>1, <2>1
<1>7. Entered(d) => Entered(d)'
  BY <1>1, <1>3, <1>5 DEF Entered, D, E
<1>8. Reported(d) => Reported(d)'
  BY <1>1, <1>3, <1>5, <1>6 DEF Reported, D, E
<1>9. ASSUME Listed(d) PROVE Reported(d)' \/ Listed(d)'
  <2>1. /\ None(self.bus_device, {d}) /\ None(line, D) /\ Sole(listing, E)
        /\ Before(listing, E, ListEnds)
    BY <1>9 DEF Listed, D, E
  <2>2. /\ h \notin ListEnds /\ (h \in E \/ Before(Tail(listing), E, ListEnds))
        /\ IF h \in E THEN None(Tail(listing), E) ELSE Sole(Tail(listing), E)
    BY <1>1, <2>1, BeforeTaken, SoleTaken DEF h
  <2>3. None(one, Marks)
    BY <1>2, <1>4, <2>2 DEF None
  <2>4. None(line', Marks)
    BY <1>1, <1>4, <2>3, NoneOfBoth
  <2>5. CASE h \in E
    <3>1. f \in D /\ Sole(one, D)
      BY <1>2, <1>4, <2>5
    <3>2. Sole(line', D)
      BY <1>1, <1>4, <2>1, <3>1, SoleComes
    <3>3. line' \in Seq(Frame) /\ Range(line') = Range(line) \union Range(one)
      BY <1>1, <1>4, ConcatListed
    <3>4. f \in Range(line')
      BY <1>4, <3>3
    <3>5. Before(line', D, Marks)
      BY <2>4, <3>1, <3>3, <3>4, BeforeNone
    <3> QED BY <1>1, <1>3, <2>1, <2>2, <2>5, <3>2, <3>5 DEF Reported, D, E
  <2>6. CASE h \notin E
    <3>1. None(one, D)
      BY <1>2, <1>4, <2>6 DEF None
    <3>2. None(line', D)
      BY <1>1, <1>4, <2>1, <3>1, NoneOfBoth
    <3> QED BY <1>1, <1>3, <2>1, <2>2, <2>4, <2>6, <3>2 DEF Listed, D, E
  <2> QED BY <2>5, <2>6
<1> QED BY <1>7, <1>8, <1>9

\* Listing one entry.
LEMMA RefreshListed ==
  ASSUME Types, PanelLists, RefreshStep
  PROVE  RefreshStep'
<1>1. listing # << >> /\ UNCHANGED <<self, plan>>
  BY DEF PanelLists
<1>2. CASE AtList(Complete) /\ AllComing
  <2>1. (AtList(Complete) \/ AtEnd(TRUE, "EQUIP_LIST_COMPLETE"))'
    BY <1>2, PlaceListed DEF ListEnds, Complete
  <2>2. AllComing'
    BY <1>1, <1>2, ComingListed, DeviceListed, SameMarks DEF AllComing, AtList
  <2> QED BY <2>1, <2>2 DEF RefreshStep
<1>3. CASE AtList(TimeAndDate) /\ AllIn
  <2>1. (AtList(TimeAndDate) \/ AtEnd(TRUE, "TIME_AND_DATE"))'
    BY <1>3, PlaceListed DEF ListEnds, TimeAndDate
  <2>2. \A e : Active(e)' = Active(e)
    BY <1>1 DEF Active
  <2>3. AllIn'
    BY <1>1, <1>3, <2>2, DeviceListed, SameMarks DEF AllIn, AtList
  <2> QED BY <2>1, <2>3 DEF RefreshStep
<1> QED BY <1>1, <1>2, <1>3 DEF RefreshStep, AtRest, AskedFor, AtEnd

\* A list begins: the first has everything in it, the second only reports.
LEMMA RefreshBegun ==
  ASSUME Types, PanelListsOnRequest, RefreshStep
  PROVE  RefreshStep'
<1> DEFINE k == Head(keys)
<1>1. /\ keys \in Seq(Key) /\ keys # << >> /\ keys' = Tail(keys)
      /\ UNCHANGED <<self, line, plan>> /\ plan \in Plans
      /\ \/ k.cmd = "EQUIP_LIST_REQUEST" /\ listing' = EquipmentList
         \/ k.cmd = "DYNAMIC_DATA_REFRESH" /\ listing' = DynamicData
  BY DEF PanelListsOnRequest, Obeys, Types, TypeOK
<1>2. k \in Range(keys) /\ k \in Key /\ k \in Reqs
  <2>1. k \in Range(keys) /\ k \in Key
    BY <1>1, TailOf DEF Range
  <2> QED BY <1>1, <2>1 DEF Reqs, Asks, Requests
<1>3. ~ None(keys, Reqs)
  BY <1>2 DEF None
<1>4. ASSUME NEW c, AskedFor(c)
      PROVE  k.cmd = c /\ Awaits(TRUE)' /\ None(line, Marks)'
  <2>1. k \notin Asks(Requests \ {c})
    BY <1>2, <1>4 DEF AskedFor, None
  <2>2. k.cmd = c
    BY <1>2, <2>1 DEF Reqs, Asks
  <2>3. None(keys', Reqs)
    BY <1>1, <1>2, <1>4, SoleTaken DEF AskedFor
  <2> QED BY <1>1, <1>4, <2>2, <2>3, SameMarks DEF AskedFor, Awaits
<1>5. PICK b \in Seq(Entry), c \in Seq(Entry) :
        /\ EquipmentList = b \o <<Complete>> /\ DynamicData = c \o <<TimeAndDate>>
        /\ None(b, ListEnds) /\ None(c, ListEnds)
        /\ Things \subseteq Range(b)
        /\ \A d \in Devices : Sole(b, DeviceEntry(d)) /\ None(c, DeviceEntry(d))
  BY <1>1, ListOrder
<1>6. Complete \in Entry /\ TimeAndDate \in Entry
  BY DEF Complete, TimeAndDate, Entry
<1>7. /\ EndsWith(EquipmentList, Complete) /\ EndsWith(DynamicData, TimeAndDate)
      /\ <<Complete>> \in Seq(Entry) /\ <<TimeAndDate>> \in Seq(Entry)
      /\ Range(<<Complete>>) = {Complete} /\ Range(<<TimeAndDate>>) = {TimeAndDate}
  BY <1>5, <1>6, EndPut, RangeOfFrames
<1>8. \A d \in Devices : None(<<Complete>>, DeviceEntry(d)) /\ None(<<TimeAndDate>>, DeviceEntry(d))
  BY <1>7 DEF None, DeviceEntry, Complete, TimeAndDate
<1>9. ASSUME NEW end, EndsWith(listing', end) PROVE EndsWith(listing, end)'
  BY <1>9 DEF EndsWith, ListEnds, Complete, TimeAndDate
<1>10. \A e : Active(e)' = Active(e)
  BY <1>1 DEF Active
<1>11. CASE AskedFor("EQUIP_LIST_REQUEST") /\ NoneIn
  <2>1. listing' = EquipmentList /\ Awaits(TRUE)' /\ None(line, Marks)'
    BY <1>1, <1>4, <1>11
  <2>2. AtList(Complete)'
    BY <1>7, <1>9, <2>1 DEF AtList
  <2>3. ASSUME NEW e \in Things PROVE ComingThing(e)'
    <3>1. Before(b, {e}, ListEnds)
      BY <1>5, BeforeNone
    <3>2. Before(listing', {e}, ListEnds)
      BY <1>5, <1>7, <2>1, <3>1, BeforeStays
    <3> QED BY <2>1, <3>2 DEF ComingThing, ListEnds, Complete, TimeAndDate
  <2>4. ASSUME NEW d \in Devices PROVE Listed(d)'
    <3> DEFINE E == DeviceEntry(d)
               D == DeviceFrames(d)
    <3>1. None(line, D) /\ self.bus_device = << >>
      BY <1>11 DEF NoneIn
    <3>2. Sole(b, E) /\ None(<<Complete>>, E)
      BY <1>5, <1>8
    <3>3. E' = E /\ D' = D /\ ListEnds' = ListEnds
      BY <1>1, SameMarks DEF DeviceEntry, ListEnds, Complete, TimeAndDate
    <3> HIDE DEF E, D
    <3>4. Sole(listing', E)
      BY <1>5, <1>7, <2>1, <3>2, SoleStays
    <3>5. Before(listing', E, ListEnds)
      <4>1. PICK x \in Range(b) : x \in E
        BY <3>2 DEF Sole, Range
      <4>2. Before(b, E, ListEnds)
        BY <1>5, <4>1, BeforeNone
      <4> QED BY <1>5, <1>7, <2>1, <4>2, BeforeStays
    <3>6. None(self'.bus_device, {d})
      BY <1>1, <3>1 DEF None, Range
    <3> QED BY <1>1, <2>1, <3>1, <3>3, <3>4, <3>5, <3>6 DEF Listed, D, E
  <2>5. AllComing'
    BY <1>1, <2>3, <2>4, SameMarks DEF AllComing
  <2> QED BY <2>2, <2>5 DEF RefreshStep
<1>12. CASE AskedFor("DYNAMIC_DATA_REFRESH") /\ AllIn
  <2>0. k.cmd = "DYNAMIC_DATA_REFRESH" /\ Awaits(TRUE)' /\ None(line, Marks)'
    BY <1>4, <1>12
  <2>1. listing' = DynamicData /\ Awaits(TRUE)' /\ None(line, Marks)'
    BY <1>1, <2>0
  <2>2. AtList(TimeAndDate)'
    BY <1>7, <1>9, <2>1 DEF AtList
  <2>3. ASSUME NEW d \in Devices PROVE Entered(d)'
    <3> DEFINE E == DeviceEntry(d)
    <3>1. None(c, E) /\ None(<<TimeAndDate>>, E)
      BY <1>5, <1>8
    <3>2. E' = E /\ Entered(d)
      BY <1>12 DEF DeviceEntry, AllIn
    <3> HIDE DEF E
    <3>3. None(listing', E)
      BY <1>5, <1>7, <2>1, <3>1, NoneOfBoth
    <3> QED BY <1>1, <3>2, <3>3, SameMarks DEF Entered, E
  <2>4. AllIn'
    BY <1>1, <1>10, <1>12, <2>3, SameMarks DEF AllIn
  <2> QED BY <2>2, <2>4 DEF RefreshStep
<1> QED BY <1>3, <1>11, <1>12 DEF RefreshStep, AtRest, AtList, AtEnd, Awaits

\* The daemon begins with asking for everything, which is not there.
LEMMA InitRefresh == Init => RefreshStep
<1> SUFFICES ASSUME Init PROVE RefreshStep
  OBVIOUS
<1> DEFINE k == [cmd |-> "EQUIP_LIST_REQUEST"]
<1>1. line = << >> /\ listing = << >> /\ self.refresh_pending /\ self.bus_device = << >>
  BY DEF Init
<1>2. keys = <<k>>
  BY DEF Init
<1>3. \A M : None(<< >>, M)
  BY DEF None, Range
<1>4. << >> \in Seq(Key) /\ "EQUIP_LIST_REQUEST" \in Requests
  BY DEF Requests
<1> DEFINE t == Append(<< >>, k)
           others == Asks(Requests \ {"EQUIP_LIST_REQUEST"})
<1>5. Sole(t, Reqs) /\ None(t, others)
  BY <1>3, <1>4, AsksOnce
<1>6. t = <<k>>
  OBVIOUS
<1> HIDE DEF t, others
<1>7. Sole(keys, Reqs) /\ None(keys, others)
  BY <1>2, <1>5, <1>6
<1> QED BY <1>1, <1>3, <1>7 DEF RefreshStep, AskedFor, NoneIn, others

\* A list in which every device is once has as many entries as there are devices.
LEMMA OnceEach ==
  ASSUME NEW bus \in Seq(Devices), \A d \in Devices : Sole(bus, {d})
  PROVE  ToSet(bus) = Devices /\ Len(bus) = Cardinality(Devices)
<1>1. Len(bus) \in Nat /\ DOMAIN bus = 1 .. Len(bus) /\ bus \in [1 .. Len(bus) -> Devices]
  OBVIOUS
<1>2. \A d \in Devices : \E i \in DOMAIN bus : \A j \in DOMAIN bus : bus[j] = d <=> j = i
  BY DEF Sole
<1>3. \A d \in Devices : \E i \in DOMAIN bus : bus[i] = d
  BY <1>2
<1>4. \A i, j \in DOMAIN bus : bus[i] = bus[j] => i = j
  BY <1>1, <1>2
<1>5. bus \in Bijection(1 .. Len(bus), Devices)
  BY <1>1, <1>3, <1>4 DEF Bijection, Injection, Surjection, IsInjective
<1>6. Cardinality(Devices) = Len(bus)
  BY <1>1, <1>5, FS_CountingElements DEF ExistsBijection
<1>7. ToSet(bus) = Devices
  BY <1>1, <1>3 DEF ToSet
<1> QED BY <1>6, <1>7

\* With everything in, the refresh was complete.
LEMMA AllInShown ==
  ASSUME Types, RefreshStep
  PROVE  RefreshedCompletely
<1> SUFFICES ASSUME ~ self.refresh_pending
             PROVE  /\ \A z \in plan.zones : self.zone[z].active
                    /\ \A o \in plan.outputs : self.output[o].active
                    /\ \A p \in plan.partitions : self.partition[p].active
                    /\ Len(self.bus_device) = Cardinality(Devices)
                    /\ ToSet(self.bus_device) = Devices
  BY DEF RefreshedCompletely
<1>1. AllIn
  BY DEF RefreshStep, AskedFor, AtList, AtEnd, Awaits
<1>2. ASSUME NEW z \in plan.zones PROVE self.zone[z].active
  <2> DEFINE e == <<"EQUIP_LIST_ZONE_DATA", z>>
  <2>1. e \in Things /\ e[1] = "EQUIP_LIST_ZONE_DATA" /\ e[2] = z
    BY <1>2 DEF Things
  <2> HIDE DEF e
  <2> QED BY <1>1, <2>1 DEF AllIn, Active
<1>3. ASSUME NEW o \in plan.outputs PROVE self.output[o].active
  <2> DEFINE e == <<"EQUIP_LIST_OUTPUT_DATA", o>>
  <2>1. e \in Things /\ e[1] = "EQUIP_LIST_OUTPUT_DATA" /\ e[2] = o
    BY <1>3 DEF Things
  <2> HIDE DEF e
  <2> QED BY <1>1, <2>1 DEF AllIn, Active
<1>4. ASSUME NEW p \in plan.partitions PROVE self.partition[p].active
  <2> DEFINE e == <<"EQUIP_LIST_PARTITION_DATA", p>>
  <2>1. e \in Things /\ e[1] = "EQUIP_LIST_PARTITION_DATA" /\ e[2] = p
    BY <1>4 DEF Things
  <2> HIDE DEF e
  <2> QED BY <1>1, <2>1 DEF AllIn, Active
<1>5. self.bus_device \in Seq(Devices) /\ \A d \in Devices : Sole(self.bus_device, {d})
  BY <1>1, Parts DEF AllIn, Entered, Types, TypeOK
<1> QED BY <1>2, <1>3, <1>4, <1>5, OnceEach

\* When requests are let in again, all that the panel listed is in the image
\* and each bus device is in it once, as long as no refresh is asked for while
\* one is under way and the panel sends no frame twice: the image is cleared by
\* concordd_equipment_refresh() before the list is asked for, the end of the
\* list asks for the dynamic data (concordd_handle_equip_list_complete()), and
\* only the time behind it ends the refresh (concordd_handle_time_and_date()).
THEOREM RefreshBringsAll ==
  ASSUME \A q \in Plans : ~ q.overlap /\ ~ q.resent
  PROVE  Spec => []RefreshedCompletely
<1> DEFINE Inv == Types /\ RefreshStep
<1>1. Init => Inv
  BY InitTypes, InitRefresh
<1>2. Inv /\ [Next]_vars => Inv'
  <2> SUFFICES ASSUME Types, RefreshStep, [Next]_vars PROVE RefreshStep'
    BY NextTypes
  <2>1. ~ plan.overlap /\ ~ plan.resent
    BY DEF Types, TypeOK
  <2>2. CASE Handle
    BY <2>1, <2>2, RefreshTaken
  <2>3. CASE Call
    BY <2>1, <2>3, RefreshCalled
  <2>4. CASE PanelLists
    BY <2>4, RefreshListed
  <2>5. CASE PanelListsOnRequest
    BY <2>5, RefreshBegun
  <2>6. ASSUME NEW frames, Acts(frames) PROVE RefreshStep'
    <3>1. CASE LossAct(frames)
      BY <2>1, <2>6, <3>1, RefreshLost
    <3>2. CASE ~ LossAct(frames)
      BY <2>6, <3>2, InActs, PlaceActs DEF RefreshStep, Complete, TimeAndDate
    <3> QED BY <3>1, <3>2
  <2>7. CASE UNCHANGED vars
    <3>1. UNCHANGED <<self, line, keys, listing, plan>>
      BY <2>7 DEF vars
    <3>2. (AllIn => AllIn') /\ (AllComing => AllComing') /\ (NoneIn => NoneIn')
      BY <3>1, InKept
    <3>3. \A end : EndsWith(listing, end)' = EndsWith(listing, end)
      BY <3>1 DEF EndsWith, ListEnds, Complete, TimeAndDate
    <3>4. /\ AtRest' = AtRest
          /\ \A c : AskedFor(c)' = AskedFor(c)
          /\ \A end : AtList(end)' = AtList(end)
          /\ \A pending, c : AtEnd(pending, c)' = AtEnd(pending, c)
      BY <3>1, <3>3, SameMarks DEF AtRest, AskedFor, AtList, AtEnd, Awaits
    <3> QED BY <3>2, <3>4 DEF RefreshStep, Complete, TimeAndDate
  <2> QED BY <2>2, <2>3, <2>4, <2>5, <2>6, <2>7, PanelSteps DEF Next
<1>3. Inv => RefreshedCompletely
  BY AllInShown
<1> QED BY <1>1, <1>2, <1>3, PTL DEF Spec
=============================================================================
