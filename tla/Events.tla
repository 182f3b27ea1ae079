--------------------------------- MODULE Events ---------------------------------
(***************************************************************************)
(* What the daemon does about the events the panel reports:                *)
(* concordd_handle_alarm() of src/concordd/concordd.c keeps the log and    *)
(* the lists of alarms and troubles, concordd-dbus-server.c announces the  *)
(* event, and main.c starts the command the administrator configured in a  *)
(* child process, as it does when a zone, a light, an output or the AC     *)
(* power changes.  Children end at any time and are reaped by the handler  *)
(* of SIGCHLD.                                                             *)
(*                                                                         *)
(* The commands are followed by their author: a script that keeps what the *)
(* commands were last told, in the order in which they were started.       *)
(***************************************************************************)
EXTENDS Integers, Sequences, FiniteSets, SequencesExt, TLC

CONSTANTS
  LogSize,      \* 256: CONCORDD_EVENT_LOG_MAX, no more than event_log_last counts to
  Plans,        \* what the panel reports in a behaviour: [events, things]
  Partitions,   \* the entries of partition[]
  Commands,     \* the commands that are configured
  MaxChildren   \* processes the system grants, zombies included

General == {
  "ALARM", "ALARM_CANCEL", "ALARM_RESTORAL", "FIRE_TROUBLE", "FIRE_TROUBLE_RESTORAL",
  "NONFIRE_TROUBLE", "NONFIRE_TROUBLE_RESTORAL", "BYPASS", "UNBYPASS", "OPENING", "CLOSING",
  "PARTITION_CONFIG_CHANGE", "PARTITION_EVENT", "PARTITION_TEST", "SYSTEM_TROUBLE",
  "SYSTEM_TROUBLE_RESTORAL", "SYSTEM_CONFIG_CHANGE", "SYSTEM_EVENT"}

\* What a PTA_SUBCMD_ALARM_TROUBLE frame says.
Event == [general : General, specific : Nat, partition : Nat,
          source_type : {"BUS_DEVICE", "ZONE", "SYSTEM"}, source : Nat, extra : Nat]

\* The things of a plan are what else the panel reports: "refresh" is whatever
\* makes the daemon ask for everything anew, and the end of it.
ASSUME EventsAssumption ==
  /\ LogSize \in 1 .. 256
  /\ \A p \in Plans : /\ p.events \subseteq Event
                       /\ p.things \subseteq {"zone", "keyfob", "light", "output", "refresh"}
  /\ MaxChildren \in Nat

VARIABLES
  self,      \* what concordd_instance_s keeps of events, and of a zone, a light and an output
  children,  \* [running, zombies]: how many
  sigchld,   \* [pending, handling]: of the signal
  recent,    \* history: the last LogSize events that were handled
  heard,     \* what a D-Bus client was told: the last events, and the AC power
  script,    \* what the author of the commands believes, a set; {} is nothing
  stale,     \* history: the things some report changed for which no command is run
  plan       \* a member of Plans, the same throughout a behaviour

vars == <<self, children, sigchld, recent, heard, script, stale, plan>>

NoEvent == [general |-> "none"]
MAIN_AC_FAIL == 5
OUTPUT_ON == 5
OUTPUT_OFF == 6
ZoneBits == {"TRIPPED", "BYPASSED"}

Init ==
  /\ self = [event_log |-> [i \in 0 .. LogSize - 1 |-> NoEvent], event_log_last |-> 0,
             alarms |-> <<>>, troubles |-> <<>>, system_troubles |-> <<>>,
             ac_power_failure |-> FALSE, programming_mode |-> [p \in Partitions |-> FALSE],
             zone |-> {}, zone_active |-> FALSE, light |-> FALSE, light_changed |-> FALSE,
             output |-> FALSE, refresh_pending |-> TRUE]
  /\ children = [running |-> 0, zombies |-> 0]
  /\ sigchld = [pending |-> FALSE, handling |-> FALSE]
  /\ recent = <<>>
  /\ heard = [events |-> <<>>, ac |-> {}]
  /\ script = [AC |-> {}, ZONE |-> {}, LIGHT |-> {}, OUTPUT |-> {}]
  /\ stale = {}
  /\ plan \in Plans

-----------------------------------------------------------------------------
(* The event record, the log and the lists.                                *)

Classes == [
  alarms |-> {"ALARM", "ALARM_RESTORAL", "ALARM_CANCEL"},
  troubles |-> {"FIRE_TROUBLE", "NONFIRE_TROUBLE", "FIRE_TROUBLE_RESTORAL",
                "NONFIRE_TROUBLE_RESTORAL"},
  system_troubles |-> {"SYSTEM_TROUBLE", "SYSTEM_TROUBLE_RESTORAL"}]

\* The size of the three lists.
ListMax == [alarms |-> 40, troubles |-> 20, system_troubles |-> 52]

Status(general) ==
  CASE general \in {"ALARM", "FIRE_TROUBLE", "NONFIRE_TROUBLE", "SYSTEM_TROUBLE"} -> "ONGOING"
    [] general \in {"ALARM_RESTORAL", "FIRE_TROUBLE_RESTORAL", "NONFIRE_TROUBLE_RESTORAL",
                    "SYSTEM_TROUBLE_RESTORAL"} -> "RESTORED"
    [] general = "ALARM_CANCEL" -> "CANCELED"
    [] OTHER -> "UNSPECIFIED"

\* concordd_event_s: a source that is no bus device is taken for a zone.
Record(e) ==
  [general |-> e.general, specific |-> e.specific, partition_id |-> e.partition,
   status |-> Status(e.general), extra_data |-> e.extra,
   unit |-> <<IF e.source_type = "BUS_DEVICE" THEN "device_id" ELSE "zone_id", e.source>>]

\* Variant: the last entry of the log is never used.
NextSlotShort(last) == (last + 1) % (LogSize - 1)

NextSlot(last) == (last + 1) % LogSize

\* An entry is found by its type, and its partition unless it is the system's.
ListKey(list, e) == IF list = "system_troubles" THEN <<e.specific>> ELSE <<e.partition, e.specific>>

HasEntry(list, e) ==
  /\ e.general \in Classes[list]
  /\ e.specific < ListMax[list]
  /\ list # "system_troubles" => e.partition \in Partitions

\* The list with e in its entry.
Entered(list, e) ==
  [key \in DOMAIN self[list] \union {ListKey(list, e)} |->
     IF key = ListKey(list, e) THEN Record(e) ELSE self[list][key]]

\* Variant: what is over is not listed.
ListedOngoing(list, e) ==
  IF HasEntry(list, e) /\ Status(e.general) = "ONGOING" THEN Entered(list, e) ELSE self[list]

\* The latest event of a type takes its entry, a restoral like the rest.
Listed(list, e) == IF HasEntry(list, e) THEN Entered(list, e) ELSE self[list]

IsOutput(e) == e.general = "SYSTEM_EVENT" /\ e.specific \in {OUTPUT_ON, OUTPUT_OFF}

\* One output stands for all: extra_data 1.  Others are none of output[].
OutputAfter(e) == IF IsOutput(e) /\ e.extra = 1 THEN e.specific = OUTPUT_ON ELSE self.output

IsAcFailure(e) == e.general \in Classes.system_troubles /\ e.specific = MAIN_AC_FAIL

\* SYSTEM_CONFIG_CHANGE 0 begins programming, 1 and 2 end it.
ProgrammingAfter(e) ==
  IF e.general = "SYSTEM_CONFIG_CHANGE" /\ e.partition \in Partitions /\ e.specific <= 2
  THEN [self.programming_mode EXCEPT ![e.partition] = e.specific = 0]
  ELSE self.programming_mode

-----------------------------------------------------------------------------
(* Commands run in children.                                               *)

\* What the author of the commands believes after a command was told, or not.
\* told: what the environment of the command says of a thing.
Knowing(before, told, reached) ==
  [thing \in DOMAIN before |-> IF thing \notin DOMAIN told THEN before[thing]
                               ELSE IF reached THEN told[thing] ELSE {}]

\* fork() makes a child, or fails: there is no process left, or no memory.
\* Whoever follows the commands misses what fails.
Forked(s, told) ==
  (IF s.children.running + s.children.zombies < MaxChildren
   THEN {[children |-> [s.children EXCEPT !.running = @ + 1],
          script |-> Knowing(s.script, told, TRUE)]}
   ELSE {})
  \union {[s EXCEPT !.script = Knowing(@, told, FALSE)]}

ForkedIf(wanted, s, told) == IF wanted THEN Forked(s, told) ELSE {s}

Here == [children |-> children, script |-> script]

\* The function that announces a change returns before it forks when its
\* command is not configured.
Runs(command, told) ==
  \E s \in ForkedIf(command \in Commands, Here, told) :
    children' = s.children /\ script' = s.script

\* concordd_instance_info_changed_func(): told after the change is stored.
AcTold(e) == e.general = "SYSTEM_TROUBLE"

AcCommand(failure) == IF failure THEN "AcPowerFailure" ELSE "AcPowerRestored"

\* concordd_event_func() forks first and asks later whether there is a command.
EventRuns(e) ==
  \E s \in ForkedIf(IsAcFailure(e) /\ AcCommand(AcTold(e)) \in Commands, Here, [AC |-> {AcTold(e)}]) :
    \E t \in Forked(s, <<>>) :
      children' = t.children /\ script' = t.script

-----------------------------------------------------------------------------
(* Announcements on the bus.                                               *)

\* concordd_dbus_event_func(): the object and the name of the signal.
SignalOf(e) ==
  CASE e.general \in Classes.system_troubles -> <<"root", "trouble">>
    [] e.general \in Classes.alarms -> <<e.partition, "alarm">>
    [] e.general \in Classes.troubles -> <<e.partition, "trouble">>
    [] e.general \in {"PARTITION_CONFIG_CHANGE", "PARTITION_EVENT", "PARTITION_TEST"} ->
         <<e.partition, "event">>
    [] OTHER -> <<"root", "event">>

Window(s, e) == IF Len(s) < LogSize THEN Append(s, e) ELSE Append(Tail(s), e)

\* Variant: what is done with a system event ends its handling.
IsAnnouncedUnlessSystem(e) == e.general # "SYSTEM_EVENT"

\* The handling of an output's event ends before it is announced as an event.
IsAnnounced(e) == ~ IsOutput(e)

\* The client hears of the power first, in a "changed" signal.
Announces(e) ==
  heard' = [events |-> IF IsAnnounced(e) THEN Window(heard.events, <<SignalOf(e), Record(e)>>)
                       ELSE heard.events,
            ac |-> IF IsAcFailure(e) THEN {AcTold(e)} ELSE heard.ac]

-----------------------------------------------------------------------------
(* The handlers, run by main() whenever no signal interrupts it.           *)

Undisturbed == ~ sigchld.handling /\ UNCHANGED <<sigchld, plan>>

\* What is told of a thing makes up for what was not.
ToldOf(things) == stale' = stale \ things

\* concordd_handle_alarm()
HandleAlarm(e) ==
  /\ Undisturbed
  /\ recent' = Window(recent, e)
  /\ self' = [self EXCEPT
       !.event_log_last = NextSlot(@),
       !.event_log[NextSlot(self.event_log_last)] = Record(e),
       !.alarms = Listed("alarms", e),
       !.troubles = Listed("troubles", e),
       !.system_troubles = Listed("system_troubles", e),
       !.ac_power_failure = IF IsAcFailure(e) THEN e.general = "SYSTEM_TROUBLE" ELSE @,
       !.programming_mode = ProgrammingAfter(e),
       !.output = OutputAfter(e)]
  /\ Announces(e)
  /\ IF IsAnnounced(e) THEN EventRuns(e) /\ UNCHANGED stale
     ELSE IF OutputAfter(e) # self.output
     THEN Runs("OutputChanged", [OUTPUT |-> {OutputAfter(e)}]) /\ ToldOf({"OUTPUT"})
     ELSE UNCHANGED <<children, script, stale>>

\* Variant: a zone that is no longer tripped is told of by leaving it out, as the
\* other bits are.
ZoneToldIfSet(state) ==
  IF "TRIPPED" \in state THEN [ZONE |-> {TRUE}] ELSE <<>>

\* CONCORDD_ZONE_TRIPPED is there if that bit changed.
ZoneTold(state) ==
  IF ("TRIPPED" \in state) # ("TRIPPED" \in self.zone) THEN [ZONE |-> {"TRIPPED" \in state}]
  ELSE <<>>

\* concordd_zone_info_changed_func(): a bypass alone is no reason to run anything.
ZoneCommandFor(state) ==
  IF SymDiff(state, self.zone) \subseteq {"BYPASSED"} THEN "none" ELSE "ZoneChanged"

\* Of a zone that is not active the report is taken in silence.
ZoneReported(state) ==
  /\ Undisturbed /\ "zone" \in plan.things
  /\ self' = [self EXCEPT !.zone = state, !.zone_active = TRUE]
  /\ IF self.zone_active
     THEN Runs(ZoneCommandFor(state), ZoneTold(state)) /\ ToldOf(DOMAIN ZoneTold(state))
     ELSE UNCHANGED <<children, script, stale>>
  /\ UNCHANGED <<recent, heard>>

HandleZoneStatus(state) == ZoneReported(state)

\* The same for an entry of the list; for a type, a group or a partition that
\* changed no command is run.
HandleEquipListZoneData(state) == ZoneReported(state)

HandleKeyfob ==
  /\ Undisturbed /\ "keyfob" \in plan.things
  /\ self' = [self EXCEPT !.zone_active = TRUE]
  /\ Runs("ZoneChanged", <<>>)
  /\ UNCHANGED <<recent, heard, stale>>

\* USER_LIGHTS, which is always announced.
HandleUserLights(on) ==
  /\ Undisturbed /\ "light" \in plan.things
  /\ self' = [self EXCEPT !.light = on, !.light_changed = TRUE]
  /\ Runs("LightChanged", [LIGHT |-> {on}]) /\ ToldOf({"LIGHT"})
  /\ UNCHANGED <<recent, heard>>

\* LIGHTS_STATE, for a light the loop over all of them comes to and that changed.
\* The first change of a light and those during a refresh are not announced.
HandleLightsState(on) ==
  /\ Undisturbed /\ "light" \in plan.things
  /\ on # self.light
  /\ self' = [self EXCEPT !.light = on, !.light_changed = TRUE]
  /\ IF ~ self.refresh_pending /\ self.light_changed
     THEN Runs("LightChanged", [LIGHT |-> {on}]) /\ ToldOf({"LIGHT"})
     ELSE /\ stale' = IF self.refresh_pending THEN stale \union {"LIGHT"} ELSE stale
          /\ UNCHANGED <<children, script>>
  /\ UNCHANGED <<recent, heard>>

\* An entry of the list of outputs is stored and never announced.
HandleEquipListOutputData(on) ==
  /\ Undisturbed /\ "output" \in plan.things
  /\ self' = [self EXCEPT !.output = on]
  /\ stale' = stale \union {"OUTPUT"}
  /\ UNCHANGED <<children, recent, heard, script>>

\* A client asks for a refresh, or the panel, with CLEAR_AUTOMATION_DYNAMIC_IMAGE.
EquipmentRefresh ==
  /\ Undisturbed /\ "refresh" \in plan.things
  /\ self' = [self EXCEPT !.zone_active = FALSE, !.refresh_pending = TRUE]
  /\ stale' = stale \union {"ZONE"}
  /\ UNCHANGED <<children, recent, heard, script>>

HandleTimeAndDate ==
  /\ Undisturbed /\ "refresh" \in plan.things
  /\ self' = [self EXCEPT !.refresh_pending = FALSE]
  /\ UNCHANGED <<children, recent, heard, script, stale>>

-----------------------------------------------------------------------------
(* Children end, and signal_SIGCHLD() reaps them.                          *)

\* A signal that is pending is not made more so by another.
ChildEnds ==
  /\ children.running > 0
  /\ children' = [running |-> children.running - 1, zombies |-> children.zombies + 1]
  /\ sigchld' = [sigchld EXCEPT !.pending = TRUE]
  /\ UNCHANGED <<self, recent, heard, script, stale, plan>>

SigchldDelivered ==
  /\ sigchld.pending /\ ~ sigchld.handling
  /\ sigchld' = [pending |-> FALSE, handling |-> TRUE]
  /\ UNCHANGED <<self, children, recent, heard, script, stale, plan>>

\* Variant: one call of waitpid() for each signal.
HandlingAfterOnce(zombies) == FALSE

\* do { } while (pid > 0)
HandlingAfter(zombies) == zombies > 0

\* waitpid(-1, &stat, WNOHANG)
Reaps ==
  /\ sigchld.handling
  /\ children' = IF children.zombies > 0 THEN [children EXCEPT !.zombies = @ - 1] ELSE children
  /\ sigchld' = [sigchld EXCEPT !.handling = HandlingAfter(children.zombies)]
  /\ UNCHANGED <<self, recent, heard, script, stale, plan>>

Next ==
  \/ \E e \in plan.events : HandleAlarm(e)
  \/ \E state \in SUBSET ZoneBits : HandleZoneStatus(state)
  \/ \E state \in SUBSET ZoneBits : HandleEquipListZoneData(state)
  \/ HandleKeyfob
  \/ \E on \in BOOLEAN : HandleUserLights(on)
  \/ \E on \in BOOLEAN : HandleLightsState(on)
  \/ \E on \in BOOLEAN : HandleEquipListOutputData(on)
  \/ EquipmentRefresh
  \/ HandleTimeAndDate
  \/ ChildEnds
  \/ SigchldDelivered
  \/ Reaps

Spec == Init /\ [][Next]_vars

-----------------------------------------------------------------------------
(* Properties.                                                             *)

\* The log holds the last events that were handled, each once and in order, also
\* when it has wrapped around, and the entries the early return for outputs makes.
LogHoldsLatest ==
  \A k \in 0 .. Len(recent) - 1 :
    self.event_log[(self.event_log_last - k + LogSize) % LogSize] = Record(recent[Len(recent) - k])

\* The lists of alarms and troubles agree with the log: whatever the log holds of
\* a type, the list has the latest of it.
ListsAgreeWithLog ==
  \A list \in DOMAIN Classes, i \in DOMAIN recent :
    LET e == recent[i]
        later == {j \in i + 1 .. Len(recent) :
                    HasEntry(list, recent[j]) /\ ListKey(list, recent[j]) = ListKey(list, e)}
    IN HasEntry(list, e) /\ later = {} =>
         /\ ListKey(list, e) \in DOMAIN self[list]
         /\ self[list][ListKey(list, e)] = Record(e)

\* The events that are announced from the i-th of the last ones on.
AnnouncedFrom(i) == {j \in i .. Len(recent) : ~ IsOutput(recent[j])}

\* A client hears of every event once and in order, except those of outputs, which
\* it is told of in another way: an event since which n were announced, itself
\* included, is the n-th from the end of what was heard.
EventsHeardInOrder ==
  \A i \in DOMAIN recent :
    LET e == recent[i]
        n == Cardinality(AnnouncedFrom(i))
    IN ~ IsOutput(e) => /\ n <= Len(heard.events)
                        /\ heard.events[Len(heard.events) - n + 1] = <<SignalOf(e), Record(e)>>

\* What the commands were told last, in the order they were started, is so:
\* "executed when the AC power status changes" (concordd.conf:145-147), whenever a
\* light, an output, the tripped bit of a zone changes.  A fork() that fails is
\* made up for by the next change.  The client on the bus knows the AC power too.
\* Some changes are stored without a command, and until the next one that is told
\* the script may be wrong: those of a zone once a refresh began, of a light when
\* all are reported during a refresh, of an output that is listed.  Nothing else
\* makes it wrong.
ScriptsKnow ==
  /\ heard.ac \subseteq {self.ac_power_failure}
  /\ script.AC \subseteq {self.ac_power_failure}
  /\ script.ZONE \subseteq {"TRIPPED" \in self.zone} \/ "ZONE" \in stale
  /\ script.LIGHT \subseteq {self.light} \/ "LIGHT" \in stale
  /\ script.OUTPUT \subseteq {self.output} \/ "OUTPUT" \in stale

\* A child that ended is reaped: one signal may stand for many children, and some
\* end while the handler runs.
NoZombieForgotten == children.zombies > 0 => sigchld.pending \/ sigchld.handling
=============================================================================
