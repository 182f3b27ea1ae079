# concordd in TLA+

`concordd` is a daemon that speaks the RS-232 automation protocol of the GE
Concord 4 alarm panel and offers the panel on D-Bus; `concordctl` is its command
line client. These modules model their control: the link to the panel, the image
of the panel the daemon keeps, the requests clients make of it, the loop that
schedules all that, the commands it starts when something happens, and the
tools at the other end of the bus. TLC checks the modules on small instances;
TLAPS proves the most important results for every instance. Paths below are
those of the repository, so `src/concordd/ge-rs232.c` is the file of that name in
the checkout.

## The system

| Part | State | Operations | Talks to |
|---|---|---|---|
| Frame receiver, `ge-rs232.c` `ge_rs232_receive_byte` | `reading_message`, `message_len`, `current_byte`, `nibble_buffer`, `buffer_sum`, `buffer` | one byte from the line | answers the panel with ACK/NAK; hands frames to the panel image, ACK/NAK bytes to the queue |
| Outgoing queue, `ge-rs232.c` `ge_queue_*`, `ge_rs232_send_message` | ring of 8 messages (`head`, `tail`, `attempts`, `finished`), `last_response`, `got_response`, `last_sent` | queue a message, update, response arrived | the panel, one message at a time; its callers through `finished()` |
| Panel image, `concordd.c` | partitions, zones, outputs, lights, bus devices, users, siren, `refresh_pending`, `programming_mode`, event log, alarms, troubles | one handler per panel frame; one setter per client request | queues key presses; notifies the D-Bus server and `main.c` through `*_changed_func` and `event_func` |
| D-Bus server, `concordd-dbus-server.c` | callback helpers of outstanding requests | one handler per method, signals out | calls the panel image and the queue, replies at once or when `finished()` runs |
| Main loop, `main.c` | settings, `gRet`, `zero_cms_in_a_row_count`, PID file, privileges | start-up, `select()`, read, dispatch, `concordd_process()`, signals, clean-up | drives all of the above from one thread |
| Event hooks, `main.c` | child processes, SIGCHLD | start a command per change, reap | the shell |
| Configuration, `main.c`, `common/config-file.c` | the settings | read the command line, the file, the command line again | the file system |
| Keypad emulator, `concordctl/tool-cmd-keypad-emu.c` | cached zones, touchpad text, escape sequence, SIGINT trap | refresh by calls, update by signals, key presses | the D-Bus server |
| Other `concordctl` tools | exit status | options, script, one or several calls | the D-Bus server |

Everything in the daemon runs on one thread: a handler runs to its end before
the next one starts. What is hard is therefore not data races but the order of
handlers: answers of the panel that come late, twice or never; panel frames
between the bytes or messages of the daemon's own; a refresh under way while
clients set things; callbacks reached from two places; signals of the system
between a test and the call that blocks; clients that read first and subscribe
afterwards; and the limits (ring sizes, attempts, `uint8_t` counters, `fork()`).

What makes each part correct:

* receiver: only intact frames get through; no index leaves the buffer; a cut
  frame does not spoil the next one;
* queue: messages leave in order, each caller is told once; one message is in
  flight at a time;
* panel image: what clients are shown is what the panel last said, every change
  is announced, and no client request is translated to keys on a wrong premise;
* D-Bus server: every call gets exactly one reply, and it is the truth;
* main loop: it serves what waits, ends when it is told to, and never spins
  without cause; the start-up leaves no privilege and the end no PID file behind;
* hooks: commands are told of every change, in order, and no child stays a zombie;
* tools: exit status 0 means done; the keypad shows what is, sends what was typed,
  and ends when told to.

`PROJECT.json` lists the places where each of these could go wrong ("hazards").

## Modules

    CommandService <-- GeQueue <-- DbusServer <--+
                                                 +-- Daemon      one process
                                     Startup <---+
    PanelImage <-- PanelWorld                     the image and the panel
    Events                                        what follows from events
    KeypadEmulator <-- Concordctl                 the tools
    GeReceiver                                    bytes to frames

* `CommandService`: the abstract specification of the queue. Requests wait in
  line, and the one that leaves has its callback called with a status.
* `GeQueue`: the transmit side of `ge-rs232.c`, action by action. State
  variables have the names of the C fields; `expired` stands for
  `now - last_sent > 1`. The panel is the environment (`PanelAnswers`, `Lose`,
  `Expire`); `wire` holds the requests it may still answer. `submitted`,
  `executed`, `calls` and `result` are history.
* `GeReceiver`: `ge_rs232_receive_byte()` with a panel that sends frames,
  resends them, and a line that garbles, loses and cuts. Digits are to a
  parametric `Base` (16 in the code); `MaxSize` is `GE_RS232_MAX_MESSAGE_SIZE`.
* `PanelImage`: `struct concordd_instance_s`, one action per frame handler of
  `concordd.c` (`Handle...` takes the head of `line`), the refresh, and the
  requests `concordd_set_light()`, `..._set_output()`, `..._set_arm_level()` and
  `..._set_zone_bypass()` with their error statuses. `view` is what a client
  believes that called `get_info`, calls it again when a refresh is over, and
  follows the `changed` signals; each handler updates it by what the D-Bus server
  puts into the signal it sends. `view.fresh` has the zones that were active when
  `get_info` was last called; a refresh empties it (`ForgetZones`).
* `PanelWorld`: `PanelImage` with the panel: `real` is the panel's state,
  `line` the frames on their way to the daemon, `keys` the messages on their way
  to the panel, `listing` what is left of a list it was asked for. A `plan`,
  chosen at the start, says what happens in a behaviour: `topics` (what the panel
  reports), `requests` (what clients ask), and whether clients call before the
  panel has settled (`hasty`), refreshes `overlap`, reports are `lost` or `resent`.
* `DbusServer`: `GeQueue` with the D-Bus side: `Route` is
  `dbus_message_handler()`, `DispatchCall` a whole handler (refused, answered at
  once, or queued with a callback helper), `SendReplies` what the callbacks of a
  step do. A helper is held, gone, or misused. Callers may give up waiting. What
  `concordd.c` says to a request is any of the statuses it has for it.
* `Startup`: `main()` before its loop: options, configuration file, options again,
  `chroot`, privileges and PID file, port, bus. An account's group or user is dropped
  to only if it is not 0 (`DropPrivileges`); with 0 the daemon goes on as it is. `taken` counts the options, or the
  lines of the file, that the pass under way has dealt with, so that a setting
  changes one option at a time and a bad option ends a pass where it stands.
  `ExitWith` is the clean-up, `Signal` the handlers of SIGTERM, SIGINT and SIGHUP.
* `Daemon`: `DbusServer` and `Startup` as one process. A turn of the loop is five
  steps (condition, masks and timeout, `select()`, read and dispatch,
  `concordd_process()`); bytes, calls and signals arrive between any two. The timeout
  is 0 for a NAK (`TimeoutIsZero`) and for the bus (`BusHurries`): for messages it has
  not taken (`unsent`), and maybe for calls that wait.
* `Events`: `concordd_handle_alarm()` with the log (a ring indexed by
  `event_log_last`) and the lists, the signals of events, and the commands with
  `fork()`, SIGCHLD and its handler. `script` is the belief of an author of
  commands, kept from what the commands were told in the order they started. The
  writers of a light, an output or a zone that announce nothing are actions too:
  LIGHTS_STATE during a refresh and at the first change of a light, the list of outputs,
  and reports and lists of a zone a refresh made inactive. `stale` notes what they wrote.
* `KeypadEmulator`: the program of the keypad with the terminal, the connection's
  `inbox` and the daemon's image, whose changes are announced, or, those of a zone that
  is inactive, stored silently (`Announced`, `Unannounced`). The daemon's zones are 0
  to 95 (`zone[96]`, indexed from 0), the emulator's 1 to 96: it drops zone 0 and never
  hears of a zone 96.
* `Concordctl`: one run of the tool: options, bus, script, and each command with
  its checks, its calls and what it returns; the keypad is one of them.
* `GeQueueProofs`, `GeReceiverProofs`, `PanelProofs`, `OrderProofs`, `DaemonProofs`,
  `StartupProofs`, `EventsProofs`, `ToolProofs`: the theorems, each about the module of
  that name (`PanelProofs` and `OrderProofs` about `PanelWorld`, `ToolProofs` about
  `Concordctl` and `KeypadEmulator`); `GeQueueProofs` holds the refinement of
  `CommandService` as well, and `StartupProofs` speaks of `Startup` within the process,
  `DaemonSpec`.
* `MC*`: the instances TLC checks.

Operators whose comment starts with "Variant" are plausible wrong versions of
the definition that follows them; putting one in its place makes TLC find the
property named in `PROJECT.json` ("mutants") violated.

| State in the code | In the modules |
|---|---|
| `ge_queue.head`, `tail`, `queue[].attempts` | `head`, `tail`, `queue` (a slot holds a request's identity instead of its bytes) |
| `last_response` 0 / ACK / NAK | `"none"`, `"ACK"`, `"NAK"` |
| `got_response` function pointer | whether it is set |
| `last_sent` | `expired` |
| `buffer`, `current_byte`, `message_len`, `nibble_buffer`, `buffer_sum` | the same; `nibble_buffer = 0` is `NoNibble` |
| `zone[].zone_state` bits | a set of names |
| `siren_cadence`, `siren_started_at`, light `last_changed_at` | whether they are 0 |
| `bus_device[0 .. bus_device_count - 1]` | a sequence |
| `struct concordd_dbus_callback_helper_s`, allocated per call | `helper[caller]` |
| `gSocketPath`, `gPIDFilename`, `gChroot`, `gPrivDropToUser` and the commands | `settings` |
| `alarms[][]`, `troubles[][]`, `system_troubles[]` | functions on the entries that were filled |
| `gZoneData[]`, `touchpad_text` | `known` |
| names, groups, times, users | left out, or one representative |

Some modules abstract the layer another models: `GeQueue` sees a panel frame as
`StartFrame` and `EndFrame`; `PanelImage` sees the queue as the FIFO `keys` of
`CommandService`, whose messages the panel obeys in order; `DbusServer` sees the
image as the answers it may give; `KeypadEmulator` sees the daemon as an image whose
partition announces every change, as `PartitionViewCurrent` has it, and whose zones may
not, as those a refresh made inactive do not.

## Runs

| Run | Question | Bounds |
|---|---|---|
| `queue_late` | What survives answers that are late or come twice? It implements `CommandService`, keeps to stop-and-wait, and calls back at most once. | 4 requests, 4 slots, 3 in use |
| `queue_overflow` | Is the tail always empty, as the comment says? No. | 4 slots, all in use |
| `queue_last_timeout` | Does an empty queue send nothing, as the early return says? No. | 2 slots |
| `receiver` | Does only the frame being sent get through, whatever byte is hit, and does the link recover? | 2 frames of 1 or 2 bytes, 3 faults, base 3 |
| `panel_image` | Is the image right once the panel has nothing more to say, and is a client that follows the signals current? | 4 plans, below |
| `panel_calls` | Do accepted calls have their effect, is the image complete when they are let in, and does every refresh end? | 1 of everything, 2 bus devices, 2 levels |
| `panel_lights` | Are all lights of a report taken? No. | 3 lights |
| `panel_sirenlatch` | Is arming refused only while the siren is on? No. | 1 partition |
| `daemon_calls` | Does each call get one reply, and a true one, when tools give up and calls overlap? | 2 tools, 2 requests without callback, 3 slots, 1 attempt |
| `daemon_live` | Is every call answered, does a signal end the loop, when does the loop give up, and does the start-up do as it should in every order of options and failures, with lost answers, cut frames and a bus that stalls? | 1 tool, 1 other request, 2 attempts, 9 command lines, 5 files, 3 accounts, SIGTERM |
| `events` | Is the log right when it wraps, do the lists agree with it, are clients and commands told, and are children reaped? | log of 3, 2 processes, 4 mixes of events and reports |
| `tools` | Does exit status 0 mean done, is the keypad current, are keys sent as typed, and does it end? | each command alone, scripts of two, 2 changes, 3 texts, zones 0, 2 and 95 |

Why the bounds are enough. The ring indices are only compared and advanced, so
a ring of 3 or 4 slots that wraps, fills and reuses its slots shows every case
(the theorems then hold for every size); `Succ` counts modulo the size, which is
what the mask does. Three attempts are those of the code; where `Daemon` has
fewer, the attempts themselves are not the question, only that they end;
`attempts` wraps above the limit that is compared, as 256 is above 3. A frame
has a START, a length, data and a checksum whatever the base; base 3 leaves a
byte nine values, enough for a data byte to collide with a checksum. Frames
under way (`plan.line`) are one or two, since the panel waits for the ACK of each
frame; two or three are needed where a siren is set up and started. `MaxKeys` bounds what
clients and the panel cause, never what a handler queues. `MaxLoad` keeps a slot
of the ring free, the condition under which the queue works at all
(`queue_overflow`). `ZeroLimit` is 1000 in the code: it has to be above the
number of zero timeouts in a row that ordinary work causes on the instance. A log
of three entries wraps after three events. Two processes are one that runs and
one that is a zombie, or two zombies behind one SIGCHLD, or none left to fork.

The plans of `panel_image`: `ImagePlan` has a zone, an output, an arm level and two
lights change while refreshes overlap and reports are lost or come twice;
`ViewPlan` has a client follow a partition through overlapping refreshes and
resent frames; `ZonePlan` has one follow a zone, with keyfobs, through overlapping
refreshes, their lists, CLEARs, and reports that are lost or come twice; `SignalPlan` has
the sirens of two partitions, a zone and keyfobs, and no refresh.

### Conditions that matter

Some properties hold only under conditions the code does not enforce, and the
runs say so by their constants: `OutputAsAsked` and `ArmedAsAsked` for clients that
let the panel settle before they call (two calls in a row toggle an output twice);
`RefreshedCompletely` without overlapping refreshes and resent frames; `TruthfulExit`
and `OnlyHeadInFlight` with a panel that answers in time (`~ LateAnswers`), as no
message carries a number; `HelperAlive` and `NothingForgotten` with a slot of the ring
left free. Others say so themselves:

* `ZoneViewCurrent` is about the time from `get_info` to the beginning of the next
  refresh or CLEAR_AUTOMATION_DYNAMIC_IMAGE. These make every zone inactive, and
  what `ZONE_STATUS` and the list then bring is stored and announced to nobody
  (`concordd.c:786`, `:1030`), although `doc/dbus-protocol.md:131-132` promises a
  `changed` signal whenever the zone information changes. A client that does not ask
  again after a refresh may be wrong about a zone until its next change.
* `ScriptsKnow` excepts what was written silently (`stale`): a command told that a zone
  is tripped or a light is on is not told of a change that came with a refresh.
* `ScreenCurrent` excepts the same changes, those between reading and subscription, and
  zone 0.
* `ListsAgreeWithLog` takes the latest event of a type and partition for what the list
  should hold; another source's alarm that goes on is not told from it.
* `EveryCallEnds` supposes that `concordd_process()` finds the link between two frames
  again and again. A dead panel does no harm, as attempts time out; a frame cut off
  for good does, as there is no timeout for it (`concordd.c:185`), and holds every call.
* `SignalEnds` supposes that the panel keeps talking: a signal that falls between
  the condition of the loop and `select()` is noticed at the next byte.
* `GivesUpAfterNak` excepts a bus that does not take what the daemon sends
  (`concordd-dbus-server.c:2191-2193`) and one whose calls come as fast as they are
  dispatched: 1000 turns with a zero timeout then end the daemon without any NAK.
* `PrivilegesDropped` is about a daemon that root started. It keeps of root what the
  account itself has: for a group or user 0 nothing is called (`main.c:996`, `:1006`), and
  the daemon goes on.
* `ExitTellsFailure` leaves out four cases in which the code returns 0 without having
  done anything: no bus, a JSON style that cannot be printed, a keypad that could not
  start, and a log that could not subscribe (`tool-cmd-log.c:232-238`).

`CommandLineWins` holds because the options are read a second time after the file. The
hazards in `PROJECT.json` give the line for each.

### Fairness

`GeReceiver!FairSpec`: bytes that arrive are read, and the panel repeats a frame
until it hears an ACK. `PanelWorld!FairSpec`: frames that arrive are handled; the
panel obeys what it is sent and gets on with its list, strongly, as its own
events may come in between any number of times. `Daemon!DaemonFairness`: `main()`
goes on as long as `select()` returns; time passes; a transmission is answered or
lost. Of the panel's frames nothing is assumed, neither that one comes nor that one
that was started ends: what `EveryCallEnds` and `SignalEnds` need of them is a premise of
theirs.
`Concordctl!Fairness`: the program runs and a call that blocks returns by its
timeout; nothing is assumed of the user or the daemon.

### What the violations show

* `queue_overflow`: `ge_queue_message()` returns `QUEUE_FULL` but has queued the
  message; the tail reaches the head, whose request still waits, and the ring reads as
  empty. What follows is not in the trace: `got_response` stays armed for the message
  in flight, so that its ACK moves the head on and the ring reads as full but one and is
  served again; only a NAK before the last attempt, or an answer that is lost, leaves all
  requests waiting, and the next message is then written over the first.
* `queue_last_timeout`: when the last attempt of the only message times out, a
  slot that is not in the queue is sent.
* `panel_lights`: the `break` meant for light zero is taken after any light.
* `panel_sirenlatch`: `siren_started_at` is never reset, so that the siren
  counts as on after it stopped.

## Theorems

Each holds for every value of the constants that satisfies the named assumptions
of its module, and for nothing less than the specification TLC runs: `Spec` of
the component, or `DaemonSpec`, the whole process. `Implements`, `DaemonServes` and
`Waits` are about steps, the others are invariants. Few of the properties are
inductive; the text says what had to be added.

Assumptions beyond those of the modules, which the statements spell out:

* `MaxPending < QueueSize`: callers leave a slot of the ring free;
* `~ LastTimeouts`: the last attempt of a lone message is answered;
* `~ LateAnswers`: an answer comes before its time-out, or not at all;
* no plan is `hasty`: callers let the panel settle before they call;
* of the plans, what `LightsAreReported` and `RefreshBringsAll` say of them below.

The runs that expect a violation show that the first two cannot be dropped, and
`queue_late` has late answers overtake the head.

### Queue

* `TypeCorrect` (`TypeOK`) is inductive. `UpdateType` is the lemma for
  `ge_queue_update()`, which both `QueueMessage` and `Process` contain.
* `Delivery`: `DeliveryInv`, and from it `CalledOnce` (`AtMostOnce`) and
  `Remembered` (`NothingForgotten`). That a callback runs once needs that
  the ring holds distinct requests none of which was told, and that a response
  is awaited only for a message in the ring. `RingOK` says the first and `LinkOK`
  the second, both of any ring, because `ge_queue_message()` passes through a
  ring that is not yet the next state's. Lemmas `RingPush`, `RingPop` and
  `RingKept` say what the three ways to change the ring do to `RingOK`;
  `PushBetween` and `PopBetween` are the arithmetic of the wrapped indices they
  rest on.
* `AnswerHeard` (`AwaitedAnswerIsHeard`) and `Waits` (`StopAndWait`) need no
  condition: they hold on full rings and with any panel.
* `HeadInFlight` (`OnlyHeadInFlight`) with `~ LateAnswers`. `InTime` adds that
  nothing is on the wire once the time has run out.
* `Implements`: `Spec => ImplementsService`, the refinement. The lemmas `QueuePush`,
  `QueuePop` and `QueueKept` read the ring as the sequence `CommandService` has:
  a step of the queue is one of the service, or of nobody, and
  `ge_queue_message()`, which may send at once, is still one step.

### The process

* `DaemonTypes`, `DaemonDelivery`, `DaemonRemembers`, `DaemonServes`: what is proved of
  the queue alone holds under the loop, calls, bytes and signals. The step of the
  process is one of the queue, or leaves the queue alone (`Untouched`), so that the
  lemmas of the queue are used and not proved again.
* `HelpersHeld` (`HelperAlive`): `Accounted` says that a helper is held as long
  as its request was queued and not told of; `DeliveryInv` says that it is told once.
* `DaemonHeadInFlight` (`OnlyHeadInFlight`): `AnswerInTime` has the answer on the
  wire or in the input, one at a time, and only for the head.
* `TruthTold` (`TruthfulExit`): an ACK that is heard is the head's (`AnswerInTime`), so
  the request whose callback runs with OK was executed.
* `GivesUpForCause` (`GivesUpAfterNak`): `LoopInv` says that between two turns a NAK
  is left only by an empty queue or while a frame is read, so that a timeout of
  zero with no call on the bus and nothing the bus has yet to take comes from a NAK.
* `OptionsWin` (`CommandLineWins`), by `OverridesInv`: what is set so far agrees with
  the options the pass under way has taken; `SettingsKept` is the type.
* `DropsPrivileges` (`PrivilegesDropped`), by `PrivilegesInv`: of the ids that have been
  taken each is the account's, and as long as the user's has not been taken the daemon is
  still root's; a step that fails to drop one ends the daemon.
* `RemovesPidFile` (`PidFileRemoved`), by `PidFileInv`: as long as the daemon runs, a
  file that was written is named by the setting the clean-up looks at.

### Receiver

* `NeverOverrun`: `GeReceiver!IndexInBounds`, by `ParserInv`, which adds the types
  of the index, the length and the half byte. It holds for every byte: the
  lemma `ReceiveByteStep` does not ask where the byte comes from.
* `ReceiverTypes` (`TypeOK`), with `IndexInBounds`: two digits make a byte and a sum is one
  (`ByteOfDigits`, `SumIs`), which rests on `Division` and on the remainder being the only
  one (`OneDivision`).
* `FramesIntact` (`DeliveredIntact`), by `LineInv`. A transmission has just begun (`Begins`);
  or k bytes and h digits of it have been read and all is right (`Good`), the line holding
  the rest of the frame with one digit changed at most; or the changed digit
  has been read (`Bad`), and exactly one of the sum and the half byte is wrong; or a digit
  is missing and the line will be empty before the frame is read (`Short`); or it is over.
  `RightByte` and `DataEnds` are why `Bad` lasts to the checksum: a byte has one pair of
  digits, and sums that differ differ after the same byte. Both errors at once could cancel,
  which is why one fault per transmission is what is stated. The encoder
  is a recursive function of the place in the data; `SumsDefined` proves, by
  `Induction`, that there is one, and `EncodeIs` says what it writes.

### Panel image

* `PanelTypeCorrect` (`TypeOK`), by `Types`, which also types the frames and the
  messages under way: `FrameFields` and `KeyFields` say which fields each has. The
  handlers are proved by family: those of partitions, zones and the rest.
* `FollowsPartitions` (`PartitionViewCurrent`): inductive with the types; a handler
  that stores one of the three fields announces it, and no refresh touches them.
* `ImageIsQuiet` (`QuietImage`) and `DisarmReachesSiren` (`DisarmSilences`), by `InStep`.
  Of every zone, output and arm level it says that the last report of it that is
  under way is true, or there is none and the image is right (`Sync`), unless it has
  yet to be listed (`Rebuilding`: a loss of reports is under way, a list is asked
  for, or the thing is in what is left of the list). Of a siren that sounds it
  says the same of the last SIREN_SETUP. `Moves` is what the panel may do at once,
  `SyncTaken`, `SyncNews` and `SyncOthers` are how a handled frame, a new one and one
  about something else keep `Sync`; a frame that comes twice is the case of
  `SyncTaken` in which the head stays.
* `OutputsObey` (`OutputAsAsked`) and `ArmsObey` (`ArmedAsAsked`), by `InHand` over
  `InStep`: the keys of one request are pending at a time, and when they have
  been pressed what was asked for is so. That the call was checked against what
  the panel was like is `ImageIsQuiet`, as the caller waited for `Quiet`.

### Panel image, where order matters

`OrderProofs` is about the frames between image and panel as a sequence, where `InStep`
looks at the last of each kind. `Acts` is the common form of what the panel may do at
once.

* `AlarmIsHeard` (`SirenHeard`), with no condition, by `SoundStep`: the last siren
  frame of a partition that is under way says whether its siren sounds, or there is
  none and the image says it; every SIREN_SETUP is followed by its SIREN_GO
  (`Announced`), so that `siren_go_partition_id` still names the partition when the
  burst is announced; and a client has the two fields right, unless the frame that
  tells it is the next one.
* `LightsAreReported` (`LightsAsReported`), for plans in which lights change one at a
  time (no client switches all of a partition, and the panel reports each change),
  by `LightStep`: there is a path from the stored lights to the panel's along the
  frames under way (`LightPath`), and each report changes one light at most (`Lit`).
  The loop of `concordd_handle_subcmd2()` that ends at the first
  change is right on such a path; the run `panel_lights` shows it wrong
  without the condition. The path may be long, so the last report alone does not do.
* `FollowsZones` (`ZoneViewCurrent`), with no condition, by `FreshStep`, which adds that
  the zones in `view.fresh` are active: `get_info` tells of active zones only, a handler
  that changes an active zone announces it and leaves it active (`ZoneActive`), and
  what makes zones inactive empties `view.fresh`.
* `RefreshBringsAll` (`RefreshedCompletely`), for plans without overlapping refreshes and
  resent frames, by `RefreshStep`: a refresh is at rest, asked for, at one of its two
  lists, or at the end of one, and what is in the image goes with where it is. A thing is
  active, or a frame about it comes before the frame that ends the list, or its entry
  before the entry that does (`ComingThing`); a bus device, which the handler appends
  without looking, is in exactly one of three places (`Entered`, `Reported`, `Listed`), and
  once. That the entries of the list are in that order is `ListOrder`; `OnceEach` is the
  bijection that makes the count right. No request for a list is pending but the one
  that is due, which is why overlaps have to be left out.

For such arguments `None`, `Sole` and `Before` say where the members of a set are in a
sequence, and lemmas how that changes when the head goes and when more comes behind
(`NoneTaken`, `SoleComes`, `BeforeStays` and so on); they are used of frames, entries and
messages alike.

### Events

* `LogKept` (`LogHoldsLatest`), for logs of 1 to 256 entries. It is inductive
  with the types of the log and its index (`LogInv`). The lemmas `Around` and
  `Advance` are the modular arithmetic: the entry k before the new last one is
  the entry k - 1 before the old, and no slot is named twice; `WindowEntries` is
  how `recent` moves on. `AlarmLogged` puts them together for a whole
  `concordd_handle_alarm()`, early return included.
* `ListsAgree` (`ListsAgreeWithLog`), is inductive with the types of the log;
  `Agreement` states it event by event, and `ListAfter` is what one event does to a list.
* `HeardInOrder` (`EventsHeardInOrder`), by `HearingInv`, which adds that no more
  is heard than the log holds; the numbers of the events heard are shifted by one
  with every new event (`Shifted`).
* `AllReaped` (`NoZombieForgotten`). It is inductive with the number of
  children (`Types`); `HandlersFork` says that all a handler does to children is to
  start some, so that only `ChildEnds`, `SigchldDelivered` and `Reaps` matter.
* `Informed` (`ScriptsKnow`), whatever `fork()` fails, for every set of
  commands that has both or neither of `AcPowerFailure` and `AcPowerRestored`
  (`AcCommandsPaired`; with one of the two the author is never told of the other
  change). `ScriptInv` adds the types of what is kept of the AC power, the zone,
  the light and the output, and that a zone that is inactive while a command was told
  of it is stale; `AlarmTold`, `ZoneReportTold`, `KeyfobTold`, `UserLightsTold` and
  `LightsStateTold` are the step for each handler that may tell, over `ForkedFollowed`: a
  command that starts brings the belief up to date, one that does not leaves none.
  `Silent` is the step of those that tell nothing.

### Tools

* `ExitIsHonest` (`ExitTellsFailure`), by `ToolInv`: where a command is (`Running`), that each
  of its ids is done, still to do, or the command has failed (`EachStep`), and
  that the status between two commands of a script tells of the last one (`Honest`): the
  exit status is not set at the end, it is what is left in `gRet`.
* `ScreenFollows` (`ScreenCurrent`), by `ScreenInv`: of each field the last signal that waits
  has what the daemon has, or none waits and the field is known (`UpToDate`), or
  it is among those missed. Before the subscription nothing waits; the keypad is started
  once, as a script has none (`StartedOnce`); of zone 0 nothing is ever known (`Unknown`).
* `KeysAreSent` (`KeysInOrder`), by `KeyInv`. That the keys sent are those of what was read is
  not inductive: in the middle of an escape sequence it says nothing of what
  the sequence will be. `Sound` says it of every longer beginning of the text: its
  keys are those sent and those from `Begin` on, where the unfinished sequence begins;
  `Sequence` says that what was gathered is what stands there. The grammar
  `KeysFrom` is a recursive function from the end of the text backwards. `KeysDefined` proves
  that there is one, by `Induction` over the places; `KeysOfKey`, `KeysOfNone`,
  `KeysOfSwallowed` and `KeysOfSequence` are its cases.

### Model-checked only

* Liveness (`LinkRecovers`, `RefreshEnds`, `EveryCallEnds`, `SignalEnds`, `KeypadEnds`):
  the proof system does not do fairness.

## Not modelled

* `AUTOMATION_EVENT_LOST`, which the daemon only logs, and the reports that are
  stored and neither announced nor asked for (schedules, temperature).
* `get_event_log`, `get_alarms` and `get_troubles`, which the D-Bus server names and leaves
  unhandled, beyond their routing.
* The calls that configure the serial port, and the quoting of words within a
  line of the configuration file (`get_next_arg()`).
* Of the environment variables of a command all but those a property tells apart.
* A keypad within a script: it would read the rest of the script as keys.
* Line editing by readline, the terminal's modes, an end of file on it, the
  layout of what is printed, the sound of the keypad's siren.
* Text conversion (the tables of the second half of `ge-rs232.c`), the helpers for
  sockets, strings, time and back traces, and the replacement libc functions:
  no state of the program's own.

## Plan

Every safety and step property of the passing runs is a theorem. What is left is liveness,
which stays with TLC, and what the section before lists as not modelled.
