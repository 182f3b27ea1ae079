------------------------------ MODULE Concordctl ------------------------------
(***************************************************************************)
(* One run of the command line tool, src/concordctl/concordctl.c: options, *)
(* the bus, one command from the command line or a script of them, and the *)
(* exit status, with the commands of the tool-cmd-*.c files.  The keypad   *)
(* command is KeypadEmulator.                                              *)
(*                                                                         *)
(* The daemon answers a call with a status, with an error, or not within   *)
(* the timeout (Daemon).                                                   *)
(***************************************************************************)
EXTENDS KeypadEmulator

CONSTANTS
  Runs,          \* what the tool is started with, see Run
  HaveReadline,  \* HAVE_LIBREADLINE
  Has,           \* ids the daemon has of zones, lights and outputs
  Statuses       \* of the daemon's replies; 0 is success

Commands == {"arm", "panic", "keypad-input", "refresh", "system", "partition", "zone", "light",
             "output", "log", "keypad", "keypad-text", "help", "clear", "quit"}

\* args: the words that are no options, numbers here; help and the like are options.
Command == [name : Commands \union {"nonsense"}, args : Seq(Nat),
            options : SUBSET {"help", "json", "bypass", "all", "bad style"}]

Run == [options : Seq({"help", "version", "debug", "bad partition", "bad file"}),
        command : Seq(Command),      \* none or one
        script : Seq(Seq(Command)),  \* lines, a blank one is empty
        newline : BOOLEAN,           \* after the last line
        tty : BOOLEAN, bus : BOOLEAN]

ASSUME ConcordctlAssumption ==
  /\ \A r \in Runs : r \in Run /\ Len(r.command) <= 1
  \* Line editing on a terminal is readline's and not modelled.
  /\ HaveReadline \in BOOLEAN /\ \A r \in Runs : ~ (r.tty /\ HaveReadline)
  \* A keypad within a script would read the script as keys: not modelled.
  /\ \A r \in Runs : \A i \in DOMAIN r.script : r.script[i] # <<>> => r.script[i][1].name # "keypad"
  /\ Has \subseteq Nat
  /\ 0 \in Statuses /\ Statuses \subseteq -12 .. 0

VARIABLES
  tool,  \* [pc, gRet, ret, todo, line]
  done,  \* history: what the daemon did or told for the command that runs
  run    \* a member of Runs, the same throughout a behaviour

vars == <<emuVars, tool, done, run>>

OK == 0
HELP == 1
BADARG == 2
NOCOMMAND == 3
BADCOMMAND == 5
QUIT == 7
TIMEOUT == 11
INTERRUPT == 130

Init ==
  /\ EmuInit
  /\ run \in Runs
  /\ tool = [pc |-> "start", gRet |-> OK, ret |-> OK, todo |-> <<>>, line |-> 0]
  /\ done = {}

Is(pc) == tool.pc = pc
Moves(to) == tool' = to /\ UNCHANGED <<emuVars, done, run>>

-----------------------------------------------------------------------------
(* main(): options, bus, and where the commands come from.                 *)

OptionExit(o) ==
  CASE o = "help" -> HELP [] o = "version" -> OK [] o \in {"bad partition", "bad file"} -> BADARG

Exits == {i \in DOMAIN run.options : run.options[i] # "debug"}

\* The first option that ends the program does.
ParseOptions ==
  /\ Is("start")
  /\ Moves(IF Exits = {} THEN [tool EXCEPT !.pc = "bus"]
           ELSE [tool EXCEPT !.pc = "ended",
                             !.gRet = OptionExit(run.options[CHOOSE i \in Exits : \A j \in Exits : i <= j])])

\* gRet is still 0 when there is no bus.
ConnectToBus ==
  /\ Is("bus")
  /\ Moves([tool EXCEPT !.pc = IF run.bus THEN "commands" ELSE "ended"])

\* concordd_dbus_version_check()
VersionCheck == OK

ChooseCommands ==
  /\ Is("commands")
  /\ Moves(IF run.command # <<>> THEN [tool EXCEPT !.pc = "execute", !.gRet = VersionCheck]
           ELSE IF run.tty /\ ~ HaveReadline THEN [tool EXCEPT !.pc = "ended", !.gRet = NOCOMMAND]
           ELSE [tool EXCEPT !.pc = "loop", !.gRet = VersionCheck])

\* while ((gRet != ERRORCODE_QUIT) && !feof(stdin)): a last line that ends in a
\* newline is followed by no line at all, which is not checked.
EndOfScript == tool.line = Len(run.script)

NextLine ==
  /\ Is("loop")
  /\ IF tool.gRet = QUIT THEN Moves([tool EXCEPT !.pc = "ended", !.gRet = OK])
     ELSE IF EndOfScript THEN Moves([tool EXCEPT !.pc = IF run.newline \/ tool.line = 0 THEN "died" ELSE "ended"])
     ELSE Moves([tool EXCEPT !.line = @ + 1,
                             !.pc = IF run.script[tool.line + 1] = <<>> THEN "loop" ELSE "execute"])

\* The command that runs, or ran last.
Current == IF run.command # <<>> THEN run.command[1] ELSE run.script[tool.line][1]

\* A command returns to main() or to process_input_line().
Returned(ret) ==
  [tool EXCEPT !.gRet = IF ret = QUIT /\ run.command # <<>> THEN OK ELSE ret,
               !.pc = IF run.command # <<>> THEN "ended" ELSE "loop"]

-----------------------------------------------------------------------------
(* Commands that are one call.  Each is checked before the bus is used.    *)

\* Each has a set: what is returned for the arguments, {} if nothing is wrong.
Arm(args) ==
  IF args = <<>> \/ Head(args) \notin 1 .. 3 \/ Len(args) > 1 THEN {BADARG} ELSE {}

\* "police", "fire" and "auxiliary" for 1, 2 and 3.
Panic(args) ==
  IF args = <<>> THEN {HELP}
  ELSE IF Head(args) \notin 1 .. 3 \/ Len(args) > 1 THEN {BADARG} ELSE {}

KeypadInput(args) == IF Len(args) # 1 THEN {BADARG} ELSE {}
Refresh(args) == IF args # <<>> THEN {BADARG} ELSE {}
System(args) == IF args # <<>> THEN {BADARG} ELSE {}
PartitionInfo(args) == IF args # <<>> THEN {BADARG} ELSE {}

Check(cmd) ==
  IF "help" \in cmd.options THEN {HELP}
  ELSE CASE cmd.name = "arm" -> Arm(cmd.args) [] cmd.name = "panic" -> Panic(cmd.args)
         [] cmd.name = "keypad-input" -> KeypadInput(cmd.args) [] cmd.name = "refresh" -> Refresh(cmd.args)
         [] cmd.name = "system" -> System(cmd.args) [] cmd.name = "partition" -> PartitionInfo(cmd.args)

StatusCommands == {"arm", "panic", "keypad-input", "refresh"}
InfoCommands == {"system", "partition"}

\* do_set_arm_level(), do_press_keys(), do_refresh(): the status is returned.
StatusAnswered ==
  /\ Is("call") /\ Current.name \in StatusCommands
  /\ \E status \in Statuses :
       tool' = Returned(status) /\ done' = IF status = 0 THEN {"call"} ELSE {}
  /\ UNCHANGED <<emuVars, run>>

\* do_system(), do_partition_info(): what is told is printed.
InfoAnswered ==
  /\ Is("call") /\ Current.name \in InfoCommands
  /\ tool' = Returned(OK) /\ done' = {"call"}
  /\ UNCHANGED <<emuVars, run>>

\* An error reply counts for none, as no answer within the timeout does.
CallUnanswered ==
  /\ Is("call")
  /\ tool' = Returned(TIMEOUT)
  /\ UNCHANGED <<emuVars, done, run>>

-----------------------------------------------------------------------------
(* Commands about zones, lights and outputs: a call for each of the ids    *)
(* given, or of those that are listed when none is.                        *)

Upto(n) == [i \in 1 .. n + 1 |-> i - 1]
WhatThereIs(ids) == SelectSeq(ids, LAMBDA i : i \in Has)

\* Zones and outputs that are not there are no answer, and are passed over; a
\* light that is not there ends the list.
Listed(name) ==
  CASE name = "zone" -> WhatThereIs(Upto(95)) [] name = "output" -> WhatThereIs(Upto(70))
    [] name = "light" -> Upto(9)

Ids(cmd) == IF cmd.args # <<>> THEN cmd.args
            ELSE IF "bypass" \in cmd.options THEN <<>> ELSE Listed(cmd.name)

\* dump_*_info() say that JSON could not be printed.
DumpFails(cmd) == "json" \in cmd.options

\* Variant: an error is forgotten when the next zone is told of.
ZoneFailsForgotten(cmd) == OK

\* tool_cmd_zone(): goes on after an error, and returns it if an id was given.
ZoneFails(cmd) == IF cmd.args # <<>> THEN -1 ELSE tool.ret

\* tool_cmd_light() ends at the first error, tool_cmd_output() if an id was given.
LightFails(cmd) == -1
OutputFails(cmd) == IF cmd.args # <<>> THEN -1 ELSE tool.ret

Fails(cmd) ==
  CASE cmd.name = "zone" ->
         [tool EXCEPT !.ret = ZoneFails(cmd), !.todo = Tail(@)]
    [] cmd.name = "light" -> [tool EXCEPT !.ret = LightFails(cmd), !.todo = <<>>]
    [] cmd.name = "output" ->
         [tool EXCEPT !.ret = OutputFails(cmd), !.todo = IF cmd.args # <<>> THEN <<>> ELSE Tail(@)]

\* Without --all the list has the zones of one partition only.
Prints(cmd, id) ==
  cmd.name = "zone" /\ cmd.args = <<>> /\ "all" \notin cmd.options =>
    id \in DOMAIN ZonesOf /\ ZonesOf[id] = gPartitionIndex

\* get_zone_info() and the like, and zone_bypass(), for the next id.
EachAnswered ==
  /\ Is("each") /\ tool.todo # <<>>
  /\ LET cmd == Current
         id  == Head(tool.todo)
     IN \/ tool' = Fails(cmd) /\ UNCHANGED done
        \/ /\ id \in Has
           /\ tool' = [tool EXCEPT !.todo = IF DumpFails(cmd) /\ Prints(cmd, id) THEN <<>> ELSE Tail(@)]
           /\ done' = IF Prints(cmd, id) THEN done \union {id} ELSE done
  /\ UNCHANGED <<emuVars, run>>

EachDone ==
  /\ Is("each") /\ tool.todo = <<>>
  /\ Moves(Returned(tool.ret))

-----------------------------------------------------------------------------
(* tool_cmd_log(): prints signals until SIGINT.                            *)

\* A style that is none is told, and what is returned in the end; the log goes on.
LogRet == IF "bad style" \in Current.options THEN HELP ELSE OK

\* The log begins, or ends at once, with ret as it is, if dbus_bus_add_match() or
\* dbus_connection_add_filter() fails.
ExecuteLog ==
  /\ Is("execute") /\ Current.name = "log"
  /\ done' = {}
  /\ \/ "help" \in Current.options /\ tool' = Returned(HELP)
     \/ "help" \notin Current.options /\ tool' = [tool EXCEPT !.pc = "log", !.ret = LogRet]
     \/ "help" \notin Current.options /\ tool' = Returned(LogRet)
  /\ UNCHANGED <<emuVars, run>>

\* signal_SIGINT() ends the trap itself, and what is then the handler is the
\* address of a variable: another SIGINT kills.
LogInterrupted ==
  \/ Is("log") /\ Moves([tool EXCEPT !.pc = "interrupted", !.gRet = INTERRUPT])
  \/ Is("interrupted") /\ Moves([tool EXCEPT !.pc = "died"])

\* The turn of the loop that goes on when the signal comes ends within 250 ms.
\* What is returned takes the place of the gRet the handler set.
LogReturns ==
  /\ Is("interrupted")
  /\ tool' = Returned(tool.ret) /\ done' = {"call"}
  /\ UNCHANGED <<emuVars, run>>

-----------------------------------------------------------------------------
(* exec_command()                                                          *)

ReturnsAtOnce(cmd) ==
  CASE cmd.name = "quit" -> QUIT [] cmd.name = "nonsense" -> BADCOMMAND
    [] cmd.name = "help" -> HELP [] cmd.name = "clear" -> OK [] cmd.name = "keypad-text" -> -1

ExecuteAtOnce ==
  /\ Is("execute") /\ Current.name \in {"quit", "nonsense", "help", "clear", "keypad-text"}
  /\ done' = {"call"}
  /\ tool' = Returned(ReturnsAtOnce(Current))
  /\ UNCHANGED <<emuVars, run>>

ExecuteCall ==
  /\ Is("execute")
  /\ Current.name \in StatusCommands \union InfoCommands
  /\ done' = {}
  /\ tool' = IF Check(Current) = {} THEN [tool EXCEPT !.pc = "call"]
             ELSE Returned(CHOOSE ret \in Check(Current) : TRUE)
  /\ UNCHANGED <<emuVars, run>>

ExecuteEach ==
  /\ Is("execute") /\ Current.name \in {"zone", "light", "output"}
  /\ done' = {}
  /\ tool' = IF "help" \in Current.options THEN Returned(HELP)
             ELSE [tool EXCEPT !.pc = "each", !.ret = OK, !.todo = Ids(Current)]
  /\ UNCHANGED <<emuVars, run>>

\* tool_cmd_keypad_emu()
ExecuteKeypad ==
  /\ Is("execute") /\ Current.name = "keypad" /\ "help" \notin Current.options
  /\ emu' = [emu EXCEPT !.pc = "zones"]
  /\ tool' = [tool EXCEPT !.pc = "keypad"]
  /\ UNCHANGED <<image, known, inbox, missed, sent, typed, changes, done, run>>

KeypadHelp ==
  /\ Is("execute") /\ Current.name = "keypad" /\ "help" \in Current.options
  /\ Moves(Returned(HELP))

KeypadReturns ==
  /\ Is("keypad") /\ emu.pc \in {"ended", "died"}
  /\ Moves(IF emu.pc = "died" THEN [tool EXCEPT !.pc = "died"] ELSE Returned(emu.ret))

ToolNext ==
  \/ ParseOptions \/ ConnectToBus \/ ChooseCommands \/ NextLine
  \/ ExecuteAtOnce \/ ExecuteCall \/ ExecuteEach \/ ExecuteKeypad \/ KeypadHelp
  \/ StatusAnswered \/ InfoAnswered \/ CallUnanswered
  \/ EachAnswered \/ EachDone \/ ExecuteLog \/ LogReturns \/ KeypadReturns

Next == ToolNext \/ LogInterrupted \/ (Is("keypad") /\ EmuNext /\ UNCHANGED <<tool, done, run>>)

\* The program runs, a blocking call returns by its timeout.
Fairness == WF_vars(ToolNext) /\ WF_vars(EmuStep /\ UNCHANGED <<tool, done, run>>)

Spec == Init /\ [][Next]_vars /\ Fairness

-----------------------------------------------------------------------------
(* Properties.                                                             *)

\* What main() returns to the shell, of which 8 bits are kept.
ExitStatus == tool.gRet % 256

\* The tool exits with 0 only if the last command did all it was asked to, for
\* each of its ids, however a call before or after it ended.  (Not so without a
\* bus, for JSON, for a keypad that could not start and for a log that could not
\* subscribe to the signals: gRet is then 0.)
ExitTellsFailure ==
  /\ Is("ended") /\ ExitStatus = 0 /\ Exits = {} /\ run.bus
  /\ run.command # <<>> \/ (tool.line > 0 /\ run.script[tool.line] # <<>>)
  /\ Current.name \notin {"keypad", "log"} /\ "json" \notin Current.options
  => IF Current.name \in {"zone", "light", "output"}
     THEN ToSet(Current.args) \subseteq done
     ELSE done = {"call"}
=============================================================================
