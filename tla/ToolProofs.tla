------------------------------ MODULE ToolProofs ------------------------------
(***************************************************************************)
(* The command line tool: exit status 0 means done, whatever the commands  *)
(* and the script, and the keypad shows what the daemon has.               *)
(***************************************************************************)
EXTENDS Concordctl, SequenceTheorems, WellFoundedInduction, TLAPS

-----------------------------------------------------------------------------
(* The commands that run.                                                  *)

EachCommands == {"zone", "light", "output"}

\* There is a command that runs, or ran last.
Ran == run.command # <<>> \/ (tool.line > 0 /\ run.script[tool.line] # <<>>)

\* What that command was to do is done.
Told ==
  IF Current.name \in EachCommands THEN ToSet(Current.args) \subseteq done ELSE done = {"call"}

\* The commands whose exit status says nothing.
Silent == Current.name \in {"keypad", "log"} \/ "json" \in Current.options

\* All that a tool returns is within this range, of which main() keeps 8 bits.
Rets == -255 .. 255

\* The fields of the tool, and of the keypad.
ToolTypes ==
  /\ run \in Runs
  /\ tool = [pc |-> tool.pc, gRet |-> tool.gRet, ret |-> tool.ret, todo |-> tool.todo, line |-> tool.line]
  /\ tool.gRet \in Rets /\ tool.ret \in Rets /\ tool.line \in 0 .. Len(run.script)

EmuShaped(e) ==
  /\ e = [pc |-> e.pc, todo |-> e.todo, ret |-> e.ret, interrupted |-> e.interrupted,
          trap |-> e.trap, subscribed |-> e.subscribed, sequence |-> e.sequence, read |-> e.read]
  /\ e.ret \in {0, NORMAL_QUIT, TIMEOUT} /\ e.todo \in Nat \ {0}
EmuTypes == EmuShaped(emu)

\* Where a command is.
Running ==
  /\ tool.pc \in {"execute", "call", "each", "log", "interrupted", "keypad"} => Ran
  /\ Is("loop") => run.command = <<>>
  /\ tool.pc \in {"start", "bus", "commands"} => tool.line = 0
  /\ Is("each") => Current.name \in EachCommands
  /\ tool.pc \in {"log", "interrupted"} => Current.name = "log"
  /\ Is("keypad") => Current.name = "keypad"
  /\ tool.pc \in {"each", "log", "interrupted"} => tool.ret # QUIT

\* An id is done, or still to do, or the command has failed.
EachStep ==
  Is("each") /\ "json" \notin Current.options /\ Current.args # <<>> =>
    /\ tool.todo \in Seq(Nat)
    /\ tool.ret = OK => ToSet(Current.args) \subseteq done \union ToSet(tool.todo)

\* What was returned says whether the last command did all it was asked to.
Honest ==
  /\ tool.pc \in {"loop", "ended"} /\ Exits = {} /\ run.bus /\ Ran /\ ~ Silent /\ tool.gRet = OK
     => Told
  /\ Is("loop") /\ tool.gRet = QUIT => Ran /\ Told

ToolInv == ToolTypes /\ EmuTypes /\ Running /\ EachStep /\ Honest

\* A set of numbers that is not empty has a smallest.
LEMMA Smallest ==
  ASSUME NEW S \in SUBSET Nat, S # {}
  PROVE  \E i \in S : \A j \in S : i <= j
<1> DEFINE Less == {ss \in Nat \X Nat : ss[1] < ss[2]}
<1>1. IsWellFoundedOn(Less, Nat)
  BY NatLessThanWellFounded DEF OpToRel
<1>2. S \subseteq Nat
  OBVIOUS
<1> HIDE DEF Less
<1>3. PICK i \in S : \A j \in S : ~ (<<j, i>> \in Less)
  BY <1>1, <1>2, WFMin
<1>4. ASSUME NEW j \in S PROVE i <= j
  <2>1. SUFFICES ASSUME j < i PROVE FALSE
    BY <1>2
  <2>2. <<j, i>> \in Nat \X Nat
    BY <1>2
  <2>3. <<j, i>> \in Less
    BY <2>1, <2>2 DEF Less
  <2> QED BY <1>3, <2>3
<1> QED BY <1>3, <1>4

\* A list that is not empty has a first member.
LEMMA FirstOf ==
  ASSUME NEW S, NEW s \in Seq(S), s # <<>>
  PROVE  1 \in DOMAIN s /\ s[1] \in S
OBVIOUS

\* Lists are functions on the first numbers.
LEMMA ListParts ==
  ASSUME NEW S, NEW s \in Seq(S)
  PROVE  /\ Len(s) \in Nat /\ DOMAIN s = 1 .. Len(s) /\ DOMAIN s \subseteq Nat
         /\ \A i \in DOMAIN s : s[i] \in S
OBVIOUS

OptionNames == {"help", "version", "debug", "bad partition", "bad file"}

\* What the tool is started with has its parts.
LEMMA RunParts ==
  ASSUME NEW r \in Runs
  PROVE  /\ r.command \in Seq(Command) /\ r.script \in Seq(Seq(Command))
         /\ Len(r.script) \in Nat /\ DOMAIN r.script = 1 .. Len(r.script)
         /\ DOMAIN r.options \subseteq Nat
         /\ \A i \in DOMAIN r.options : r.options[i] \in OptionNames
<1>1. r \in Run
  BY ConcordctlAssumption
<1>2. /\ r.command \in Seq(Command) /\ r.script \in Seq(Seq(Command)) /\ r.options \in Seq(OptionNames)
  BY <1>1 DEF Run, OptionNames
<1>3. Len(r.script) \in Nat /\ DOMAIN r.script = 1 .. Len(r.script)
  BY <1>2, ListParts
<1>4. DOMAIN r.options \subseteq Nat /\ \A i \in DOMAIN r.options : r.options[i] \in OptionNames
  BY <1>2, ListParts
<1> QED BY <1>2, <1>3, <1>4

\* What was run is a command, and no keypad unless it was the only one.
LEMMA RanCommand ==
  ASSUME ToolTypes, Ran
  PROVE  /\ Current \in Command /\ Current.args \in Seq(Nat)
         /\ Current.name = "keypad" => run.command # <<>>
<1>1. run \in Run /\ run \in Runs
  BY ConcordctlAssumption DEF ToolTypes
<1>2. run.command \in Seq(Command) /\ run.script \in Seq(Seq(Command))
  BY <1>1 DEF Run
<1>3. CASE run.command # <<>>
  <2>1. run.command[1] \in Command
    BY <1>2, <1>3, FirstOf
  <2> QED BY <1>3, <2>1 DEF Current, Command
<1>4. CASE run.command = <<>>
  <2>1. tool.line \in 1 .. Len(run.script) /\ run.script[tool.line] # <<>>
    BY <1>4 DEF Ran, ToolTypes
  <2>2. run.script[tool.line] \in Seq(Command) /\ tool.line \in DOMAIN run.script
    BY <1>2, <2>1
  <2>3. run.script[tool.line][1] \in Command
    BY <2>1, <2>2, FirstOf
  <2>4. run.script[tool.line][1].name # "keypad"
    BY <1>1, <2>1, <2>2, ConcordctlAssumption
  <2> QED BY <1>4, <2>3, <2>4 DEF Current, Command
<1> QED BY <1>3, <1>4

\* It stays the same as long as no next line is read.
LEMMA SameCommand ==
  ASSUME run' = run, tool'.line = tool.line
  PROVE  Current' = Current /\ Ran' = Ran /\ Silent' = Silent /\ Exits' = Exits
BY DEF Current, Ran, Silent, Exits

\* A command that returns OK, and a script that was told to end, have done what
\* they were to do.
LEMMA CommandReturns ==
  ASSUME ToolTypes, EmuTypes, Ran, NEW ret \in Rets, tool' = Returned(ret), run' = run, emu' = emu,
         ret = OK /\ ~ Silent => Told', ret = QUIT => Told'
  PROVE  ToolInv'
<1>1. /\ tool'.line = tool.line /\ tool'.ret = tool.ret /\ tool'.todo = tool.todo
      /\ tool'.gRet = IF ret = QUIT /\ run.command # <<>> THEN OK ELSE ret
      /\ tool'.pc = IF run.command # <<>> THEN "ended" ELSE "loop"
      /\ tool' = [pc |-> tool'.pc, gRet |-> tool'.gRet, ret |-> tool'.ret, todo |-> tool'.todo,
                  line |-> tool'.line]
  BY DEF Returned, ToolTypes
<1>2. ToolTypes' /\ EmuTypes'
  BY <1>1 DEF ToolTypes, EmuTypes, EmuShaped, Rets, OK
<1>3. Current' = Current /\ Ran' = Ran /\ Silent' = Silent /\ Exits' = Exits
  BY <1>1, SameCommand
<1>4. Running' /\ EachStep'
  BY <1>1 DEF Running, EachStep, Is
<1>5. Honest'
  BY <1>1, <1>3 DEF Honest, Is, OK, QUIT
<1> QED BY <1>2, <1>4, <1>5 DEF ToolInv

\* While a command goes on nothing has been returned for it.
LEMMA CommandGoes ==
  ASSUME ToolInv, tool'.pc \notin {"loop", "ended"}, run' = run, tool'.line = tool.line,
         ToolTypes', EmuTypes', Running', EachStep'
  PROVE  ToolInv'
BY DEF ToolInv, Honest, Is

\* Fields that change are fields.
LEMMA FieldsAre ==
  /\ \A o \in Objects : Fields(o) \subseteq AllFields(o)
  /\ Touchpad \in Objects /\ EmuZones \subseteq 0 .. LastZone - 1
  /\ \A o \in Objects : o = Touchpad \/ o \in EmuZones
  /\ \A o \in Objects : "partitionId" \notin Fields(o)
BY EmulatorAssumption DEF Fields, AllFields, Objects

\* The next zone to read is one of the daemon's.
LEMMA NextZoneIs ==
  ASSUME NextZone <= LastZone, emu.todo \in Nat \ {0}
  PROVE  NextZone \in EmuZones /\ NextZone \in 1 .. LastZone
<1> DEFINE Rest == {z \in EmuZones : z >= emu.todo}
<1>1. Rest \subseteq Nat
  <2>1. EmuZones \subseteq 0 .. LastZone - 1
    BY FieldsAre
  <2>2. 0 .. LastZone - 1 \subseteq Nat
    BY DEF LastZone
  <2> QED BY <2>1, <2>2
<1>2. CASE Rest = {}
  BY <1>2 DEF NextZone, LastZone
<1>3. CASE Rest # {}
  <2>1. \E z \in Rest : \A y \in Rest : z <= y
    BY <1>1, <1>3, Smallest
  <2>2. \E z \in EmuZones : z >= emu.todo /\ \A y \in EmuZones : y >= emu.todo => z <= y
    BY <2>1
  <2>3. NextZone \in EmuZones /\ NextZone >= emu.todo
    BY <2>2 DEF NextZone
  <2>4. NextZone \in 0 .. LastZone - 1
    BY <2>3, FieldsAre
  <2> HIDE DEF NextZone
  <2>5. NextZone \in 1 .. LastZone
    BY <2>3, <2>4 DEF LastZone
  <2> QED BY <2>3, <2>5
<1> QED BY <1>2, <1>3

\* The keypad returns 0, is told to quit, or misses an answer.
LEMMA KeypadTypes ==
  ASSUME EmuTypes, EmuNext
  PROVE  EmuTypes'
<1>1. ASSUME NEW to, EmuShaped(to), Takes1(to) PROVE EmuTypes'
  <2>1. emu' = [pc |-> to.pc, todo |-> to.todo, ret |-> to.ret, interrupted |-> to.interrupted,
                trap |-> to.trap, subscribed |-> to.subscribed, sequence |-> to.sequence,
                read |-> emu.read + 1]
    BY <1>1 DEF Takes1, EmuShaped
  <2>2. to.ret \in {0, NORMAL_QUIT, TIMEOUT} /\ to.todo \in Nat \ {0}
    BY <1>1 DEF EmuShaped
  <2> DEFINE e == [pc |-> to.pc, todo |-> to.todo, ret |-> to.ret, interrupted |-> to.interrupted,
                   trap |-> to.trap, subscribed |-> to.subscribed, sequence |-> to.sequence,
                   read |-> emu.read + 1]
  <2>3. EmuShaped(e)
    BY <2>2 DEF EmuShaped
  <2> HIDE DEF e
  <2>4. emu' = e
    BY <2>1 DEF e
  <2> QED BY <2>3, <2>4 DEF EmuTypes
<1>2. CASE ZonesRefreshed \/ RefreshTouchpad \/ Subscribe \/ NoMoreKeys
  BY <1>2 DEF EmuTypes, EmuShaped, ZonesRefreshed, RefreshTouchpad, Subscribe, NoMoreKeys, Goes
<1>z. CASE RefreshZones
  <2>1. NextZone + 1 \in Nat \ {0}
    <3>1. NextZone \in 1 .. LastZone
      BY <1>z, NextZoneIs DEF RefreshZones, EmuTypes, EmuShaped
    <3> HIDE DEF NextZone
    <3> QED BY <3>1 DEF LastZone
  <2>2. emu' = [emu EXCEPT !.todo = NextZone + 1]
    BY <1>z DEF RefreshZones
  <2> HIDE DEF NextZone
  <2> QED BY <2>1, <2>2 DEF EmuTypes, EmuShaped
<1> DEFINE PcTo(pc) == [emu EXCEPT !.pc = pc]
           Quits == [PcTo("dispatch") EXCEPT !.ret = NORMAL_QUIT]
           Escapes(pc) == [PcTo(pc) EXCEPT !.sequence = <<>>]
           Longer(sequence) == [emu EXCEPT !.sequence = sequence]
<1>p. ASSUME NEW pc PROVE EmuShaped(PcTo(pc))
  BY DEF EmuTypes, EmuShaped
<1>l. ASSUME NEW e, EmuShaped(e), NEW sequence PROVE EmuShaped([e EXCEPT !.sequence = sequence])
  BY <1>l DEF EmuShaped
<1>r. ASSUME NEW e, EmuShaped(e), NEW ret \in {0, NORMAL_QUIT, TIMEOUT}
      PROVE  EmuShaped([e EXCEPT !.ret = ret])
  BY <1>r DEF EmuShaped
<1>q. EmuShaped(emu) /\ EmuShaped(Quits)
  <2>1. EmuShaped(PcTo("dispatch"))
    BY <1>p
  <2> HIDE DEF PcTo
  <2> QED BY <1>r, <2>1 DEF EmuTypes
<1>e. ASSUME NEW pc PROVE EmuShaped(Escapes(pc))
  <2>1. EmuShaped(PcTo(pc))
    BY <1>p
  <2> HIDE DEF PcTo
  <2> QED BY <1>l, <2>1
<1>g. ASSUME NEW sequence PROVE EmuShaped(Longer(sequence))
  BY <1>l DEF EmuTypes
<1>3. CASE ReadKey
  <2>1. Takes1(emu) \/ Takes1(PcTo("call")) \/ Takes1(PcTo("escape")) \/ Takes1(Quits)
    BY <1>3 DEF ReadKey, Presses
  <2> HIDE DEF PcTo, Quits
  <2> QED BY <1>1, <1>p, <1>e, <1>q, <1>g, <2>1
<1>4. CASE ReadEscape
  <2>1. Takes1(Escapes("sequence")) \/ Takes1(Escapes("keys"))
    BY <1>4 DEF ReadEscape
  <2> HIDE DEF Escapes
  <2> QED BY <1>1, <1>p, <1>e, <1>q, <1>g, <2>1
<1>5. CASE ReadSequence
  <2>1. Takes1(Longer(Append(emu.sequence, Next1))) \/ Takes1(PcTo("keys")) \/ Takes1(PcTo("call"))
    BY <1>5 DEF ReadSequence, Presses
  <2> HIDE DEF PcTo, Longer
  <2> QED BY <1>1, <1>p, <1>e, <1>q, <1>g, <2>1
<1>6. CASE CallReturns
  BY <1>6 DEF EmuTypes, EmuShaped, CallReturns, Goes, TIMEOUT
<1>7. CASE Dispatch
  BY <1>7 DEF EmuTypes, EmuShaped, Dispatch, TurnEnds
<1>8. CASE Interrupt \/ InterruptAgain
  BY <1>8 DEF EmuTypes, EmuShaped, Interrupt, InterruptAgain, Goes
<1>9. ASSUME NEW o \in Objects, NEW f \in Fields(o), Changes(o, f) PROVE EmuTypes'
  BY <1>9 DEF EmuTypes, EmuShaped, Changes
<1>10. CASE Types
  BY <1>10 DEF EmuTypes, EmuShaped, Types
<1> QED BY <1>2, <1>z, <1>3, <1>4, <1>5, <1>6, <1>7, <1>8, <1>9, <1>10 DEF EmuNext, EmuStep

-----------------------------------------------------------------------------
(* Every step keeps ToolInv.                                               *)

\* At the start nothing has run.
LEMMA ToolInitial == Init => ToolInv
<1> SUFFICES ASSUME Init PROVE ToolInv
  OBVIOUS
<1>1. Len(run.script) \in Nat
  BY RunParts DEF Init
<1>2. ToolTypes
  BY <1>1 DEF Init, ToolTypes, Rets, OK
<1>3. EmuTypes
  BY DEF Init, EmuInit, EmuTypes, EmuShaped
<1> QED BY <1>2, <1>3 DEF Init, ToolInv, Running, EachStep, Honest, Is

\* The steps of main() before and between commands.
LEMMA MainKeeps ==
  ASSUME ToolInv, ParseOptions \/ ConnectToBus \/ ChooseCommands \/ NextLine
  PROVE  ToolInv'
<1>1. run' = run /\ emu' = emu /\ done' = done
  BY DEF ParseOptions, ConnectToBus, ChooseCommands, NextLine, Moves, emuVars
<1>2. EmuTypes'
  BY <1>1 DEF ToolInv, EmuTypes
<1>3. /\ run.command \in Seq(Command) /\ run.script \in Seq(Seq(Command))
      /\ Len(run.script) \in Nat /\ DOMAIN run.script = 1 .. Len(run.script)
      /\ DOMAIN run.options \subseteq Nat
      /\ \A i \in DOMAIN run.options : run.options[i] \in OptionNames
  BY RunParts DEF ToolInv, ToolTypes
<1>4. CASE ParseOptions
  <2>1. CASE Exits = {}
    <3>1. tool' = [tool EXCEPT !.pc = "bus"] /\ tool.pc = "start"
      BY <1>4, <2>1 DEF ParseOptions, Moves, Is
    <3> QED BY <1>1, <1>2, <3>1 DEF ToolInv, ToolTypes, Running, EachStep, Honest, Is
  <2>2. CASE Exits # {}
    <3> DEFINE first == CHOOSE i \in Exits : \A j \in Exits : i <= j
    <3>1. Exits \subseteq Nat /\ Exits \subseteq DOMAIN run.options
      BY <1>3 DEF Exits
    <3>2. first \in Exits
      BY <2>2, <3>1, Smallest
    <3>3. run.options[first] \in {"help", "version", "bad partition", "bad file"}
      <4>1. run.options[first] \in OptionNames /\ run.options[first] # "debug"
        <5> HIDE DEF first
        <5> QED BY <1>3, <3>1, <3>2 DEF Exits
      <4> QED BY <4>1 DEF OptionNames
    <3> DEFINE status == OptionExit(run.options[first])
    <3>4. status \in Rets
      <4> DEFINE option == run.options[first]
      <4>1. option \in {"help", "version", "bad partition", "bad file"}
        BY <3>3
      <4> HIDE DEF option
      <4>2. OptionExit(option) \in {HELP, OK, BADARG}
        BY <4>1 DEF OptionExit
      <4> QED BY <4>2 DEF option, HELP, OK, BADARG, Rets
    <3>5. tool' = [tool EXCEPT !.pc = "ended", !.gRet = status] /\ tool.pc = "start"
      BY <1>4, <2>2 DEF ParseOptions, Moves, Is
    <3>6. Exits' # {}
      BY <1>1, <2>2 DEF Exits
    <3> HIDE DEF status
    <3> QED BY <1>1, <1>2, <3>4, <3>5, <3>6 DEF ToolInv, ToolTypes, Running, EachStep, Honest, Is
  <2> QED BY <2>1, <2>2
<1>5. CASE ConnectToBus
  BY <1>1, <1>2, <1>5 DEF ConnectToBus, Moves, ToolInv, ToolTypes, Running, EachStep, Honest, Is
<1>6. CASE ChooseCommands
  <2>1. /\ tool.pc = "commands" /\ tool.line = 0
        /\ \/ run.command # <<>> /\ tool' = [tool EXCEPT !.pc = "execute", !.gRet = OK]
           \/ run.command = <<>> /\ tool' = [tool EXCEPT !.pc = "ended", !.gRet = NOCOMMAND]
           \/ run.command = <<>> /\ tool' = [tool EXCEPT !.pc = "loop", !.gRet = OK]
    BY <1>6 DEF ChooseCommands, VersionCheck, Moves, ToolInv, Running, Is, OK
  <2>2. ToolTypes'
    <3>1. OK \in Rets /\ NOCOMMAND \in Rets
      BY DEF OK, NOCOMMAND, Rets
    <3>2. ASSUME NEW pc, NEW ret \in Rets, tool' = [tool EXCEPT !.pc = pc, !.gRet = ret]
          PROVE  ToolTypes'
      BY <1>1, <3>2 DEF ToolInv, ToolTypes
    <3> QED BY <2>1, <3>1, <3>2
  <2>3. tool'.line = 0 /\ (tool'.pc = "execute" => run.command # <<>>)
        /\ (tool'.pc = "loop" => run.command = <<>> /\ tool'.gRet = OK)
        /\ (tool'.pc = "ended" => tool'.gRet = NOCOMMAND) /\ tool'.pc \in {"execute", "ended", "loop"}
    BY <2>1 DEF ToolInv, ToolTypes
  <2> QED BY <1>1, <1>2, <2>2, <2>3 DEF ToolInv, Running, EachStep, Honest, Is, Ran, OK, QUIT, NOCOMMAND
<1>7. CASE NextLine
  <2>1. CASE tool.gRet = QUIT
    <3>1. tool.pc = "loop" /\ tool' = [tool EXCEPT !.pc = "ended", !.gRet = OK]
      BY <1>7, <2>1 DEF NextLine, Moves, Is
    <3>2. Ran /\ Told
      BY <2>1, <3>1 DEF ToolInv, Honest, Is
    <3>3. tool'.line = tool.line /\ tool'.pc = "ended"
      BY <3>1 DEF ToolInv, ToolTypes
    <3>4. Told'
      BY <1>1, <3>2, <3>3 DEF Told, Current
    <3>5. ToolTypes'
      <4>1. OK \in Rets
        BY DEF OK, Rets
      <4> QED BY <1>1, <3>1, <4>1 DEF ToolInv, ToolTypes
    <3> QED BY <1>2, <3>3, <3>4, <3>5 DEF ToolInv, Running, EachStep, Honest, Is
  <2>2. CASE tool.gRet # QUIT /\ EndOfScript
    <3>1. tool.pc = "loop" /\ tool'.pc \in {"died", "ended"} /\ tool'.line = tool.line
          /\ tool'.gRet = tool.gRet
      BY <1>7, <2>2 DEF NextLine, Moves, Is, ToolInv, ToolTypes
    <3>2. ToolTypes'
      BY <1>1, <1>7, <2>2 DEF NextLine, Moves, ToolInv, ToolTypes
    <3>3. Current' = Current /\ Ran' = Ran /\ Silent' = Silent /\ Exits' = Exits
      BY <1>1, <3>1, SameCommand
    <3> QED BY <1>1, <1>2, <3>1, <3>2, <3>3 DEF ToolInv, Running, EachStep, Honest, Is, Told
  <2>3. CASE tool.gRet # QUIT /\ ~ EndOfScript
    <3>1. /\ tool.pc = "loop" /\ tool'.line = tool.line + 1 /\ tool'.gRet = tool.gRet
          /\ tool'.pc = IF run.script[tool.line + 1] = <<>> THEN "loop" ELSE "execute"
      BY <1>7, <2>3 DEF NextLine, Moves, Is, ToolInv, ToolTypes
    <3>2. ToolTypes'
      <4>1. Len(run.script) \in Nat /\ tool.line \in 0 .. Len(run.script) /\ tool.line # Len(run.script)
        <5>1. tool.line \in 0 .. Len(run.script)
          BY DEF ToolInv, ToolTypes
        <5> QED BY <1>3, <2>3, <5>1 DEF EndOfScript
      <4>2. tool.line + 1 \in 0 .. Len(run.script)
        BY <4>1
      <4>3. tool' = [tool EXCEPT !.line = tool.line + 1, !.pc = tool'.pc]
        BY <1>7, <2>3 DEF NextLine, Moves, ToolInv, ToolTypes
      <4> QED BY <1>1, <4>2, <4>3 DEF ToolInv, ToolTypes
    <3>3. tool.line + 1 > 0 /\ run.command = <<>>
      BY <3>1 DEF ToolInv, ToolTypes, Running, Is
    <3> QED BY <1>1, <1>2, <2>3, <3>1, <3>2, <3>3 DEF ToolInv, Running, EachStep, Honest, Is, Ran
  <2> QED BY <2>1, <2>2, <2>3
<1> QED BY <1>4, <1>5, <1>6, <1>7

\* The commands that are one call, or none.
LEMMA CallsKeep ==
  ASSUME ToolInv, ExecuteAtOnce \/ ExecuteCall \/ StatusAnswered \/ InfoAnswered \/ CallUnanswered
  PROVE  ToolInv'
<1>1. ToolTypes /\ EmuTypes /\ Running
  BY DEF ToolInv
<1>2. Ran
  BY <1>1 DEF Running, Is, ExecuteAtOnce, ExecuteCall, StatusAnswered, InfoAnswered, CallUnanswered
<1>3. run' = run /\ emu' = emu
  BY DEF ExecuteAtOnce, ExecuteCall, StatusAnswered, InfoAnswered, CallUnanswered, emuVars
<1>4. ASSUME NEW ret \in Rets, tool' = Returned(ret), ret = OK \/ ret = QUIT => done' = {"call"},
             Current.name \notin EachCommands
      PROVE  ToolInv'
  <2>1. tool'.line = tool.line
    BY <1>1, <1>4 DEF Returned, ToolTypes
  <2>2. Current' = Current
    BY <1>3, <2>1, SameCommand
  <2>3. ret = OK \/ ret = QUIT => Told'
    BY <1>4, <2>2 DEF Told
  <2> QED BY <1>1, <1>2, <1>3, <1>4, <2>3, CommandReturns
<1>5. CASE ExecuteAtOnce
  <2>1. Current.name \in {"quit", "nonsense", "help", "clear", "keypad-text"}
    BY <1>5 DEF ExecuteAtOnce
  <2>2. ReturnsAtOnce(Current) \in Rets
    BY <2>1 DEF ReturnsAtOnce, Rets, QUIT, BADCOMMAND, HELP, OK
  <2>3. Current.name \notin EachCommands
    BY <2>1 DEF EachCommands
  <2> QED BY <1>4, <1>5, <2>2, <2>3 DEF ExecuteAtOnce
<1>6. CASE ExecuteCall
  <2>1. Current.name \in {"arm", "panic", "keypad-input", "refresh", "system", "partition"}
    BY <1>6 DEF ExecuteCall, StatusCommands, InfoCommands
  <2>2. CASE Check(Current) = {}
    <3>1. tool' = [tool EXCEPT !.pc = "call"]
      BY <1>6, <2>2 DEF ExecuteCall
    <3>2. ToolTypes' /\ EmuTypes' /\ tool'.line = tool.line /\ tool'.pc = "call"
      BY <1>1, <1>3, <3>1 DEF ToolTypes, EmuTypes
    <3>3. Ran'
      BY <1>2, <1>3, <3>2, SameCommand
    <3>4. Running' /\ EachStep'
      BY <3>2, <3>3 DEF Running, EachStep, Is
    <3> QED BY <1>3, <3>2, <3>4, CommandGoes
  <2>3. CASE Check(Current) # {}
    <3> DEFINE ret == CHOOSE r \in Check(Current) : TRUE
    <3>1. Check(Current) \in {{}, {HELP}, {BADARG}}
      BY <2>1 DEF Check, Arm, Panic, KeypadInput, Refresh, System, PartitionInfo
    <3>2. ret \in {HELP, BADARG}
      BY <2>3, <3>1
    <3>3. tool' = Returned(ret)
      BY <1>6, <2>3 DEF ExecuteCall
    <3>4. Current.name \notin EachCommands
      BY <2>1 DEF EachCommands
    <3> HIDE DEF ret
    <3>5. ret \in Rets /\ ret # OK /\ ret # QUIT
      BY <3>2 DEF HELP, BADARG, OK, QUIT, Rets
    <3> QED BY <1>4, <3>3, <3>4, <3>5
  <2> QED BY <2>2, <2>3
<1>7. CASE StatusAnswered
  <2>1. Current.name \notin EachCommands
    BY <1>7 DEF StatusAnswered, StatusCommands, EachCommands
  <2>2. PICK status \in Statuses : tool' = Returned(status) /\ done' = IF status = 0 THEN {"call"} ELSE {}
    BY <1>7 DEF StatusAnswered
  <2>3. status \in Rets /\ status # QUIT
    BY ConcordctlAssumption DEF Rets, QUIT
  <2> QED BY <1>4, <2>1, <2>2, <2>3 DEF OK
<1>8. CASE InfoAnswered
  <2>1. Current.name \notin EachCommands
    BY <1>8 DEF InfoAnswered, InfoCommands, EachCommands
  <2>2. OK \in Rets
    BY DEF OK, Rets
  <2> QED BY <1>4, <1>8, <2>1, <2>2 DEF InfoAnswered
<1>9. CASE CallUnanswered
  <2>1. TIMEOUT \in Rets /\ TIMEOUT # OK /\ TIMEOUT # QUIT
    BY DEF TIMEOUT, Rets, OK, QUIT
  <2>2. tool' = Returned(TIMEOUT)
    BY <1>9 DEF CallUnanswered
  <2> QED BY <1>1, <1>2, <1>3, <2>1, <2>2, CommandReturns
<1> QED BY <1>5, <1>6, <1>7, <1>8, <1>9

\* The members of a list are its first and those that follow.
LEMMA FirstAndRest ==
  ASSUME NEW s \in Seq(Nat), s # <<>>
  PROVE  Head(s) \in Nat /\ Tail(s) \in Seq(Nat) /\ ToSet(s) \subseteq {Head(s)} \union ToSet(Tail(s))
<1>1. Tail(s) \in Seq(Nat) /\ Len(Tail(s)) = Len(s) - 1 /\ Len(s) > 0 /\ Head(s) = s[1] /\ s[1] \in Nat
  OBVIOUS
<1>2. \A i \in 1 .. Len(s) - 1 : Tail(s)[i] = s[i + 1]
  OBVIOUS
<1>3. ASSUME NEW i \in DOMAIN s, i # 1 PROVE s[i] \in ToSet(Tail(s))
  <2>1. i - 1 \in DOMAIN Tail(s) /\ i - 1 \in 1 .. Len(s) - 1
    BY <1>1, <1>3
  <2>2. Tail(s)[i - 1] = s[i]
    BY <1>2, <1>3, <2>1
  <2> QED BY <2>1, <2>2 DEF ToSet
<1> QED BY <1>1, <1>3 DEF ToSet

\* The commands about zones, lights and outputs: no id is passed over unless the
\* command is to fail.
LEMMA EachKeeps ==
  ASSUME ToolInv, ExecuteEach \/ EachAnswered \/ EachDone
  PROVE  ToolInv'
<1>1. ToolTypes /\ EmuTypes /\ Running /\ EachStep
  BY DEF ToolInv
<1>2. Ran
  BY <1>1 DEF Running, Is, ExecuteEach, EachAnswered, EachDone
<1>3. run' = run /\ emu' = emu
  BY DEF ExecuteEach, EachAnswered, EachDone, Moves, emuVars
<1>4. Current.name \in EachCommands /\ Current.args \in Seq(Nat)
  BY <1>1, <1>2, RanCommand DEF Running, Is, ExecuteEach, EachAnswered, EachDone, EachCommands
\* What has to be shown of a step within the command.
<1>5. ASSUME NEW ret \in {OK, -1, tool.ret}, NEW todo, ret # QUIT, ret \in Rets,
             tool' = [tool EXCEPT !.pc = "each", !.ret = ret, !.todo = todo],
             "json" \notin Current.options /\ Current.args # <<>> =>
               todo \in Seq(Nat) /\ (ret = OK => ToSet(Current.args) \subseteq done' \union ToSet(todo))
      PROVE  ToolInv'
  <2>1. ToolTypes' /\ EmuTypes' /\ tool'.line = tool.line /\ tool'.pc = "each" /\ tool'.ret = ret
        /\ tool'.todo = todo
    BY <1>1, <1>3, <1>5 DEF ToolTypes, EmuTypes
  <2>2. Current' = Current /\ Ran' = Ran
    BY <1>3, <2>1, SameCommand
  <2>3. Running' /\ EachStep'
    BY <1>2, <1>4, <1>5, <2>1, <2>2 DEF Running, EachStep, Is
  <2> QED BY <1>3, <2>1, <2>3, CommandGoes
<1>6. CASE ExecuteEach
  <2>1. CASE "help" \in Current.options
    <3>1. tool' = Returned(HELP)
      BY <1>6, <2>1 DEF ExecuteEach
    <3>2. HELP \in Rets /\ HELP # OK /\ HELP # QUIT
      BY DEF HELP, OK, QUIT, Rets
    <3> QED BY <1>1, <1>2, <1>3, <3>1, <3>2, CommandReturns
  <2>2. CASE "help" \notin Current.options
    <3>1. tool' = [tool EXCEPT !.pc = "each", !.ret = OK, !.todo = Ids(Current)]
      BY <1>6, <2>2 DEF ExecuteEach
    <3>2. Current.args # <<>> => Ids(Current) = Current.args
      BY DEF Ids
    <3>3. OK \in Rets /\ OK # QUIT
      BY DEF OK, QUIT, Rets
    <3> HIDE DEF ToSet
    <3> QED BY <1>4, <1>5, <3>1, <3>2, <3>3
  <2> QED BY <2>1, <2>2
<1>7. CASE EachAnswered
  <2> DEFINE id == Head(tool.todo)
             Asked == "json" \notin Current.options /\ Current.args # <<>>
  <2>1. tool.pc = "each" /\ tool.todo # <<>> /\ tool.ret # QUIT
    BY <1>1, <1>7 DEF EachAnswered, Is, Running
  <2>2. Asked => /\ tool.todo \in Seq(Nat) /\ Tail(tool.todo) \in Seq(Nat)
                 /\ ToSet(tool.todo) \subseteq {id} \union ToSet(Tail(tool.todo))
                 /\ (tool.ret = OK => ToSet(Current.args) \subseteq done \union ToSet(tool.todo))
    BY <1>1, <2>1, FirstAndRest DEF EachStep, Is
  <2>3. -1 \in Rets /\ -1 # OK /\ -1 # QUIT
    BY DEF Rets, OK, QUIT
  <2>4. CASE tool' = Fails(Current) /\ UNCHANGED done
    <3>1. PICK ret \in {-1, tool.ret}, todo \in {<<>>, Tail(tool.todo)} :
            /\ Fails(Current) = [tool EXCEPT !.ret = ret, !.todo = todo]
            /\ Current.args # <<>> => ret = -1
      BY <1>4 DEF Fails, ZoneFails, LightFails, OutputFails, EachCommands
    <3>2. tool' = [tool EXCEPT !.pc = "each", !.ret = ret, !.todo = todo]
      BY <1>1, <2>1, <2>4, <3>1 DEF ToolTypes
    <3>3. ret \in Rets /\ ret # QUIT
      BY <1>1, <2>1, <2>3, <3>1 DEF ToolTypes
    <3>4. Asked => todo \in Seq(Nat) /\ ret # OK
      <4>1. <<>> \in Seq(Nat)
        OBVIOUS
      <4>2. todo = <<>> \/ todo = Tail(tool.todo)
        BY <3>1
      <4>3. Asked => todo \in Seq(Nat)
        <5> SUFFICES ASSUME Asked PROVE todo \in Seq(Nat)
          OBVIOUS
        <5>1. Tail(tool.todo) \in Seq(Nat)
          BY <2>2
        <5> QED BY <4>1, <4>2, <5>1
      <4> QED BY <2>3, <3>1, <4>3
    <3> QED BY <1>5, <3>1, <3>2, <3>3, <3>4
  <2>5. CASE /\ tool' = [tool EXCEPT !.todo = IF DumpFails(Current) /\ Prints(Current, id)
                                             THEN <<>> ELSE Tail(@)]
             /\ done' = IF Prints(Current, id) THEN done \union {id} ELSE done
    <3> DEFINE todo == IF DumpFails(Current) /\ Prints(Current, id) THEN <<>> ELSE Tail(tool.todo)
    <3>1. tool' = [tool EXCEPT !.pc = "each", !.ret = tool.ret, !.todo = todo]
      BY <1>1, <2>1, <2>5 DEF ToolTypes
    <3>2. Asked => todo = Tail(tool.todo) /\ done' = done \union {id}
      <4>1. Asked => ~ DumpFails(Current) /\ Prints(Current, id)
        BY DEF DumpFails, Prints
      <4> QED BY <2>5, <4>1
    <3> HIDE DEF todo, id
    <3>3. Asked => todo \in Seq(Nat) /\ (tool.ret = OK => ToSet(Current.args) \subseteq done' \union ToSet(todo))
      <4>1. SUFFICES ASSUME Asked
                     PROVE  /\ todo \in Seq(Nat)
                            /\ tool.ret = OK => ToSet(Current.args) \subseteq done' \union ToSet(todo)
        OBVIOUS
      <4>2. todo = Tail(tool.todo) /\ done' = done \union {id}
        BY <3>2, <4>1
      <4> HIDE DEF ToSet
      <4>3. ToSet(todo) = ToSet(Tail(tool.todo))
        BY <4>2
      <4>4. tool.ret = OK => ToSet(Current.args) \subseteq done' \union ToSet(todo)
        BY <2>2, <4>1, <4>2, <4>3
      <4> QED BY <2>2, <4>1, <4>2, <4>4
    <3>4. tool.ret \in Rets
      BY <1>1 DEF ToolTypes
    <3> QED BY <1>5, <2>1, <3>1, <3>3, <3>4
  <2> QED BY <1>7, <2>4, <2>5 DEF EachAnswered
<1>8. CASE EachDone
  <2>1. tool.pc = "each" /\ tool.todo = <<>> /\ tool' = Returned(tool.ret) /\ done' = done
    BY <1>8 DEF EachDone, Moves, Is
  <2>2. tool.ret \in Rets /\ tool.ret # QUIT
    BY <1>1, <2>1 DEF ToolTypes, Running
  <2>3. ToSet(<<>>) = {}
    BY DEF ToSet
  <2>4. tool.ret = OK /\ ~ Silent => ToSet(Current.args) \subseteq done
    <3>1. CASE Current.args = <<>>
      BY <2>3, <3>1
    <3>2. CASE Current.args # <<>>
      BY <1>1, <2>1, <2>3, <3>2 DEF EachStep, Is, Silent
    <3> QED BY <3>1, <3>2
  <2>5. Current' = Current
    <3>1. tool'.line = tool.line
      BY <1>1, <2>1 DEF Returned, ToolTypes
    <3> QED BY <1>3, <3>1, SameCommand
  <2>6. tool.ret = OK /\ ~ Silent => Told'
    BY <1>4, <2>1, <2>4, <2>5 DEF Told
  <2> QED BY <1>1, <1>2, <1>3, <2>1, <2>2, <2>6, CommandReturns
<1> QED BY <1>6, <1>7, <1>8

\* The log, which says what it was asked to when it is told to end.
LEMMA LogKeeps ==
  ASSUME ToolInv, ExecuteLog \/ LogInterrupted \/ LogReturns
  PROVE  ToolInv'
<1>1. ToolTypes /\ EmuTypes /\ Running
  BY DEF ToolInv
<1>2. Ran
  BY <1>1 DEF Running, Is, ExecuteLog, LogInterrupted, LogReturns
<1>3. run' = run /\ emu' = emu
  BY DEF ExecuteLog, LogInterrupted, LogReturns, Moves, emuVars
<1>4. Current.name = "log"
  BY <1>1 DEF Running, Is, ExecuteLog, LogInterrupted, LogReturns
<1>5. HELP \in Rets /\ HELP # OK /\ HELP # QUIT /\ OK \in Rets /\ OK # QUIT /\ INTERRUPT \in Rets
  BY DEF HELP, OK, QUIT, INTERRUPT, Rets
\* What has to be shown of a step within the command.
<1>6. ASSUME ToolTypes', tool'.line = tool.line, tool'.pc \in {"log", "interrupted", "died"},
             tool'.ret # QUIT
      PROVE  ToolInv'
  <2>1. Current' = Current /\ Ran' = Ran
    BY <1>3, <1>6, SameCommand
  <2>2. EmuTypes' /\ Running' /\ EachStep'
    BY <1>1, <1>2, <1>3, <1>4, <1>6, <2>1 DEF Running, EachStep, Is, EmuTypes
  <2> QED BY <1>3, <1>6, <2>2, CommandGoes
<1>7. CASE ExecuteLog
  <2>1. CASE "help" \in Current.options
    <3>1. tool' = Returned(HELP)
      BY <1>7, <2>1 DEF ExecuteLog
    <3> QED BY <1>1, <1>2, <1>3, <1>5, <3>1, CommandReturns
  <2>2. CASE "help" \notin Current.options
    <3>1. LogRet \in Rets /\ LogRet # QUIT
      BY <1>5 DEF LogRet
    <3>2. CASE tool' = [tool EXCEPT !.pc = "log", !.ret = LogRet]
      <4> HIDE DEF LogRet
      <4>1. ToolTypes' /\ tool'.line = tool.line /\ tool'.pc = "log" /\ tool'.ret = LogRet
        BY <1>1, <1>3, <3>1, <3>2 DEF ToolTypes
      <4> QED BY <1>6, <3>1, <4>1
    <3>3. CASE tool' = Returned(LogRet)
      <4>1. Silent
        BY <1>4 DEF Silent
      <4> QED BY <1>1, <1>2, <1>3, <3>1, <3>3, <4>1, CommandReturns
    <3> QED BY <1>7, <2>2, <3>2, <3>3 DEF ExecuteLog
  <2> QED BY <2>1, <2>2
<1>8. CASE LogInterrupted
  <2>1. tool.pc \in {"log", "interrupted"} /\ tool.ret # QUIT
    BY <1>1, <1>8 DEF LogInterrupted, Is, Running
  <2>2. PICK pc \in {"interrupted", "died"}, gRet \in {INTERRUPT, tool.gRet} :
          tool' = [tool EXCEPT !.pc = pc, !.gRet = gRet]
    <3>1. CASE Is("log") /\ Moves([tool EXCEPT !.pc = "interrupted", !.gRet = INTERRUPT])
      BY <3>1 DEF Moves
    <3>2. CASE Moves([tool EXCEPT !.pc = "died"])
      <4>1. tool' = [tool EXCEPT !.pc = "died", !.gRet = tool.gRet]
        BY <1>1, <3>2 DEF Moves, ToolTypes
      <4> QED BY <4>1
    <3> QED BY <1>8, <3>1, <3>2 DEF LogInterrupted
  <2>3. gRet \in Rets
    BY <1>1, <1>5, <2>2 DEF ToolTypes
  <2>4. ToolTypes' /\ tool'.line = tool.line /\ tool'.pc = pc /\ tool'.ret = tool.ret
    BY <1>1, <1>3, <2>2, <2>3 DEF ToolTypes
  <2> QED BY <1>6, <2>1, <2>2, <2>4
<1>9. CASE LogReturns
  <2>1. tool.pc = "interrupted" /\ tool' = Returned(tool.ret) /\ done' = {"call"}
    BY <1>9 DEF LogReturns, Is
  <2>2. tool.ret \in Rets /\ tool.ret # QUIT
    BY <1>1, <2>1 DEF ToolTypes, Running
  <2>3. tool'.line = tool.line
    BY <1>1, <2>1 DEF Returned, ToolTypes
  <2>4. Current' = Current
    BY <1>3, <2>3, SameCommand
  <2>5. Told'
    BY <1>4, <2>1, <2>4 DEF Told, EachCommands
  <2> QED BY <1>1, <1>2, <1>3, <2>1, <2>2, <2>5, CommandReturns
<1> QED BY <1>7, <1>8, <1>9

\* The keypad, from its start to what it returns.
LEMMA KeypadKeeps ==
  ASSUME ToolInv, \/ ExecuteKeypad \/ KeypadHelp \/ KeypadReturns
                  \/ Is("keypad") /\ EmuNext /\ UNCHANGED <<tool, done, run>>
  PROVE  ToolInv'
<1>1. ToolTypes /\ EmuTypes /\ Running
  BY DEF ToolInv
<1>2. Ran
  BY <1>1 DEF Running, Is, ExecuteKeypad, KeypadHelp, KeypadReturns
<1>3. Current.name = "keypad"
  BY <1>1 DEF Running, Is, ExecuteKeypad, KeypadHelp, KeypadReturns
<1>4. run' = run
  BY DEF ExecuteKeypad, KeypadHelp, KeypadReturns, Moves
<1>5. ASSUME ToolTypes', EmuTypes', tool'.line = tool.line, tool'.pc \in {"keypad", "died"}
      PROVE  ToolInv'
  <2>1. Current' = Current /\ Ran' = Ran
    BY <1>4, <1>5, SameCommand
  <2>2. Running' /\ EachStep'
    BY <1>2, <1>3, <1>5, <2>1 DEF Running, EachStep, Is
  <2> QED BY <1>4, <1>5, <2>2, CommandGoes
<1>6. CASE ExecuteKeypad
  <2>1. EmuTypes'
    BY <1>1, <1>6 DEF ExecuteKeypad, EmuTypes, EmuShaped
  <2>2. ToolTypes' /\ tool'.line = tool.line /\ tool'.pc = "keypad"
    BY <1>1, <1>4, <1>6 DEF ExecuteKeypad, ToolTypes
  <2> QED BY <1>5, <2>1, <2>2
<1>h. CASE KeypadHelp
  <2>1. emu' = emu /\ tool' = Returned(HELP) /\ HELP \in Rets /\ HELP # OK /\ HELP # QUIT
    BY <1>h DEF KeypadHelp, Moves, emuVars, HELP, OK, QUIT, Rets
  <2> QED BY <1>1, <1>2, <1>4, <2>1, CommandReturns
<1>7. CASE KeypadReturns
  <2>1. emu' = emu /\ done' = done
    BY <1>7 DEF KeypadReturns, Moves, emuVars
  <2>2. CASE emu.pc = "died"
    <3>1. tool' = [tool EXCEPT !.pc = "died"]
      BY <1>7, <2>2 DEF KeypadReturns, Moves
    <3>2. ToolTypes' /\ tool'.line = tool.line /\ tool'.pc = "died" /\ EmuTypes'
      BY <1>1, <1>4, <2>1, <3>1 DEF ToolTypes, EmuTypes
    <3> QED BY <1>5, <3>2
  <2>3. CASE emu.pc # "died"
    <3>1. tool' = Returned(emu.ret)
      BY <1>7, <2>3 DEF KeypadReturns, Moves
    <3>2. emu.ret \in Rets /\ emu.ret # QUIT
      BY <1>1 DEF EmuTypes, EmuShaped, NORMAL_QUIT, TIMEOUT, QUIT, Rets
    <3>3. Silent
      BY <1>3 DEF Silent
    <3> QED BY <1>1, <1>2, <1>4, <2>1, <3>1, <3>2, <3>3, CommandReturns
  <2> QED BY <2>2, <2>3
<1>8. CASE Is("keypad") /\ EmuNext /\ UNCHANGED <<tool, done, run>>
  <2>1. EmuTypes'
    BY <1>1, <1>8, KeypadTypes
  <2>2. ToolTypes' /\ tool'.line = tool.line /\ tool'.pc = "keypad"
    BY <1>1, <1>8 DEF ToolTypes, Is
  <2> QED BY <1>5, <2>1, <2>2
<1> QED BY <1>6, <1>h, <1>7, <1>8

-----------------------------------------------------------------------------

\* Every step keeps it.
LEMMA ToolKeeps ==
  ASSUME ToolInv, [Next]_vars
  PROVE  ToolInv'
<1>1. CASE UNCHANGED vars
  <2>1. tool' = tool /\ run' = run /\ emu' = emu /\ done' = done
    BY <1>1 DEF vars, emuVars
  <2> QED BY <2>1 DEF ToolInv, ToolTypes, EmuTypes, Running, EachStep, Honest, Is, Ran, Current,
          Told, Silent, Exits
<1>2. CASE ParseOptions \/ ConnectToBus \/ ChooseCommands \/ NextLine
  BY <1>2, MainKeeps
<1>3. CASE ExecuteAtOnce \/ ExecuteCall \/ StatusAnswered \/ InfoAnswered \/ CallUnanswered
  BY <1>3, CallsKeep
<1>4. CASE ExecuteEach \/ EachAnswered \/ EachDone
  BY <1>4, EachKeeps
<1>5. CASE ExecuteLog \/ LogInterrupted \/ LogReturns
  BY <1>5, LogKeeps
<1>6. CASE \/ ExecuteKeypad \/ KeypadHelp \/ KeypadReturns
           \/ Is("keypad") /\ EmuNext /\ UNCHANGED <<tool, done, run>>
  BY <1>6, KeypadKeeps
<1> QED BY <1>1, <1>2, <1>3, <1>4, <1>5, <1>6 DEF Next, ToolNext

\* Whatever the tool is started with, and however its calls end: with a bus it
\* exits with 0 only if the last command did all it was asked to, unless that was
\* for JSON, the keypad or the log, which return 0 also when they could not begin.
THEOREM ExitIsHonest == Spec => []ExitTellsFailure
<1>1. Init => ToolInv
  BY ToolInitial
<1>2. ToolInv /\ [Next]_vars => ToolInv'
  BY ToolKeeps
<1>3. ToolInv => ExitTellsFailure
  <2> SUFFICES ASSUME ToolInv, Is("ended"), ExitStatus = 0, Exits = {}, run.bus, Ran,
                      Current.name \notin {"keypad", "log"}, "json" \notin Current.options
               PROVE  Told
    BY DEF ExitTellsFailure, Told, Ran, EachCommands
  <2>1. tool.gRet = OK
    <3>1. tool.gRet \in -255 .. 255 /\ tool.gRet % 256 = 0
      BY DEF ToolInv, ToolTypes, Rets, ExitStatus
    <3> QED BY <3>1 DEF OK
  <2> QED BY <2>1 DEF ToolInv, Honest, Is, Silent
<1> QED BY <1>1, <1>2, <1>3, PTL DEF Spec

-----------------------------------------------------------------------------
(* The keypad's copy of the daemon's image.                                *)

\* Before the loop nothing is signalled to it, in the loop every change is.
Starting == emu.pc \in {"off", "zones", "touchpad", "match"}
Following == Starting \/ emu.subscribed

\* Both have all the objects, with their fields.
Shaped(objects) == objects = [o \in Objects |-> [f \in AllFields(o) |-> objects[o][f]]]

Signal(o, f, value) == [object |-> o, dict |-> [g \in {f} |-> value]]
Signals == UNION {{Signal(o, f, value) : f \in Fields(o), value \in {0, 1}} : o \in Objects}

About(signal, o, f) == signal.object = o /\ f \in DOMAIN signal.dict

\* The last signal that waits has what the daemon has of a field, or none waits
\* and the field is known.
UpToDate(o, f) ==
  \/ /\ known[o][f] = image[o][f]
     /\ \A i \in DOMAIN inbox : ~ About(inbox[i], o, f)
  \/ \E i \in DOMAIN inbox :
       /\ About(inbox[i], o, f) /\ inbox[i].dict[f] = image[o][f]
       /\ \A j \in DOMAIN inbox : j > i => ~ About(inbox[j], o, f)

ScreenShapes ==
  /\ Shaped(image) /\ Shaped(known) /\ inbox \in Seq(Signals)
  /\ \A o \in Objects : \A f \in Fields(o) : image[o][f] \in {0, 1}
  /\ Starting => inbox = <<>> /\ ~ emu.subscribed

Followed ==
  Following => \A o \in Objects \ {0} : \A f \in AllFields(o) : <<o, f>> \in missed \/ UpToDate(o, f)

\* Zone 0 is none of those the keypad knows, and belongs to no partition.
Unknown == 0 \in EmuZones => known[0]["partitionId"] = 0 /\ <<0, "partitionId">> \in missed

\* The keypad is started once.
StartedOnce == emu.pc # "off" => tool.pc \in {"keypad", "ended", "died"}

\* What comes of an object replaces what it has fields for, unless it is zone 0.
LEMMA UpdatedFields ==
  ASSUME Shaped(known), NEW o \in Objects, NEW dict, DOMAIN dict \subseteq AllFields(o)
  PROVE  Updated(o, dict) =
           [q \in Objects |-> [f \in AllFields(q) |->
              IF q = o /\ o # 0 /\ f \in DOMAIN dict THEN dict[f] ELSE known[q][f]]]
<1>0. CASE o = 0
  <2>1. Updated(o, dict) = known
    BY <1>0 DEF Updated, ZoneUpdated, KnownZone, Touchpad
  <2>2. known = [q \in Objects |-> [f \in AllFields(q) |-> known[q][f]]]
    BY DEF Shaped
  <2> QED BY <1>0, <2>1, <2>2
<1> SUFFICES ASSUME o # 0
             PROVE  Updated(o, dict) =
                      [q \in Objects |-> [f \in AllFields(q) |->
                         IF q = o /\ f \in DOMAIN dict THEN dict[f] ELSE known[q][f]]]
  BY <1>0
<1>1. Updated(o, dict) = [known EXCEPT ![o] = Taken(dict, known[o])]
  <2>1. CASE o = Touchpad
    BY <2>1 DEF Updated, TouchpadUpdated
  <2>2. CASE o # Touchpad
    <3>1. KnownZone(o)
      <4>1. o \in 0 .. LastZone - 1
        BY <2>2, FieldsAre
      <4> QED BY <4>1 DEF KnownZone, LastZone
    <3> QED BY <2>2, <3>1 DEF Updated, ZoneUpdated
  <2> QED BY <2>1, <2>2
<1>2. DOMAIN known = Objects /\ \A q \in Objects : known[q] = [f \in AllFields(q) |-> known[q][f]]
  BY DEF Shaped
<1>3. Taken(dict, known[o]) = [f \in AllFields(o) |-> IF f \in DOMAIN dict THEN dict[f] ELSE known[o][f]]
  <2>1. DOMAIN known[o] = AllFields(o)
    BY <1>2
  <2>2. DOMAIN dict \union DOMAIN known[o] = AllFields(o)
    BY <2>1
  <2> QED BY <2>2 DEF Taken
<1> DEFINE row  == Taken(dict, known[o])
           told == [q \in Objects |-> [f \in AllFields(q) |->
                      IF q = o /\ f \in DOMAIN dict THEN dict[f] ELSE known[q][f]]]
<1>4. told[o] = row
  BY <1>3
<1>5. ASSUME NEW q \in Objects, q # o PROVE told[q] = known[q]
  <2>1. told[q] = [f \in AllFields(q) |-> known[q][f]]
    BY <1>5
  <2> HIDE DEF told
  <2> QED BY <1>2, <2>1
<1>6. DOMAIN told = Objects /\ told = [q \in Objects |-> told[q]]
  OBVIOUS
<1>7. Updated(o, dict) = [q \in Objects |-> IF q = o THEN row ELSE known[q]]
  BY <1>1, <1>2
<1> HIDE DEF told, row
<1>8. Updated(o, dict) = told
  BY <1>4, <1>5, <1>6, <1>7
<1> QED BY <1>8 DEF told

\* The signal of a change.
LEMMA SignalParts ==
  ASSUME NEW signal \in Signals
  PROVE  \E o \in Objects : \E f \in Fields(o) :
           /\ signal.object = o /\ DOMAIN signal.dict = {f} /\ signal.dict[f] \in {0, 1}
<1>1. PICK o \in Objects : signal \in {Signal(o, f, value) : f \in Fields(o), value \in {0, 1}}
  BY DEF Signals
<1>2. PICK f \in Fields(o), value \in {0, 1} : signal = Signal(o, f, value)
  BY <1>1
<1>3. signal.object = o /\ DOMAIN signal.dict = {f} /\ signal.dict[f] = value
  BY <1>2 DEF Signal
<1> QED BY <1>3

\* A step that leaves the objects and signals alone, and does not begin to follow.
LEMMA StandsStill ==
  ASSUME ScreenShapes, Followed, UNCHANGED <<image, known, inbox, missed>>,
         Starting' => Starting /\ ~ emu'.subscribed, emu'.subscribed => Following
  PROVE  ScreenShapes' /\ Followed'
<1>1. ScreenShapes'
  BY DEF ScreenShapes, Shaped
<1>2. Following' => Following
  BY DEF Following
<1>3. \A o, f : UpToDate(o, f)' = UpToDate(o, f)
  BY DEF UpToDate
<1> HIDE DEF UpToDate
<1>4. Followed'
  BY <1>2, <1>3 DEF Followed
<1> QED BY <1>1, <1>4

\* An object that is read, before anything is signalled, is as the daemon has it.
LEMMA ReadKeeps ==
  ASSUME ScreenShapes, Followed, Starting, NEW o \in Objects \ {0}, Read(o), UNCHANGED <<image, inbox>>,
         ~ emu'.subscribed
  PROVE  ScreenShapes' /\ Followed'
<1>1. DOMAIN image[o] = AllFields(o)
  BY DEF ScreenShapes, Shaped
<1>2. known' = [q \in Objects |-> [f \in AllFields(q) |->
                  IF q = o /\ o # 0 /\ f \in DOMAIN image[o] THEN image[o][f] ELSE known[q][f]]]
  BY <1>1, UpdatedFields DEF Read, ScreenShapes
<1>3. ASSUME NEW q \in Objects, NEW f \in AllFields(q)
      PROVE  known'[q][f] = IF q = o THEN image[q][f] ELSE known[q][f]
  BY <1>1, <1>2, <1>3
<1>4. Shaped(known)'
  BY <1>2 DEF Shaped
<1>5. inbox = <<>> /\ inbox' = <<>>
  BY DEF ScreenShapes
<1>6. ScreenShapes'
  BY <1>4, <1>5 DEF ScreenShapes, Shaped
<1>7. ASSUME NEW q \in Objects \ {0}, NEW f \in AllFields(q), <<q, f>> \notin missed' PROVE UpToDate(q, f)'
  <2>1. known'[q][f] = image[q][f]
    <3>1. CASE q = o
      BY <1>3, <3>1
    <3>2. CASE q # o
      <4>1. <<q, f>> \notin missed
        BY <1>7, <3>2 DEF Read
      <4>2. known[q][f] = image[q][f]
        BY <1>5, <4>1 DEF Followed, Following, UpToDate
      <4> QED BY <1>3, <3>2, <4>2
    <3> QED BY <3>1, <3>2
  <2> QED BY <1>5, <2>1 DEF UpToDate
<1> HIDE DEF UpToDate
<1>8. Followed'
  BY <1>7 DEF Followed
<1> QED BY <1>6, <1>8

\* A change is announced to the keypad that listens, or counts as missed.
LEMMA ChangeKeeps ==
  ASSUME ScreenShapes, Followed, NEW o \in Objects, NEW f \in Fields(o), Changes(o, f)
  PROVE  ScreenShapes' /\ Followed'
<1>1. f \in AllFields(o) /\ image[o][f] \in {0, 1} /\ inbox \in Seq(Signals)
  BY FieldsAre DEF ScreenShapes
<1>2. image' = [q \in Objects |-> [g \in AllFields(q) |->
                  IF q = o /\ g = f THEN 1 - image[o][f] ELSE image[q][g]]]
  <2>1. DOMAIN image = Objects /\ \A q \in Objects : image[q] = [g \in AllFields(q) |-> image[q][g]]
    BY DEF ScreenShapes, Shaped
  <2>2. image' = [image EXCEPT ![o] = [image[o] EXCEPT ![f] = 1 - image[o][f]]]
    BY <1>1, <2>1 DEF Changes
  <2>3. [image[o] EXCEPT ![f] = 1 - image[o][f]]
          = [g \in AllFields(o) |-> IF g = f THEN 1 - image[o][f] ELSE image[o][g]]
    BY <2>1
  <2> QED BY <2>1, <2>2, <2>3
<1>3. ASSUME NEW q \in Objects, NEW g \in AllFields(q), <<q, g>> # <<o, f>>
      PROVE  image'[q][g] = image[q][g]
  BY <1>2, <1>3
<1>4. image'[o][f] = 1 - image[o][f] /\ image'[o][f] \in {0, 1}
  BY <1>1, <1>2
<1>5. known' = known /\ emu' = emu
  BY DEF Changes
<1>6. Shaped(image)' /\ Shaped(known)'
  BY <1>2, <1>5 DEF ScreenShapes, Shaped
<1>7. \A q \in Objects : \A g \in Fields(q) : image'[q][g] \in {0, 1}
  BY <1>3, <1>4, FieldsAre DEF ScreenShapes
<1> DEFINE told == [object |-> o, dict |-> [g \in {f} |-> 1 - image[o][f]]]
<1>8. told \in Signals /\ told.object = o /\ DOMAIN told.dict = {f} /\ told.dict[f] = image'[o][f]
  <2>1. told = Signal(o, f, 1 - image[o][f]) /\ 1 - image[o][f] \in {0, 1}
    BY <1>1 DEF Signal
  <2>2. told \in Signals
    BY <2>1 DEF Signals
  <2> QED BY <1>4, <2>2
<1>9. CASE inbox' = inbox /\ missed' = missed \union {<<o, f>>}
  <2>1. inbox' = inbox /\ missed' = missed \union {<<o, f>>}
    BY <1>9
  <2>2. ScreenShapes'
    BY <1>5, <1>6, <1>7, <2>1 DEF ScreenShapes, Starting
  <2>3. ASSUME NEW q \in Objects \ {0}, NEW g \in AllFields(q), <<q, g>> \notin missed', Following
        PROVE  UpToDate(q, g)'
    BY <1>3, <1>5, <2>1, <2>3 DEF Followed, UpToDate
  <2>4. Following' = Following
    BY <1>5 DEF Following, Starting
  <2> HIDE DEF UpToDate
  <2> QED BY <2>2, <2>3, <2>4 DEF Followed
<1>10. CASE emu.subscribed /\ inbox' = Append(inbox, told) /\ missed' = missed \ {<<o, f>>}
  <2> HIDE DEF told
  <2>1. inbox' = Append(inbox, told) /\ missed' = missed \ {<<o, f>>}
    BY <1>10
  <2>2. inbox' \in Seq(Signals) /\ DOMAIN inbox' = DOMAIN inbox \union {Len(inbox) + 1}
        /\ DOMAIN inbox = 1 .. Len(inbox) /\ Len(inbox) \in Nat
        /\ inbox'[Len(inbox) + 1] = told /\ \A i \in DOMAIN inbox : inbox'[i] = inbox[i]
    BY <1>1, <1>8, <2>1
  <2>3. ScreenShapes'
    BY <1>5, <1>6, <1>7, <1>10, <2>2 DEF ScreenShapes, Starting
  <2>4. UpToDate(o, f)'
    <3>1. About(inbox'[Len(inbox) + 1], o, f) /\ inbox'[Len(inbox) + 1].dict[f] = image'[o][f]
      BY <1>8, <2>2 DEF About
    <3>2. \A j \in DOMAIN inbox' : ~ (j > Len(inbox) + 1)
      BY <2>2
    <3> QED BY <2>2, <3>1, <3>2 DEF UpToDate
  <2>5. ASSUME NEW q \in Objects, NEW g \in AllFields(q), <<q, g>> # <<o, f>>, UpToDate(q, g)
        PROVE  UpToDate(q, g)'
    <3>1. ~ About(inbox'[Len(inbox) + 1], q, g)
      BY <1>8, <2>2, <2>5 DEF About
    <3>2. image'[q][g] = image[q][g]
      BY <1>3, <2>5
    <3>3. \A i \in DOMAIN inbox : About(inbox'[i], q, g) = About(inbox[i], q, g)
      BY <2>2
    <3>4. CASE known[q][g] = image[q][g] /\ \A i \in DOMAIN inbox : ~ About(inbox[i], q, g)
      <4>1. \A i \in DOMAIN inbox' : ~ About(inbox'[i], q, g)
        BY <2>2, <3>1, <3>3, <3>4
      <4> QED BY <1>5, <3>2, <3>4, <4>1 DEF UpToDate
    <3>5. ASSUME NEW i \in DOMAIN inbox, About(inbox[i], q, g), inbox[i].dict[g] = image[q][g],
                 \A j \in DOMAIN inbox : j > i => ~ About(inbox[j], q, g)
          PROVE  UpToDate(q, g)'
      <4>1. i \in DOMAIN inbox' /\ About(inbox'[i], q, g) /\ inbox'[i].dict[g] = image'[q][g]
        BY <2>2, <3>2, <3>3, <3>5
      <4>2. \A j \in DOMAIN inbox' : j > i => ~ About(inbox'[j], q, g)
        BY <2>2, <3>1, <3>3, <3>5
      <4> QED BY <4>1, <4>2 DEF UpToDate
    <3> QED BY <2>5, <3>4, <3>5 DEF UpToDate
  <2>6. ASSUME NEW q \in Objects \ {0}, NEW g \in AllFields(q), <<q, g>> \notin missed'
        PROVE  UpToDate(q, g)'
    <3>1. CASE <<q, g>> = <<o, f>>
      <4>1. q = o /\ g = f
        BY <3>1
      <4> QED BY <2>4, <4>1
    <3>2. CASE <<q, g>> # <<o, f>>
      <4>1. <<q, g>> \notin missed
        BY <2>1, <2>6, <3>2
      <4>2. UpToDate(q, g)
        BY <1>10, <4>1 DEF Followed, Following
      <4> QED BY <2>5, <3>2, <4>2
    <3> QED BY <3>1, <3>2
  <2> HIDE DEF UpToDate
  <2> QED BY <2>3, <2>6 DEF Followed
<1>11. \/ inbox' = inbox /\ missed' = missed \union {<<o, f>>}
       \/ emu.subscribed /\ inbox' = Append(inbox, told) /\ missed' = missed \ {<<o, f>>}
  BY DEF Changes, Announced, Unannounced
<1> QED BY <1>9, <1>10, <1>11

\* The first signal that waits is taken; what it was the last about is then known.
LEMMA DispatchKeeps ==
  ASSUME EmuTypes, ScreenShapes, Followed, Dispatch
  PROVE  ScreenShapes' /\ Followed'
<1>1. emu'.pc \in {"keys", "ended"} /\ (emu'.subscribed => emu.subscribed)
  <2>1. CASE emu' = [emu EXCEPT !.pc = "keys"]
    BY <2>1 DEF EmuTypes, EmuShaped
  <2>2. CASE emu' = [emu EXCEPT !.pc = "ended", !.trap = "broken", !.subscribed = FALSE,
                                !.ret = IF @ = NORMAL_QUIT THEN 0 ELSE @]
    BY <2>2 DEF EmuTypes, EmuShaped
  <2> QED BY <2>1, <2>2 DEF Dispatch, TurnEnds
<1>2. ~ Starting' /\ (Following' => Following)
  BY <1>1 DEF Starting, Following
<1>3. image' = image /\ missed' = missed
  BY DEF Dispatch
<1>4. CASE inbox = <<>>
  <2>1. known' = known /\ inbox' = inbox
    BY <1>4 DEF Dispatch
  <2> QED BY <1>1, <1>2, <1>3, <2>1, StandsStill DEF Following
<1>5. CASE inbox # <<>>
  <2> DEFINE first == Head(inbox)
  <2>1. /\ inbox \in Seq(Signals) /\ known' = Updated(first.object, first.dict) /\ inbox' = Tail(inbox)
    BY <1>5 DEF Dispatch, ScreenShapes
  <2>2. /\ first = inbox[1] /\ first \in Signals /\ inbox' \in Seq(Signals)
        /\ Len(inbox) \in Nat /\ Len(inbox) >= 1 /\ DOMAIN inbox = 1 .. Len(inbox)
        /\ DOMAIN inbox' = 1 .. Len(inbox) - 1
        /\ \A i \in DOMAIN inbox' : inbox'[i] = inbox[i + 1]
    BY <1>5, <2>1
  <2> HIDE DEF first
  <2>3. PICK o \in Objects : \E f \in Fields(o) :
           /\ first.object = o /\ DOMAIN first.dict = {f} /\ first.dict[f] \in {0, 1}
    BY <2>2, SignalParts
  <2>4. PICK f \in Fields(o) : first.object = o /\ DOMAIN first.dict = {f}
    BY <2>3
  <2>5. f \in AllFields(o)
    BY FieldsAre
  <2>6. known' = [q \in Objects |-> [g \in AllFields(q) |->
                   IF q = o /\ o # 0 /\ g \in DOMAIN first.dict THEN first.dict[g] ELSE known[q][g]]]
    <3>1. Shaped(known) /\ DOMAIN first.dict \subseteq AllFields(o) /\ known' = Updated(o, first.dict)
      BY <2>1, <2>4, <2>5 DEF ScreenShapes
    <3> QED BY <3>1, UpdatedFields
  <2>7. ASSUME NEW q \in Objects, NEW g \in AllFields(q)
        PROVE  known'[q][g] = IF q = o /\ o # 0 /\ g = f THEN first.dict[f] ELSE known[q][g]
    BY <2>4, <2>6, <2>7
  <2>8. ScreenShapes'
    BY <1>2, <1>3, <2>2, <2>6 DEF ScreenShapes, Shaped
  <2>9. ASSUME NEW q \in Objects \ {0}, NEW g \in AllFields(q), UpToDate(q, g) PROVE UpToDate(q, g)'
    <3>1. About(first, q, g) <=> q = o /\ g = f
      BY <2>4 DEF About
    <3>2. \A i \in DOMAIN inbox' : About(inbox'[i], q, g) = About(inbox[i + 1], q, g) /\ i + 1 \in DOMAIN inbox
      BY <2>2
    <3>3. CASE known[q][g] = image[q][g] /\ \A i \in DOMAIN inbox : ~ About(inbox[i], q, g)
      <4>1. ~ About(first, q, g)
        BY <2>2, <3>3
      <4>2. known'[q][g] = image'[q][g]
        BY <1>3, <2>7, <3>1, <3>3, <4>1
      <4>3. \A i \in DOMAIN inbox' : ~ About(inbox'[i], q, g)
        BY <3>2, <3>3
      <4> QED BY <4>2, <4>3 DEF UpToDate
    <3>4. ASSUME NEW i \in DOMAIN inbox, About(inbox[i], q, g), inbox[i].dict[g] = image[q][g],
                 \A j \in DOMAIN inbox : j > i => ~ About(inbox[j], q, g)
          PROVE  UpToDate(q, g)'
      <4>1. CASE i = 1
        <5>1. q = o /\ g = f /\ first.dict[f] = image[q][g]
          BY <2>2, <3>1, <3>4, <4>1
        <5>2. known'[q][g] = image'[q][g]
          BY <1>3, <2>7, <5>1
        <5>3. \A j \in DOMAIN inbox' : ~ About(inbox'[j], q, g)
          BY <2>2, <3>2, <3>4, <4>1
        <5> QED BY <5>2, <5>3 DEF UpToDate
      <4>2. CASE i # 1
        <5>1. i - 1 \in DOMAIN inbox' /\ inbox'[i - 1] = inbox[i]
          BY <2>2, <4>2
        <5>2. About(inbox'[i - 1], q, g) /\ inbox'[i - 1].dict[g] = image'[q][g]
          BY <1>3, <3>4, <5>1
        <5>3. \A j \in DOMAIN inbox' : j > i - 1 => ~ About(inbox'[j], q, g)
          BY <2>2, <3>2, <3>4
        <5> QED BY <5>1, <5>2, <5>3 DEF UpToDate
      <4> QED BY <4>1, <4>2
    <3> QED BY <2>9, <3>3, <3>4 DEF UpToDate
  <2> HIDE DEF UpToDate
  <2>10. Followed'
    BY <1>2, <1>3, <2>9 DEF Followed
  <2> QED BY <2>8, <2>10
<1> QED BY <1>4, <1>5

\* Every step of the keypad.
LEMMA KeypadFollows ==
  ASSUME EmuTypes, ScreenShapes, Followed, EmuNext
  PROVE  ScreenShapes' /\ Followed'
<1>1. ASSUME UNCHANGED <<image, known, inbox, missed>>, emu'.subscribed = emu.subscribed,
             Starting' => Starting
      PROVE  ScreenShapes' /\ Followed'
  <2>1. Starting' => ~ emu'.subscribed
    BY <1>1 DEF ScreenShapes
  <2> QED BY <1>1, <2>1, StandsStill DEF Following
<1>2. ASSUME NEW pc, emu' = [emu EXCEPT !.pc = pc]
      PROVE  emu'.subscribed = emu.subscribed /\ emu'.pc = pc
  BY <1>2 DEF EmuTypes, EmuShaped
<1>3. CASE RefreshZones
  <2>1. Starting /\ emu.todo \in Nat \ {0} /\ ~ emu.subscribed /\ emu'.subscribed = emu.subscribed /\ Starting'
    BY <1>3 DEF RefreshZones, At, Starting, ScreenShapes, EmuTypes, EmuShaped
  <2>2. NextZone \in Objects \ {0}
    <3>1. NextZone \in EmuZones /\ NextZone \in 1 .. LastZone
      BY <1>3, <2>1, NextZoneIs DEF RefreshZones
    <3> HIDE DEF NextZone
    <3> QED BY <3>1 DEF Objects, LastZone
  <2>3. CASE Read(NextZone)
    BY <1>3, <2>1, <2>2, <2>3, ReadKeeps DEF RefreshZones
  <2>4. CASE UNCHANGED <<known, missed>>
    BY <1>1, <1>3, <2>1, <2>4 DEF RefreshZones
  <2> QED BY <1>3, <2>3, <2>4 DEF RefreshZones
<1>4. CASE ZonesRefreshed
  BY <1>1, <1>2, <1>4 DEF ZonesRefreshed, Goes, At, Starting
<1>5. CASE RefreshTouchpad
  <2>1. Starting /\ ~ emu.subscribed /\ emu'.subscribed = emu.subscribed
    BY <1>2, <1>5 DEF RefreshTouchpad, Goes, At, Starting, ScreenShapes
  <2>2. CASE Read(Touchpad)
    BY <1>5, <2>1, <2>2, FieldsAre, ReadKeeps DEF RefreshTouchpad, Touchpad
  <2>3. CASE UNCHANGED <<known, missed>>
    BY <1>1, <1>5, <2>1, <2>3 DEF RefreshTouchpad
  <2> QED BY <1>5, <2>2, <2>3 DEF RefreshTouchpad
<1>6. CASE Subscribe
  <2>1. Starting /\ ~ Starting'
    BY <1>6 DEF Subscribe, Goes, At, Starting, EmuTypes, EmuShaped
  <2> QED BY <1>6, <2>1, StandsStill DEF Subscribe, Following
<1>7. CASE NoMoreKeys
  BY <1>1, <1>2, <1>7 DEF NoMoreKeys, Goes, Starting
<1>8. CASE CallReturns
  <2>1. emu'.subscribed = emu.subscribed /\ ~ Starting'
    BY <1>8 DEF CallReturns, Goes, Starting, EmuTypes, EmuShaped
  <2> QED BY <1>1, <1>8, <2>1 DEF CallReturns
<1>9. CASE Dispatch
  BY <1>9, DispatchKeeps
<1>10. CASE Interrupt \/ InterruptAgain
  <2>1. emu'.subscribed = emu.subscribed /\ (Starting' => Starting)
    BY <1>10 DEF Interrupt, InterruptAgain, Goes, Starting, EmuTypes, EmuShaped
  <2> QED BY <1>1, <1>10, <2>1 DEF Interrupt, InterruptAgain
<1>11. ASSUME NEW o \in Objects, NEW f \in Fields(o), Changes(o, f)
       PROVE  ScreenShapes' /\ Followed'
  BY <1>11, ChangeKeeps
<1>12. CASE Types
  BY <1>1, <1>12 DEF Types, Starting
\* One character is read.
<1> DEFINE Same(to) == to.subscribed = emu.subscribed /\ to.pc \in {"keys", "escape", "sequence", "call", "dispatch"}
<1>13. ASSUME NEW to, EmuShaped(to), Same(to), Takes1(to) PROVE ScreenShapes' /\ Followed'
  <2>1. emu' = [to EXCEPT !.read = emu.read + 1]
    BY <1>13 DEF Takes1
  <2>2. emu'.subscribed = to.subscribed /\ emu'.pc = to.pc
    BY <1>13, <2>1 DEF EmuShaped
  <2>3. ~ Starting' /\ emu'.subscribed = emu.subscribed
    BY <1>13, <2>2 DEF Starting
  <2> QED BY <1>1, <1>13, <2>3 DEF Takes1
<1> DEFINE PcTo(pc) == [emu EXCEPT !.pc = pc]
           Quits == [PcTo("dispatch") EXCEPT !.ret = NORMAL_QUIT]
           Escapes(pc) == [PcTo(pc) EXCEPT !.sequence = <<>>]
           Longer(sequence) == [emu EXCEPT !.sequence = sequence]
<1>p. ASSUME NEW pc PROVE EmuShaped(PcTo(pc)) /\ PcTo(pc).subscribed = emu.subscribed /\ PcTo(pc).pc = pc
  BY DEF EmuTypes, EmuShaped
<1>l. ASSUME NEW e, EmuShaped(e), NEW sequence
      PROVE  LET to == [e EXCEPT !.sequence = sequence]
             IN EmuShaped(to) /\ to.subscribed = e.subscribed /\ to.pc = e.pc
  BY <1>l DEF EmuShaped
<1>r. ASSUME NEW e, EmuShaped(e), NEW ret \in {0, NORMAL_QUIT, TIMEOUT}
      PROVE  LET to == [e EXCEPT !.ret = ret]
             IN EmuShaped(to) /\ to.subscribed = e.subscribed /\ to.pc = e.pc
  BY <1>r DEF EmuShaped
<1>14. CASE ReadKey
  <2>1. /\ Takes1(emu) \/ Takes1(PcTo("call")) \/ Takes1(PcTo("escape")) \/ Takes1(Quits)
        /\ emu.pc = "keys"
    BY <1>14 DEF ReadKey, Presses, At
  <2>2. EmuShaped(emu) /\ Same(emu)
    BY <2>1 DEF EmuTypes
  <2>3. EmuShaped(PcTo("call")) /\ Same(PcTo("call")) /\ EmuShaped(PcTo("escape")) /\ Same(PcTo("escape"))
    <3> HIDE DEF PcTo
    <3> QED BY <1>p
  <2>4. EmuShaped(Quits) /\ Same(Quits)
    <3>1. EmuShaped(PcTo("dispatch")) /\ PcTo("dispatch").subscribed = emu.subscribed
          /\ PcTo("dispatch").pc = "dispatch"
      BY <1>p
    <3> HIDE DEF PcTo
    <3> QED BY <1>r, <3>1
  <2> HIDE DEF Same, PcTo, Quits
  <2> QED BY <1>13, <2>1, <2>2, <2>3, <2>4
<1>15. CASE ReadEscape
  <2>1. Takes1(Escapes("sequence")) \/ Takes1(Escapes("keys"))
    BY <1>15 DEF ReadEscape
  <2>2. ASSUME NEW pc \in {"sequence", "keys"} PROVE EmuShaped(Escapes(pc)) /\ Same(Escapes(pc))
    <3>1. EmuShaped(PcTo(pc)) /\ PcTo(pc).subscribed = emu.subscribed /\ PcTo(pc).pc = pc
      BY <1>p
    <3> HIDE DEF PcTo
    <3> QED BY <1>l, <3>1
  <2> HIDE DEF Same, Escapes
  <2> QED BY <1>13, <2>1, <2>2
<1>16. CASE ReadSequence
  <2>1. /\ Takes1(Longer(Append(emu.sequence, Next1))) \/ Takes1(PcTo("keys")) \/ Takes1(PcTo("call"))
        /\ emu.pc = "sequence"
    BY <1>16 DEF ReadSequence, Presses, At
  <2>2. EmuShaped(PcTo("keys")) /\ Same(PcTo("keys")) /\ EmuShaped(PcTo("call")) /\ Same(PcTo("call"))
    <3> HIDE DEF PcTo
    <3> QED BY <1>p
  <2>3. ASSUME NEW sequence PROVE EmuShaped(Longer(sequence)) /\ Same(Longer(sequence))
    BY <1>l, <2>1 DEF EmuTypes
  <2> HIDE DEF Same, PcTo, Longer
  <2> QED BY <1>13, <2>1, <2>2, <2>3
<1> QED BY <1>3, <1>4, <1>5, <1>6, <1>7, <1>8, <1>9, <1>10, <1>11, <1>12, <1>14, <1>15, <1>16
     DEF EmuNext, EmuStep

\* Zone 0 is never read, and never announced to be of another partition.
LEMMA ZeroUnknown ==
  ASSUME EmuTypes, ScreenShapes, Unknown, EmuNext
  PROVE  Unknown'
<1> SUFFICES ASSUME 0 \in EmuZones, known[0]["partitionId"] = 0, <<0, "partitionId">> \in missed
             PROVE  known'[0]["partitionId"] = 0 /\ <<0, "partitionId">> \in missed'
  BY DEF Unknown
<1>1. CASE UNCHANGED <<known, missed>>
  BY <1>1
<1>2. 0 \in Objects /\ "partitionId" \in AllFields(0)
  BY DEF Objects, AllFields, Touchpad
<1>3. ASSUME NEW o \in Objects \ {0}, Read(o) PROVE Unknown'
  <2>1. DOMAIN image[o] = AllFields(o)
    BY DEF ScreenShapes, Shaped
  <2>2. known' = [q \in Objects |-> [f \in AllFields(q) |->
                    IF q = o /\ o # 0 /\ f \in DOMAIN image[o] THEN image[o][f] ELSE known[q][f]]]
    BY <1>3, <2>1, UpdatedFields DEF Read, ScreenShapes
  <2>3. known'[0]["partitionId"] = known[0]["partitionId"]
    BY <1>2, <2>2
  <2>4. <<0, "partitionId">> \in missed'
    BY <1>3 DEF Read
  <2> QED BY <2>3, <2>4 DEF Unknown
<1>4. CASE RefreshZones
  <2>1. emu.todo \in Nat \ {0}
    BY DEF EmuTypes, EmuShaped
  <2>2. NextZone \in EmuZones /\ NextZone \in 1 .. LastZone
    BY <1>4, <2>1, NextZoneIs DEF RefreshZones
  <2>3. CASE Read(NextZone)
    <3> HIDE DEF NextZone
    <3>1. NextZone \in Objects \ {0}
      BY <2>2 DEF Objects, LastZone
    <3> QED BY <1>3, <2>3, <3>1 DEF Unknown
  <2> QED BY <1>1, <1>4, <2>3 DEF RefreshZones
<1>5. CASE RefreshTouchpad
  <2>1. Touchpad \in Objects \ {0}
    BY DEF Objects, Touchpad
  <2>2. CASE Read(Touchpad)
    BY <1>3, <2>1, <2>2 DEF Unknown
  <2> QED BY <1>1, <1>5, <2>2 DEF RefreshTouchpad
<1>6. CASE Dispatch
  <2>1. CASE inbox # <<>>
    <3> DEFINE first == Head(inbox)
    <3>1. known' = Updated(first.object, first.dict) /\ missed' = missed
      BY <1>6, <2>1 DEF Dispatch
    <3>2. first \in Signals
      BY <2>1 DEF ScreenShapes
    <3> HIDE DEF first
    <3>3. PICK o \in Objects : \E f \in Fields(o) :
             /\ first.object = o /\ DOMAIN first.dict = {f} /\ first.dict[f] \in {0, 1}
      BY <3>2, SignalParts
    <3>4. DOMAIN first.dict \subseteq AllFields(o) /\ first.object = o
      BY <3>3, FieldsAre
    <3>5. known' = [q \in Objects |-> [g \in AllFields(q) |->
                     IF q = o /\ o # 0 /\ g \in DOMAIN first.dict THEN first.dict[g] ELSE known[q][g]]]
      <4>1. Shaped(known) /\ known' = Updated(o, first.dict)
        BY <3>1, <3>4 DEF ScreenShapes
      <4> QED BY <3>4, <4>1, UpdatedFields
    <3>6. known'[0]["partitionId"] = known[0]["partitionId"]
      BY <1>2, <3>5
    <3> QED BY <3>1, <3>6
  <2> QED BY <1>1, <1>6, <2>1 DEF Dispatch
<1>7. ASSUME NEW o \in Objects, NEW f \in Fields(o), Changes(o, f) PROVE Unknown'
  <2>1. f # "partitionId"
    BY FieldsAre
  <2>2. known' = known /\ (missed' = missed \union {<<o, f>>} \/ missed' = missed \ {<<o, f>>})
    BY <1>7 DEF Changes, Announced, Unannounced
  <2> QED BY <2>1, <2>2 DEF Unknown
<1>8. CASE \/ ZonesRefreshed \/ Subscribe \/ NoMoreKeys \/ ReadKey \/ ReadEscape \/ ReadSequence
           \/ CallReturns \/ Interrupt \/ InterruptAgain \/ Types
  <2>1. UNCHANGED <<known, missed>>
    BY <1>8 DEF ZonesRefreshed, Subscribe, NoMoreKeys, ReadKey, ReadEscape, ReadSequence, CallReturns,
       Interrupt, InterruptAgain, Types, Presses, Takes1
  <2> QED BY <1>1, <2>1
<1> QED BY <1>4, <1>5, <1>6, <1>7, <1>8 DEF EmuNext, EmuStep, Unknown

\* All of it together.
ScreenInv == ToolInv /\ ScreenShapes /\ Followed /\ Unknown /\ StartedOnce

\* Every step of the tool keeps it.
LEMMA ScreenHolds == Spec => []ScreenInv
<1>1. Init => ScreenInv
  <2> SUFFICES ASSUME Init PROVE ScreenInv
    OBVIOUS
  <2>1. /\ image = [o \in Objects |-> [f \in AllFields(o) |-> IF f = "partitionId" THEN ZonesOf[o] ELSE 0]]
        /\ known = [o \in Objects |-> [f \in AllFields(o) |-> 0]]
        /\ inbox = <<>> /\ emu.pc = "off" /\ ~ emu.subscribed
        /\ missed = UNION {{o} \X AllFields(o) : o \in Objects}
    BY DEF Init, EmuInit
  <2>2. \A o \in Objects : \A f \in Fields(o) : f \in AllFields(o) /\ f # "partitionId"
    BY DEF Fields, AllFields
  <2>3. ScreenShapes
    BY <2>1, <2>2 DEF ScreenShapes, Shaped
  <2>4. \A o \in Objects : \A f \in AllFields(o) : <<o, f>> \in missed
    BY <2>1
  <2>5. Unknown
    BY <2>1, <2>4 DEF Unknown, Objects, AllFields, Touchpad
  <2> QED BY <2>1, <2>3, <2>4, <2>5, ToolInitial DEF ScreenInv, Followed, StartedOnce
<1>2. ScreenInv /\ [Next]_vars => ScreenInv'
  <2> SUFFICES ASSUME ScreenInv, [Next]_vars PROVE ScreenInv'
    OBVIOUS
  <2>1. ToolInv'
    BY ToolKeeps DEF ScreenInv
  <2>2. CASE UNCHANGED emuVars /\ (tool'.pc \in {"keypad", "ended", "died"} \/ tool.pc \notin {"keypad", "ended", "died"})
    <3>1. /\ emu' = emu /\ image' = image /\ known' = known /\ inbox' = inbox /\ missed' = missed
      BY <2>2 DEF emuVars
    <3>2. (Starting' <=> Starting) /\ (Starting => ~ emu.subscribed)
      BY <3>1 DEF Starting, ScreenInv, ScreenShapes
    <3>3. ScreenShapes' /\ Followed'
      BY <3>1, <3>2, StandsStill DEF ScreenInv, Starting, Following, ScreenShapes
    <3>4. StartedOnce' /\ Unknown'
      BY <2>2, <3>1 DEF ScreenInv, StartedOnce, Unknown
    <3> QED BY <2>1, <3>3, <3>4 DEF ScreenInv
  <2>3. CASE ExecuteKeypad
    <3>1. /\ emu' = [emu EXCEPT !.pc = "zones"] /\ image' = image /\ known' = known /\ inbox' = inbox
          /\ missed' = missed /\ tool' = [tool EXCEPT !.pc = "keypad"] /\ tool.pc = "execute"
      BY <2>3 DEF ExecuteKeypad, Is
    <3>2. emu.pc = "off"
      BY <3>1 DEF ScreenInv, StartedOnce
    <3>3. emu'.pc = "zones" /\ emu'.subscribed = emu.subscribed /\ ~ emu.subscribed
      BY <3>1, <3>2 DEF ScreenInv, ScreenShapes, Starting, ToolInv, EmuTypes, EmuShaped
    <3>4. ScreenShapes' /\ Followed'
      BY <3>1, <3>2, <3>3, StandsStill DEF ScreenInv, Starting, Following
    <3>5. tool'.pc = "keypad"
      BY <3>1 DEF ScreenInv, ToolInv, ToolTypes
    <3>6. Unknown'
      BY <3>1 DEF ScreenInv, Unknown
    <3> QED BY <2>1, <3>4, <3>5, <3>6 DEF ScreenInv, StartedOnce
  <2>4. CASE Is("keypad") /\ EmuNext /\ UNCHANGED <<tool, done, run>>
    <3>1. ScreenShapes' /\ Followed'
      BY <2>4, KeypadFollows DEF ScreenInv, ToolInv
    <3>3. Unknown'
      BY <2>4, ZeroUnknown DEF ScreenInv, ToolInv
    <3>2. tool'.pc = "keypad"
      BY <2>4 DEF Is
    <3> QED BY <2>1, <3>1, <3>2, <3>3 DEF ScreenInv, StartedOnce
  <2>5. CASE KeypadReturns
    <3>1. tool.pc = "keypad" /\ UNCHANGED emuVars
      BY <2>5 DEF KeypadReturns, Moves, Is
    <3>2. run.command # <<>>
      <4>1. Ran /\ Current.name = "keypad"
        BY <3>1 DEF ScreenInv, ToolInv, Running, Is
      <4> QED BY <4>1, RanCommand DEF ScreenInv, ToolInv
    <3>3. tool' = Returned(emu.ret) \/ tool' = [tool EXCEPT !.pc = "died"]
      BY <2>5 DEF KeypadReturns, Moves
    <3>4. tool'.pc \in {"ended", "died"}
      BY <3>2, <3>3 DEF Returned, ScreenInv, ToolInv, ToolTypes
    <3> QED BY <2>2, <3>1, <3>4
  <2>6. CASE UNCHANGED vars
    BY <2>2, <2>6 DEF vars
  <2>7. CASE \/ ParseOptions \/ ConnectToBus \/ ChooseCommands \/ NextLine
             \/ ExecuteAtOnce \/ ExecuteCall \/ ExecuteEach
             \/ StatusAnswered \/ InfoAnswered \/ CallUnanswered
             \/ EachAnswered \/ EachDone \/ ExecuteLog \/ LogReturns \/ LogInterrupted \/ KeypadHelp
    <3>1. UNCHANGED emuVars
      BY <2>7 DEF ParseOptions, ConnectToBus, ChooseCommands, NextLine, ExecuteAtOnce, ExecuteCall,
         ExecuteEach, StatusAnswered, InfoAnswered, CallUnanswered, EachAnswered, EachDone, ExecuteLog,
         LogReturns, LogInterrupted, KeypadHelp, Moves
    <3>2. tool.pc \notin {"keypad", "ended", "died"}
      BY <2>7 DEF ParseOptions, ConnectToBus, ChooseCommands, NextLine, ExecuteAtOnce, ExecuteCall,
         ExecuteEach, StatusAnswered, InfoAnswered, CallUnanswered, EachAnswered, EachDone, ExecuteLog,
         LogReturns, LogInterrupted, KeypadHelp, Is
    <3> QED BY <2>2, <3>1, <3>2
  <2> QED BY <2>3, <2>4, <2>5, <2>6, <2>7 DEF Next, ToolNext
<1> QED BY <1>1, <1>2, PTL DEF Spec

\* Whatever changes when, and whatever a call blocks on: with no signal waiting
\* the screen shows what the daemon has, but for what was not read, changed between
\* the reading and the subscription, or was changed and not announced.
THEOREM ScreenFollows == Spec => []ScreenCurrent
<1>1. ScreenInv => ScreenCurrent
  <2> DEFINE has == [o \in Objects |-> [f \in AllFields(o) |->
                      IF <<o, f>> \in missed THEN known[o][f] ELSE image[o][f]]]
  <2> SUFFICES ASSUME ScreenInv, emu.subscribed, inbox = <<>>
               PROVE  Screen(known) = Screen(has)
    BY DEF ScreenCurrent
  <2>1. ASSUME NEW o \in Objects \ {0}, NEW f \in AllFields(o), <<o, f>> \notin missed
        PROVE  known[o][f] = image[o][f]
    <3>1. UpToDate(o, f)
      BY <2>1 DEF ScreenInv, Followed, Following
    <3>2. DOMAIN inbox = {}
      OBVIOUS
    <3> QED BY <3>1, <3>2 DEF UpToDate
  <2>2. \A o \in Objects : known[o] = [f \in AllFields(o) |-> known[o][f]]
    BY DEF ScreenInv, ScreenShapes, Shaped
  <2>3. ASSUME NEW o \in Objects \ {0} PROVE has[o] = known[o]
    <3>1. has[o] = [f \in AllFields(o) |-> IF <<o, f>> \in missed THEN known[o][f] ELSE image[o][f]]
      OBVIOUS
    <3>2. has[o] = [f \in AllFields(o) |-> known[o][f]]
      <4> HIDE DEF has
      <4> QED BY <2>1, <3>1
    <3> HIDE DEF has
    <3> QED BY <2>2, <3>2
  <2>4. 0 \in EmuZones => has[0].partitionId # gPartitionIndex /\ known[0].partitionId # gPartitionIndex
    <3>1. 0 \in EmuZones => 0 \in Objects /\ "partitionId" \in AllFields(0)
      BY DEF Objects, AllFields, Touchpad
    <3>2. 0 \in EmuZones => has[0]["partitionId"] = known[0]["partitionId"]
      BY <3>1 DEF ScreenInv, Unknown
    <3> HIDE DEF has
    <3> QED BY <3>2 DEF ScreenInv, Unknown, gPartitionIndex
  <2>5. Touchpad \in Objects \ {0} /\ EmuZones \subseteq Objects
    BY DEF Objects, Touchpad
  <2> HIDE DEF has
  <2> DEFINE Bad(objects) == {z \in EmuZones : /\ objects[z].partitionId = gPartitionIndex
                                               /\ \E f \in Fields(z) : objects[z][f] # 0}
  <2>6. ASSUME NEW z \in EmuZones
        PROVE  /\ z \in Bad(known) <=> z \in Bad(has)
               /\ z \in Bad(known) => known[z] = has[z]
    <3>1. CASE z = 0
      BY <2>4, <3>1
    <3>2. CASE z # 0
      BY <2>3, <2>5, <3>2
    <3> QED BY <3>1, <3>2
  <2>7. Bad(known) = Bad(has) /\ Bad(known) \subseteq EmuZones
    BY <2>6
  <2>8. Screen(known) = [text |-> known[Touchpad].text, zones |-> {<<z, known[z]>> : z \in Bad(known)}]
        /\ Screen(has) = [text |-> has[Touchpad].text, zones |-> {<<z, has[z]>> : z \in Bad(has)}]
    BY DEF Screen
  <2>9. \A z \in Bad(known) : known[z] = has[z]
    BY <2>6, <2>7
  <2> HIDE DEF Bad
  <2>10. {<<z, known[z]>> : z \in Bad(known)} = {<<z, has[z]>> : z \in Bad(has)}
    BY <2>7, <2>9
  <2>11. known[Touchpad] = has[Touchpad]
    BY <2>3, <2>5
  <2> QED BY <2>8, <2>10, <2>11
<1> QED BY <1>1, ScreenHolds, PTL

-----------------------------------------------------------------------------
(* The keys that are sent.                                                 *)

Characters == {"1", "x", "Enter", "q", "Esc", "[", "A", "B", "C", "5"}
Keys == Characters \union {"#", "[2C]", "[30]"}

\* What holds of a number when it holds of all smaller ones holds of all.
LEMMA Induction ==
  ASSUME NEW S, \A n \in Nat : (\A m \in 0 .. n - 1 : m \in S) => n \in S
  PROVE  \A n \in Nat : n \in S
<1>1. SUFFICES ASSUME Nat \ S # {} PROVE FALSE
  OBVIOUS
<1>2. PICK n \in Nat \ S : \A m \in Nat \ S : n <= m
  BY <1>1, Smallest
<1>3. \A m \in 0 .. n - 1 : m \in S
  BY <1>2
<1> QED BY <1>2, <1>3

\* What comes first of some places in a text is one of them.
LEMMA FirstIs ==
  ASSUME NEW ends \in SUBSET Nat, ends # {}
  PROVE  First(ends) \in ends /\ \A j \in ends : First(ends) <= j
<1>1. \E j \in ends : \A k \in ends : j <= k
  BY Smallest
<1> QED BY <1>1 DEF First

\* The keys from a place on depend on those from later places only.
LEMMA KeysLocal ==
  ASSUME NEW text \in Seq(Characters), NEW g, NEW h, NEW i \in 1 .. Len(text) + 1,
         \A j \in i + 1 .. Len(text) + 1 : g[j] = h[j]
  PROVE  KeysAt(text, g, i) = KeysAt(text, h, i)
<1>1. Len(text) \in Nat
  OBVIOUS
<1>2. CASE i > Len(text)
  BY <1>2 DEF KeysAt
<1>3. CASE i = Len(text)
  <2>1. g[i + 1] = h[i + 1]
    BY <1>1, <1>3
  <2> QED BY <1>1, <1>3, <2>1 DEF KeysAt
<1>4. CASE i < Len(text)
  <2>1. g[i + 1] = h[i + 1] /\ g[i + 2] = h[i + 2]
    BY <1>1, <1>4
  <2>2. Ends(text, i) # {} => g[First(Ends(text, i)) + 1] = h[First(Ends(text, i)) + 1]
    <3> SUFFICES ASSUME Ends(text, i) # {}
                 PROVE  g[First(Ends(text, i)) + 1] = h[First(Ends(text, i)) + 1]
      OBVIOUS
    <3>1. Ends(text, i) \subseteq i + 2 .. Len(text) /\ Ends(text, i) \in SUBSET Nat
      BY <1>1 DEF Ends
    <3>2. First(Ends(text, i)) \in i + 2 .. Len(text)
      BY <3>1, FirstIs
    <3> QED BY <1>1, <3>2
  <2> QED BY <2>1, <2>2 DEF KeysAt
<1> QED BY <1>1, <1>2, <1>3, <1>4

\* The keys of a text are defined: from its end backwards there are some for each
\* place.
LEMMA KeysDefined ==
  ASSUME NEW text \in Seq(Characters)
  PROVE  KeysFrom(text) = [i \in 1 .. Len(text) + 1 |-> KeysAt(text, KeysFrom(text), i)]
<1> DEFINE End == Len(text) + 1
           Back(n, g) == /\ DOMAIN g = 1 .. End /\ g = [i \in 1 .. End |-> g[i]]
                         /\ \A i \in 1 .. End : i >= End - n => g[i] = KeysAt(text, g, i)
           Done == {n \in Nat : \E g : Back(n, g)}
<1>1. Len(text) \in Nat /\ End \in Nat
  OBVIOUS
<1>2. ASSUME NEW n \in Nat, \A m \in 0 .. n - 1 : m \in Done PROVE n \in Done
  <2>1. CASE n = 0
    <3> DEFINE g == [i \in 1 .. End |-> <<>>]
    <3>1. g[End] = KeysAt(text, g, End)
      <4>1. g[End] = <<>>
        BY <1>1
      <4>2. End > Len(text)
        BY <1>1
      <4> HIDE DEF g, End
      <4>3. KeysAt(text, g, End) = <<>>
        BY <4>2 DEF KeysAt
      <4> QED BY <4>1, <4>3
    <3>2. Back(0, g)
      <4>1. \A i \in 1 .. End : i >= End - 0 => i = End
        BY <1>1
      <4>2. DOMAIN g = 1 .. End /\ g = [i \in 1 .. End |-> g[i]]
        OBVIOUS
      <4> HIDE DEF g
      <4> QED BY <3>1, <4>1, <4>2
    <3> HIDE DEF g, Back
    <3> QED BY <2>1, <3>2
  <2>2. CASE n # 0
    <3>1. n - 1 \in Done
      BY <1>2, <2>2
    <3>2. PICK g : Back(n - 1, g)
      BY <3>1
    <3> DEFINE at == End - n
               h == [i \in 1 .. End |-> IF i = at THEN KeysAt(text, g, i) ELSE g[i]]
    <3>3. ASSUME NEW i \in 1 .. End, i >= at PROVE h[i] = KeysAt(text, h, i)
      <4>1. \A j \in i + 1 .. End : h[j] = g[j]
        BY <1>1, <3>3
      <4>2. h[i] = KeysAt(text, g, i)
        <5>1. CASE i = at
          BY <5>1
        <5>2. CASE i # at
          <6>1. i >= End - (n - 1)
            BY <1>1, <3>3, <5>2
          <6>2. h[i] = g[i]
            BY <5>2
          <6> HIDE DEF h
          <6> QED BY <3>2, <6>1, <6>2
        <5> QED BY <5>1, <5>2
      <4> HIDE DEF h
      <4>3. KeysAt(text, h, i) = KeysAt(text, g, i)
        BY <4>1, KeysLocal
      <4> QED BY <4>2, <4>3
    <3>4. DOMAIN h = 1 .. End /\ h = [i \in 1 .. End |-> h[i]]
      OBVIOUS
    <3> HIDE DEF h
    <3>5. Back(n, h)
      BY <3>3, <3>4
    <3> HIDE DEF Back
    <3> QED BY <3>5
  <2> QED BY <2>1, <2>2
<1> HIDE DEF Done
<1>3. End \in Done
  BY <1>1, <1>2, Induction
<1>4. PICK g : Back(End, g)
  BY <1>3 DEF Done
<1>5. \A i \in 1 .. End : g[i] = KeysAt(text, g, i)
  BY <1>1, <1>4
<1>6. g = [i \in 1 .. End |-> g[i]]
  BY <1>4
<1> HIDE DEF Back
<1>7. g = [i \in 1 .. End |-> KeysAt(text, g, i)]
  BY <1>5, <1>6
<1> QED BY <1>7 DEF KeysFrom

\* What a character or an arrow stands for.
LEMMA KeyTypes ==
  ASSUME NEW c \in Characters
  PROVE  Key(c) \in Seq(Keys) /\ ArrowKey(c) \in Seq(Keys) /\ KeyFor(c) \in Keys
<1>1. KeyFor(c) \in Keys
  BY DEF KeyFor, Keys, Characters
<1>2. Key(c) \in Seq(Keys)
  BY <1>1 DEF Key
<1>3. "[30]" \in Keys /\ "[2C]" \in Keys
  BY DEF Keys
<1>4. ArrowKey(c) \in {<<"[30]">>, <<"[2C]">>, <<>>}
  BY DEF ArrowKey
<1>5. <<"[30]">> \in Seq(Keys) /\ <<"[2C]">> \in Seq(Keys) /\ <<>> \in Seq(Keys)
  BY <1>3
<1>6. ArrowKey(c) \in Seq(Keys)
  BY <1>4, <1>5
<1> QED BY <1>1, <1>2, <1>6

\* The cases of the grammar: a key,
LEMMA KeysOfKey ==
  ASSUME NEW text, NEW g, NEW i, ~ (i > Len(text)), text[i] # "Esc"
  PROVE  KeysAt(text, g, i) = Key(text[i]) \o g[i + 1]
BY Zenon DEF KeysAt

\* an unfinished sequence, or the end,
LEMMA KeysOfNone ==
  ASSUME NEW text, NEW g, NEW i,
         \/ i > Len(text)
         \/ text[i] = "Esc" /\ i = Len(text)
         \/ text[i] = "Esc" /\ text[i + 1] = "[" /\ Ends(text, i) = {}
  PROVE  KeysAt(text, g, i) = <<>>
BY Zenon DEF KeysAt

\* a character that is swallowed,
LEMMA KeysOfSwallowed ==
  ASSUME NEW text, NEW g, NEW i, ~ (i > Len(text)), i # Len(text), text[i] = "Esc", text[i + 1] # "["
  PROVE  KeysAt(text, g, i) = g[i + 2]
BY Zenon DEF KeysAt

\* and a sequence.
LEMMA KeysOfSequence ==
  ASSUME NEW text, NEW g, NEW i, ~ (i > Len(text)), i # Len(text), text[i] = "Esc", text[i + 1] = "[",
         Ends(text, i) # {}
  PROVE  KeysAt(text, g, i)
           = (IF First(Ends(text, i)) = i + 2 THEN ArrowKey(text[First(Ends(text, i))]) ELSE <<>>)
             \o g[First(Ends(text, i)) + 1]
BY Zenon DEF KeysAt

\* From each place on there is a sequence of keys.
LEMMA KeysType ==
  ASSUME NEW text \in Seq(Characters)
  PROVE  \A i \in 1 .. Len(text) + 1 : KeysFrom(text)[i] \in Seq(Keys)
<1> DEFINE End == Len(text) + 1
           keys == KeysFrom(text)
           Done == {n \in Nat : \A i \in 1 .. End : i = End - n => keys[i] \in Seq(Keys)}
<1>1. Len(text) \in Nat /\ End \in Nat
  OBVIOUS
<1>2. \A i \in 1 .. End : keys[i] = KeysAt(text, keys, i)
  <2>1. keys = [i \in 1 .. End |-> KeysAt(text, keys, i)]
    BY KeysDefined
  <2> HIDE DEF keys, End
  <2> QED BY <2>1
<1> HIDE DEF keys
<1>3. ASSUME NEW n \in Nat, \A m \in 0 .. n - 1 : m \in Done PROVE n \in Done
  <2>1. SUFFICES ASSUME NEW i \in 1 .. End, i = End - n PROVE keys[i] \in Seq(Keys)
    OBVIOUS
  <2>2. ASSUME NEW j \in i + 1 .. End PROVE keys[j] \in Seq(Keys)
    <3>1. End - j \in 0 .. n - 1 /\ j = End - (End - j) /\ j \in 1 .. End
      BY <1>1, <2>1
    <3> HIDE DEF End
    <3>2. End - j \in Done
      BY <1>3, <3>1
    <3> QED BY <3>1, <3>2
  <2>3. CASE i > Len(text)
    <3>1. keys[i] = <<>>
      BY <1>2, <2>3 DEF KeysAt
    <3> QED BY <3>1
  <2>4. CASE i <= Len(text) /\ text[i] # "Esc"
    <3>1. keys[i] = Key(text[i]) \o keys[i + 1]
      <4>1. ~ (i > Len(text))
        BY <1>1, <2>4
      <4>2. KeysAt(text, keys, i) = Key(text[i]) \o keys[i + 1]
        BY <2>4, <4>1, KeysOfKey
      <4> QED BY <1>2, <4>2
    <3>2. keys[i + 1] \in Seq(Keys) /\ text[i] \in Characters
      BY <1>1, <2>2, <2>4
    <3>3. Key(text[i]) \in Seq(Keys)
      BY <3>2, KeyTypes
    <3> QED BY <3>1, <3>2, <3>3, ConcatProperties
  <2>5. CASE i = Len(text) /\ text[i] = "Esc"
    <3>1. keys[i] = <<>>
      BY <1>1, <1>2, <2>5 DEF KeysAt
    <3> QED BY <3>1
  <2>6. CASE i < Len(text) /\ text[i] = "Esc" /\ text[i + 1] # "["
    <3>1. keys[i] = keys[i + 2]
      BY <1>1, <1>2, <2>6 DEF KeysAt
    <3> QED BY <1>1, <2>2, <2>6, <3>1
  <2>7. CASE i < Len(text) /\ text[i] = "Esc" /\ text[i + 1] = "[" /\ Ends(text, i) = {}
    <3>1. keys[i] = <<>>
      BY <1>1, <1>2, <2>7 DEF KeysAt
    <3> QED BY <3>1
  <2>8. CASE i < Len(text) /\ text[i] = "Esc" /\ text[i + 1] = "[" /\ Ends(text, i) # {}
    <3> DEFINE end == First(Ends(text, i))
               arrow == IF end = i + 2 THEN ArrowKey(text[end]) ELSE <<>>
    <3>1. Ends(text, i) \subseteq i + 2 .. Len(text) /\ Ends(text, i) \in SUBSET Nat
      BY <1>1 DEF Ends
    <3>2. end \in i + 2 .. Len(text)
      BY <2>8, <3>1, FirstIs
    <3>3. keys[i] = arrow \o keys[end + 1]
      <4>1. ~ (i > Len(text)) /\ i # Len(text)
        BY <1>1, <2>8
      <4>2. keys[i] = KeysAt(text, keys, i)
        BY <1>2
      <4>3. KeysAt(text, keys, i) = arrow \o keys[end + 1]
        BY <2>8, <4>1, KeysOfSequence
      <4> QED BY <4>2, <4>3
    <3> HIDE DEF end
    <3>4. end + 1 \in i + 1 .. End /\ text[end] \in Characters
      BY <1>1, <3>2
    <3>5. ArrowKey(text[end]) \in Seq(Keys)
      BY <3>4, KeyTypes
    <3>6. arrow \in Seq(Keys)
      BY <3>5
    <3> HIDE DEF arrow
    <3>7. keys[end + 1] \in Seq(Keys)
      BY <2>2, <3>4
    <3> QED BY <3>3, <3>6, <3>7, ConcatProperties
  <2> QED BY <1>1, <2>3, <2>4, <2>5, <2>6, <2>7, <2>8
<1> HIDE DEF Done
<1>4. ASSUME NEW i \in 1 .. End PROVE keys[i] \in Seq(Keys)
  <2>1. End - i \in Nat /\ i = End - (End - i)
    BY <1>1
  <2>2. End - i \in Done
    BY <1>3, <2>1, Induction
  <2> QED BY <2>1, <2>2 DEF Done
<1> QED BY <1>4 DEF keys

Prefix(m) == SubSeq(typed.text, 1, m)

\* Where what has been read but not yet dealt with begins: the character before.
Begin ==
  CASE emu.pc = "escape" -> emu.read - 1
    [] emu.pc = "sequence" -> emu.read - 2 - Len(emu.sequence)
    [] OTHER -> emu.read

\* However much will have been typed, the keys are those that were sent and those
\* from where the program is.
Sound ==
  emu.pc \notin {"ended", "died"} =>
    \A m \in emu.read .. Len(typed.text) : KeysIn(Prefix(m)) = sent \o KeysFrom(Prefix(m))[Begin + 1]

\* What is being dealt with is the beginning of a sequence.
Sequence ==
  /\ emu.pc = "escape" => emu.read >= 1 /\ typed.text[emu.read] = "Esc"
  /\ emu.pc = "sequence" =>
       /\ Begin >= 0 /\ typed.text[Begin + 1] = "Esc" /\ typed.text[Begin + 2] = "["
       /\ emu.sequence \in Seq(Characters)
       /\ \A i \in 1 .. Len(emu.sequence) :
            emu.sequence[i] = typed.text[Begin + 2 + i] /\ ~ EndsSequence(emu.sequence[i])

TypedTypes ==
  /\ typed = [text |-> typed.text, count |-> typed.count] /\ typed.text \in TypedPlans
  /\ typed.count \in 0 .. Len(typed.text) /\ emu.read \in 0 .. typed.count
  /\ sent \in Seq(Keys)

KeyInv == TypedTypes /\ Sequence /\ Sound /\ KeysInOrder

\* What is typed, and the beginnings of it.
LEMMA PrefixIs ==
  ASSUME TypedTypes, NEW m \in 0 .. Len(typed.text)
  PROVE  /\ typed.text \in Seq(Characters) /\ Len(typed.text) \in Nat
         /\ Prefix(m) \in Seq(Characters) /\ Len(Prefix(m)) = m
         /\ \A i \in 1 .. m : Prefix(m)[i] = typed.text[i]
<1>1. typed.text \in Seq(Characters)
  BY EmulatorAssumption DEF TypedTypes, Characters
<1>2. Len(typed.text) \in Nat
  BY <1>1
<1>3. 1 \in Nat /\ m \in Nat /\ m <= Len(typed.text)
  BY <1>2
<1> DEFINE text == typed.text
<1>4. text \in Seq(Characters) /\ Len(text) \in Nat /\ m \in 0 .. Len(text)
  BY <1>1, <1>2
<1> HIDE DEF text
<1>5. /\ SubSeq(text, 1, m) \in Seq(Characters) /\ Len(SubSeq(text, 1, m)) = m
      /\ \A i \in 1 .. m : SubSeq(text, 1, m)[i] = text[i]
  <2>1. 1 \in Int /\ m \in Int /\ \A i \in 1 .. m : text[i] \in Characters
    BY <1>4
  <2>2. /\ SubSeq(text, 1, m) \in Seq(Characters)
        /\ Len(SubSeq(text, 1, m)) = IF 1 <= m THEN m - 1 + 1 ELSE 0
        /\ \A i \in 1 .. m - 1 + 1 : SubSeq(text, 1, m)[i] = text[1 + i - 1]
    BY <2>1, SubSeqProperties
  <2> QED BY <1>4, <2>2
<1> QED BY <1>1, <1>2, <1>5 DEF Prefix, text

\* The keys from a place on in the beginning of what is typed.
LEMMA KeysThere ==
  ASSUME TypedTypes, NEW m \in 0 .. Len(typed.text), NEW i \in 1 .. m + 1
  PROVE  /\ KeysFrom(Prefix(m))[i] = KeysAt(Prefix(m), KeysFrom(Prefix(m)), i)
         /\ KeysFrom(Prefix(m))[i] \in Seq(Keys)
<1>1. Prefix(m) \in Seq(Characters) /\ Len(Prefix(m)) = m
  BY PrefixIs
<1> DEFINE text == Prefix(m)
           keys == KeysFrom(text)
<1>2. keys = [j \in 1 .. Len(text) + 1 |-> KeysAt(text, keys, j)]
  BY <1>1, KeysDefined
<1>3. \A j \in 1 .. Len(text) + 1 : keys[j] \in Seq(Keys)
  BY <1>1, KeysType
<1> HIDE DEF keys, text
<1>4. i \in 1 .. Len(text) + 1
  BY <1>1 DEF text
<1>5. keys[i] = KeysAt(text, keys, i)
  BY <1>2, <1>4
<1> QED BY <1>3, <1>4, <1>5 DEF keys, text

\* Where an unfinished sequence begins: of each kind.
LEMMA BeginIs ==
  /\ emu.pc = "escape" => Begin = emu.read - 1
  /\ emu.pc = "sequence" => Begin = emu.read - 2 - Len(emu.sequence)
  /\ emu.pc \notin {"escape", "sequence"} => Begin = emu.read
BY DEF Begin

\* What has been read but not dealt with is no key yet.
LEMMA NothingMore ==
  TypedTypes /\ Sequence /\ Sound /\ emu.pc \notin {"ended", "died"} => KeysInOrder
<1> SUFFICES ASSUME TypedTypes, Sequence, Sound, emu.pc \notin {"ended", "died"}
             PROVE  KeysInOrder
  OBVIOUS
<1> DEFINE m == emu.read
           text == Prefix(m)
           keys == KeysFrom(text)
<1>1. m \in 0 .. Len(typed.text) /\ Len(typed.text) \in Nat /\ m \in Nat /\ typed.text \in Seq(Characters)
  <2>1. emu.read \in 0 .. typed.count /\ typed.count \in 0 .. Len(typed.text) /\ typed.text \in Seq(Characters)
    BY EmulatorAssumption DEF TypedTypes, Characters
  <2> QED BY <2>1
<1>2. /\ text \in Seq(Characters) /\ Len(text) = m
      /\ \A i \in 1 .. m : text[i] = typed.text[i]
  BY <1>1, PrefixIs
<1>3. Begin + 1 \in 1 .. m + 1 /\ keys[Begin + 1] = <<>>
  <2>1. CASE emu.pc = "escape"
    <3>1. m >= 1 /\ typed.text[m] = "Esc" /\ Begin + 1 = m
      <4>1. m >= 1 /\ typed.text[m] = "Esc"
        BY <2>1 DEF Sequence
      <4> QED BY <1>1, <2>1, <4>1, BeginIs
    <3>2. text[Begin + 1] = "Esc" /\ Begin + 1 = Len(text) /\ Begin + 1 \in 1 .. m + 1
      BY <1>1, <1>2, <3>1
    <3>3. KeysAt(text, keys, Begin + 1) = <<>>
      BY <3>2, KeysOfNone
    <3>4. keys[Begin + 1] = KeysAt(text, keys, Begin + 1)
      BY <1>1, <3>2, KeysThere
    <3> QED BY <3>2, <3>3, <3>4
  <2>2. CASE emu.pc = "sequence"
    <3>1. /\ Begin >= 0 /\ Begin = m - 2 - Len(emu.sequence) /\ emu.sequence \in Seq(Characters)
          /\ typed.text[Begin + 1] = "Esc" /\ typed.text[Begin + 2] = "["
          /\ \A i \in 1 .. Len(emu.sequence) :
               emu.sequence[i] = typed.text[Begin + 2 + i] /\ ~ EndsSequence(emu.sequence[i])
      BY <2>2, BeginIs DEF Sequence
    <3>2. Len(emu.sequence) \in Nat
      BY <3>1
    <3>3. Begin \in Int /\ Begin + 1 \in 1 .. m /\ Begin + 2 \in 1 .. m
      <4> DEFINE n == Len(emu.sequence)
      <4>1. m \in Nat
        BY <1>1
      <4>2. Begin >= 0 /\ Begin = m - 2 - n
        BY <3>1
      <4>3. n \in Nat
        BY <3>2
      <4> HIDE DEF m, n
      <4> QED BY <4>1, <4>2, <4>3
    <3>4. text[Begin + 1] = "Esc" /\ text[Begin + 2] = "["
      BY <1>2, <3>1, <3>3
    <3>5. ASSUME NEW j \in Begin + 1 + 2 .. Len(text) PROVE ~ EndsSequence(text[j])
      <4> DEFINE length == Len(emu.sequence)
      <4>0. /\ j \in Int /\ Begin + 1 + 2 <= j /\ j <= m
            /\ m \in Nat /\ Begin \in Int /\ length \in Nat /\ Begin = m - 2 - length /\ Begin >= 0
        <5>1. Len(text) = m /\ m \in Nat
          BY <1>1, <1>2
        <5>2. j \in Begin + 1 + 2 .. m
          BY <3>5, <5>1
        <5> HIDE DEF m
        <5> QED BY <3>1, <3>2, <3>3, <5>1, <5>2
      <4>1. j \in 1 .. m /\ j - (Begin + 2) \in 1 .. length
        <5> HIDE DEF m, length
        <5> QED BY <4>0
      <4>2. Begin + 2 + (j - (Begin + 2)) = j
        BY <1>1, <3>3
      <4>3. emu.sequence[j - (Begin + 2)] = typed.text[j] /\ ~ EndsSequence(emu.sequence[j - (Begin + 2)])
        BY <3>1, <4>1, <4>2
      <4> QED BY <1>2, <4>1, <4>3
    <3>6. Ends(text, Begin + 1) = {}
      BY <3>5 DEF Ends
    <3>7. text[Begin + 1 + 1] = "[" /\ Begin + 1 \in 1 .. m + 1
      <4>1. Begin + 1 + 1 = Begin + 2
        BY <3>3
      <4> QED BY <1>1, <3>3, <3>4, <4>1
    <3>8. KeysAt(text, keys, Begin + 1) = <<>>
      BY <3>4, <3>6, <3>7, KeysOfNone
    <3>9. keys[Begin + 1] = KeysAt(text, keys, Begin + 1)
      BY <1>1, <3>7, KeysThere
    <3> QED BY <3>7, <3>8, <3>9
  <2>3. CASE emu.pc \notin {"escape", "sequence"}
    <3>1. Begin = m
      BY <2>3, BeginIs
    <3>2. Begin + 1 > Len(text) /\ Begin + 1 \in 1 .. m + 1
      BY <1>1, <1>2, <3>1
    <3>3. KeysAt(text, keys, Begin + 1) = <<>>
      BY <3>2, KeysOfNone
    <3>4. keys[Begin + 1] = KeysAt(text, keys, Begin + 1)
      BY <1>1, <3>2, KeysThere
    <3> QED BY <3>2, <3>3, <3>4
  <2> QED BY <2>1, <2>2, <2>3
<1>4. KeysIn(Prefix(m)) = sent \o keys[Begin + 1]
  <2>1. m \in emu.read .. Len(typed.text)
    BY <1>1
  <2> QED BY <2>1 DEF Sound
<1>5. sent \o <<>> = sent
  <2>1. sent \in Seq(Keys)
    BY DEF TypedTypes
  <2> QED BY <2>1, ConcatEmptySeq
<1> QED BY <1>3, <1>4, <1>5 DEF KeysInOrder, Prefix

\* What one character changes.
LEMMA TakenOne ==
  ASSUME NEW to, EmuShaped(to), Takes1(to)
  PROVE  /\ emu'.pc = to.pc /\ emu'.sequence = to.sequence /\ emu'.read = emu.read + 1
         /\ typed' = typed /\ Waiting
BY DEF Takes1, EmuShaped

\* It is all the same in which order keys are joined.
LEMMA Joined ==
  ASSUME NEW s \in Seq(Keys), NEW t \in Seq(Keys), NEW u \in Seq(Keys)
  PROVE  (s \o t) \o u = s \o (t \o u)
OBVIOUS

\* A character is dealt with, and the keys it completes are sent.
LEMMA ReadsOn ==
  ASSUME TypedTypes, Sound, emu.pc \notin {"ended", "died"}, Waiting, typed' = typed,
         emu'.read = emu.read + 1, NEW keys \in Seq(Keys), sent' = sent \o keys,
         NEW before \in Nat, Begin = before, NEW after \in Nat, Begin' = after,
         before <= emu.read, after <= emu.read + 1,
         \A m \in emu.read + 1 .. Len(typed.text) :
           KeysFrom(Prefix(m))[before + 1] = keys \o KeysFrom(Prefix(m))[after + 1]
  PROVE  TypedTypes' /\ Sound'
<1>1. /\ emu.read \in Nat /\ typed.count \in Nat /\ Len(typed.text) \in Nat
      /\ emu.read <= typed.count /\ typed.count <= Len(typed.text) /\ typed.text \in Seq(Characters)
      /\ sent \in Seq(Keys)
  BY EmulatorAssumption DEF TypedTypes, Characters
<1>2. emu.read + 1 <= typed.count
  BY <1>1 DEF Waiting
<1>3. sent' \in Seq(Keys)
  BY <1>1, ConcatProperties
<1>4. TypedTypes'
  <2>1. emu'.read \in 0 .. typed.count
    <3>1. emu.read \in Nat /\ typed.count \in Nat
      BY <1>1
    <3> QED BY <1>2, <3>1
  <2> QED BY <1>3, <2>1 DEF TypedTypes
<1>5. ASSUME NEW m \in emu.read + 1 .. Len(typed.text)
      PROVE  KeysIn(Prefix(m)) = sent' \o KeysFrom(Prefix(m))[after + 1]
  <2>1. m \in emu.read .. Len(typed.text) /\ m \in 0 .. Len(typed.text) /\ after + 1 \in 1 .. m + 1
    BY <1>1
  <2>2. KeysIn(Prefix(m)) = sent \o KeysFrom(Prefix(m))[before + 1]
    BY <2>1 DEF Sound
  <2> DEFINE rest == KeysFrom(Prefix(m))[after + 1]
  <2>3. rest \in Seq(Keys)
    BY <2>1, KeysThere
  <2>4. KeysFrom(Prefix(m))[before + 1] = keys \o rest
    OBVIOUS
  <2> HIDE DEF rest
  <2>5. (sent \o keys) \o rest = sent \o (keys \o rest)
    <3>1. \A s, t, u \in Seq(Keys) : (s \o t) \o u = s \o (t \o u)
      BY Joined
    <3>2. sent \in Seq(Keys) /\ keys \in Seq(Keys)
      BY <1>1
    <3> HIDE DEF Keys
    <3> QED BY Zenon, <2>3, <3>1, <3>2
  <2> QED BY <2>2, <2>4, <2>5 DEF rest
<1>6. Sound'
  <2>1. /\ typed'.text = typed.text /\ emu'.read = emu.read + 1 /\ Begin' = after
    OBVIOUS
  <2>2. \A m : Prefix(m)' = Prefix(m)
    BY DEF Prefix
  <2> QED BY <1>5, <2>1, <2>2 DEF Sound
<1> QED BY <1>4, <1>6

\* What is typed next is in every longer beginning.
LEMMA NextIs ==
  ASSUME TypedTypes, Waiting
  PROVE  /\ emu.read \in Nat /\ Len(typed.text) \in Nat /\ emu.read + 1 \in 1 .. Len(typed.text)
         /\ Next1 \in Characters /\ typed.text \in Seq(Characters)
         /\ \A m \in emu.read + 1 .. Len(typed.text) :
              /\ m \in 0 .. Len(typed.text) /\ m \in Nat /\ m >= emu.read + 1
              /\ Prefix(m) \in Seq(Characters) /\ Len(Prefix(m)) = m /\ Prefix(m)[emu.read + 1] = Next1
<1>1. /\ emu.read \in Nat /\ typed.count \in Nat /\ Len(typed.text) \in Nat
      /\ emu.read <= typed.count /\ typed.count <= Len(typed.text) /\ typed.text \in Seq(Characters)
  BY EmulatorAssumption DEF TypedTypes, Characters
<1>2. emu.read + 1 \in 1 .. Len(typed.text)
  BY <1>1 DEF Waiting
<1>3. Next1 \in Characters
  BY <1>1, <1>2 DEF Next1
<1>4. ASSUME NEW m \in emu.read + 1 .. Len(typed.text)
      PROVE  /\ m \in 0 .. Len(typed.text) /\ m \in Nat /\ m >= emu.read + 1
             /\ Prefix(m) \in Seq(Characters) /\ Len(Prefix(m)) = m /\ Prefix(m)[emu.read + 1] = Next1
  <2>1. m \in 0 .. Len(typed.text) /\ emu.read + 1 \in 1 .. m /\ m \in Nat /\ m >= emu.read + 1
    BY <1>1
  <2>2. Prefix(m) \in Seq(Characters) /\ Len(Prefix(m)) = m /\ \A i \in 1 .. m : Prefix(m)[i] = typed.text[i]
    BY <2>1, PrefixIs
  <2> QED BY <2>1, <2>2 DEF Next1
<1> QED BY <1>1, <1>2, <1>3, <1>4

\* With nothing else to deal with, a key is sent, others are passed over, and an
\* escape sequence begins.
LEMMA ReadKeyKeeps ==
  ASSUME EmuTypes, TypedTypes, Sequence, Sound, ReadKey
  PROVE  TypedTypes' /\ Sequence' /\ Sound' /\ emu'.pc \notin {"ended", "died"}
<1>1. emu.pc = "keys" /\ Waiting /\ EmuShaped(emu)
  BY DEF ReadKey, At, EmuTypes
<1>2. Begin = emu.read
  BY <1>1, BeginIs
<1>3. /\ emu.read \in Nat /\ Len(typed.text) \in Nat /\ emu.read + 1 \in 1 .. Len(typed.text)
      /\ Next1 \in Characters /\ sent \in Seq(Keys)
  BY <1>1, NextIs DEF TypedTypes
<1>4. ASSUME NEW m \in emu.read + 1 .. Len(typed.text), Next1 # "Esc"
      PROVE  KeysFrom(Prefix(m))[emu.read + 1] = Key(Next1) \o KeysFrom(Prefix(m))[emu.read + 1 + 1]
  <2>1. /\ m \in 0 .. Len(typed.text) /\ m \in Nat /\ m >= emu.read + 1
        /\ Len(Prefix(m)) = m /\ Prefix(m)[emu.read + 1] = Next1
    BY <1>1, NextIs
  <2>2. emu.read + 1 \in 1 .. m + 1 /\ ~ (emu.read + 1 > Len(Prefix(m)))
    BY <1>3, <2>1
  <2> DEFINE keys == KeysFrom(Prefix(m))
             i == emu.read + 1
  <2>3. keys[i] = KeysAt(Prefix(m), keys, i)
    BY <2>1, <2>2, KeysThere
  <2>4. KeysAt(Prefix(m), keys, i) = Key(Prefix(m)[i]) \o keys[i + 1]
    BY <1>4, <2>1, <2>2, KeysOfKey
  <2> HIDE DEF keys
  <2> QED BY <2>1, <2>3, <2>4 DEF keys
<1>5. ASSUME Next1 # "Esc", sent' = sent \o Key(Next1), typed' = typed, emu'.read = emu.read + 1,
             emu'.pc \in {"keys", "call", "dispatch"}
      PROVE  TypedTypes' /\ Sequence' /\ Sound' /\ emu'.pc \notin {"ended", "died"}
  <2>1. Begin' = emu.read + 1
    BY <1>5 DEF Begin
  <2>2. Key(Next1) \in Seq(Keys)
    BY <1>3, KeyTypes
  <2>3. TypedTypes' /\ Sound'
    <3>1. emu.read + 1 \in Nat /\ emu.read <= emu.read /\ emu.read + 1 <= emu.read + 1 /\ emu.pc \notin {"ended", "died"}
      BY <1>1, <1>3
    <3> QED BY <1>1, <1>2, <1>3, <1>4, <1>5, <2>1, <2>2, <3>1, ReadsOn
  <2> QED BY <1>5, <2>3 DEF Sequence
<1> DEFINE Calls == [emu EXCEPT !.pc = "call"]
           Escapes == [emu EXCEPT !.pc = "escape"]
           Leaves == [emu EXCEPT !.pc = "dispatch"]
           Quits == [Leaves EXCEPT !.ret = NORMAL_QUIT]
<1>6. /\ EmuShaped(Calls) /\ Calls.pc = "call" /\ EmuShaped(Escapes) /\ Escapes.pc = "escape"
      /\ EmuShaped(Quits) /\ Quits.pc = "dispatch"
  <2>1. EmuShaped(Calls) /\ Calls.pc = "call"
    BY <1>1 DEF EmuShaped
  <2>2. EmuShaped(Escapes) /\ Escapes.pc = "escape"
    BY <1>1 DEF EmuShaped
  <2>3. EmuShaped(Leaves) /\ Leaves.pc = "dispatch"
    BY <1>1 DEF EmuShaped
  <2> HIDE DEF Leaves
  <2>4. EmuShaped(Quits) /\ Quits.pc = "dispatch"
    BY <2>3 DEF EmuShaped
  <2> QED BY <2>1, <2>2, <2>4
<1>7. ReadKey => \/ Next1 \in {"1", "Enter", "A", "B", "C", "5"} /\ Takes1(Calls) /\ sent' = Append(sent, KeyFor(Next1))
                 \/ Next1 \in {"x", "["} /\ Takes1(emu) /\ sent' = sent
                 \/ Next1 = "Esc" /\ Takes1(Escapes) /\ sent' = sent
                 \/ Next1 = "q" /\ Takes1(Quits) /\ sent' = sent
  BY DEF ReadKey, Presses
<1> HIDE DEF Calls, Escapes, Quits
<1>8. CASE Next1 \in {"1", "Enter", "A", "B", "C", "5"} /\ Takes1(Calls) /\ sent' = Append(sent, KeyFor(Next1))
  <2>1. Key(Next1) = <<KeyFor(Next1)>> /\ Next1 # "Esc"
    BY <1>8 DEF Key
  <2>2. sent' = sent \o Key(Next1)
    BY <1>3, <1>8, <2>1, KeyTypes, AppendIsConcat
  <2>3. typed' = typed /\ emu'.read = emu.read + 1 /\ emu'.pc = "call"
    BY <1>6, <1>8, TakenOne
  <2> QED BY <1>5, <2>1, <2>2, <2>3
<1>9. CASE /\ \/ Next1 \in {"x", "["} /\ Takes1(emu)
              \/ Next1 = "q" /\ Takes1(Quits)
           /\ sent' = sent
  <2>1. Key(Next1) = <<>> /\ Next1 # "Esc"
    BY <1>9 DEF Key
  <2>2. sent' = sent \o Key(Next1)
    BY <1>3, <1>9, <2>1, ConcatEmptySeq
  <2>3. typed' = typed /\ emu'.read = emu.read + 1 /\ emu'.pc \in {"keys", "dispatch"}
    BY <1>1, <1>6, <1>9, TakenOne
  <2> QED BY <1>5, <2>1, <2>2, <2>3
<1>10. CASE Next1 = "Esc" /\ Takes1(Escapes) /\ sent' = sent
  <2>1. typed' = typed /\ emu'.read = emu.read + 1 /\ emu'.pc = "escape"
    BY <1>6, <1>10, TakenOne
  <2>2. Begin' = emu.read
    BY <1>3, <2>1 DEF Begin
  <2>3. ASSUME NEW m \in emu.read + 1 .. Len(typed.text)
        PROVE  KeysFrom(Prefix(m))[emu.read + 1] = <<>> \o KeysFrom(Prefix(m))[emu.read + 1]
    <3>1. m \in 0 .. Len(typed.text) /\ emu.read + 1 \in 1 .. m + 1
      BY <1>3
    <3>2. KeysFrom(Prefix(m))[emu.read + 1] \in Seq(Keys)
      BY <3>1, KeysThere
    <3> QED BY <3>2, ConcatEmptySeq
  <2>4. sent' = sent \o <<>> /\ <<>> \in Seq(Keys)
    BY <1>3, <1>10, ConcatEmptySeq
  <2>5. TypedTypes' /\ Sound'
    <3>1. emu.read <= emu.read /\ emu.read <= emu.read + 1 /\ emu.pc \notin {"ended", "died"}
      BY <1>1, <1>3
    <3> QED BY <1>1, <1>2, <1>3, <2>1, <2>2, <2>3, <2>4, <3>1, ReadsOn
  <2>6. Sequence'
    <3>1. emu'.read >= 1 /\ typed'.text[emu'.read] = "Esc"
      BY <1>3, <1>10, <2>1 DEF Next1
    <3> QED BY <2>1, <3>1 DEF Sequence
  <2> QED BY <2>1, <2>5, <2>6
<1> QED BY <1>7, <1>8, <1>9, <1>10

\* Nothing is sent, and what begins where it did goes on.
LEMMA ReadsMore ==
  ASSUME TypedTypes, Sound, emu.pc \notin {"ended", "died"}, Waiting, typed' = typed,
         emu'.read = emu.read + 1, sent' = sent,
         NEW before \in Nat, Begin = before, Begin' = before, before <= emu.read
  PROVE  TypedTypes' /\ Sound'
<1>1. emu.read \in Nat /\ Len(typed.text) \in Nat /\ sent \in Seq(Keys)
  BY NextIs DEF TypedTypes
<1>2. ASSUME NEW m \in emu.read + 1 .. Len(typed.text)
      PROVE  KeysFrom(Prefix(m))[before + 1] = <<>> \o KeysFrom(Prefix(m))[before + 1]
  <2>1. m \in 0 .. Len(typed.text) /\ before + 1 \in 1 .. m + 1
    BY <1>1
  <2>2. KeysFrom(Prefix(m))[before + 1] \in Seq(Keys)
    BY <2>1, KeysThere
  <2> QED BY <2>2, ConcatEmptySeq
<1>3. sent' = sent \o <<>> /\ <<>> \in Seq(Keys)
  BY <1>1, ConcatEmptySeq
<1>4. before <= emu.read + 1
  BY <1>1
<1> QED BY <1>2, <1>3, <1>4, ReadsOn

\* After ESC a sequence begins, or a character is swallowed.
LEMMA ReadEscapeKeeps ==
  ASSUME EmuTypes, TypedTypes, Sequence, Sound, ReadEscape
  PROVE  TypedTypes' /\ Sequence' /\ Sound' /\ emu'.pc \notin {"ended", "died"}
<1> DEFINE Moved == [emu EXCEPT !.pc = IF Next1 = "[" THEN "sequence" ELSE "keys"]
           To == [Moved EXCEPT !.sequence = <<>>]
           b == emu.read - 1
<1>1. emu.pc = "escape" /\ Waiting /\ Takes1(To) /\ sent' = sent
  BY DEF ReadEscape, At
<1>2. /\ emu.read \in Nat /\ Len(typed.text) \in Nat /\ emu.read + 1 \in 1 .. Len(typed.text)
      /\ sent \in Seq(Keys) /\ emu.read >= 1 /\ typed.text[emu.read] = "Esc" /\ Begin = b
  BY <1>1, NextIs, BeginIs DEF TypedTypes, Sequence
<1>3. EmuShaped(To) /\ To.pc = (IF Next1 = "[" THEN "sequence" ELSE "keys") /\ To.sequence = <<>>
  <2>1. EmuShaped(Moved) /\ Moved.pc = (IF Next1 = "[" THEN "sequence" ELSE "keys")
    BY DEF EmuTypes, EmuShaped
  <2> HIDE DEF Moved
  <2> QED BY <2>1 DEF EmuShaped
<1> HIDE DEF To, Moved
<1>4. /\ emu'.pc = (IF Next1 = "[" THEN "sequence" ELSE "keys") /\ emu'.sequence = <<>>
      /\ emu'.read = emu.read + 1 /\ typed' = typed
  BY <1>1, <1>3, TakenOne
<1>5. b \in Nat /\ b <= emu.read /\ b + 1 = emu.read /\ emu.pc \notin {"ended", "died"}
  BY <1>1, <1>2
<1>6. CASE Next1 = "["
  <2>1. Begin' = b
    BY <1>2, <1>4, <1>6 DEF Begin
  <2>2. TypedTypes' /\ Sound'
    <3> HIDE DEF b
    <3> QED BY <1>1, <1>2, <1>4, <1>5, <2>1, ReadsMore
  <2>3. /\ Begin' >= 0 /\ typed'.text[Begin' + 1] = "Esc" /\ typed'.text[Begin' + 2] = "["
    <3> DEFINE r == emu.read
    <3>1. typed'.text = typed.text /\ typed.text[r] = "Esc" /\ typed.text[r + 1] = "["
      BY <1>2, <1>4, <1>6 DEF Next1
    <3>2. b = r - 1 /\ b \in Nat
      BY <1>5
    <3>3. r \in Nat
      BY <1>2
    <3> HIDE DEF b, r
    <3>4. Begin' >= 0 /\ Begin' + 1 = r /\ Begin' + 2 = r + 1
      BY <2>1, <3>2, <3>3
    <3> QED BY <3>1, <3>4
  <2>4. Sequence'
    BY <1>4, <1>6, <2>3 DEF Sequence
  <2> QED BY <1>4, <1>6, <2>2, <2>4
<1>7. CASE Next1 # "["
  <2>1. Begin' = emu.read + 1
    BY <1>4, <1>7 DEF Begin
  <2>2. ASSUME NEW m \in emu.read + 1 .. Len(typed.text)
        PROVE  KeysFrom(Prefix(m))[b + 1] = <<>> \o KeysFrom(Prefix(m))[emu.read + 1 + 1]
    <3>1. /\ m \in 0 .. Len(typed.text) /\ m \in Nat /\ m >= emu.read + 1
          /\ Len(Prefix(m)) = m /\ Prefix(m)[emu.read + 1] = Next1
      BY <1>1, NextIs
    <3>2. Prefix(m)[emu.read] = "Esc"
      <4>1. emu.read \in 1 .. m
        BY <1>2, <3>1
      <4> QED BY <1>2, <3>1, <4>1, PrefixIs
    <3>3. /\ emu.read \in 1 .. m + 1 /\ emu.read + 2 \in 1 .. m + 1
          /\ ~ (emu.read > Len(Prefix(m))) /\ emu.read # Len(Prefix(m)) /\ emu.read + 1 + 1 = emu.read + 2
      <4> DEFINE r == emu.read
      <4>1. r \in Nat /\ r >= 1
        BY <1>2
      <4>2. m \in Nat /\ m >= r + 1 /\ Len(Prefix(m)) = m
        BY <3>1
      <4> HIDE DEF r
      <4>3. r \in 1 .. m + 1 /\ r + 2 \in 1 .. m + 1 /\ ~ (r > m) /\ r # m /\ r + 1 + 1 = r + 2
        BY <4>1, <4>2
      <4> QED BY <4>2, <4>3 DEF r
    <3> DEFINE keys == KeysFrom(Prefix(m))
    <3>4. keys[emu.read] = KeysAt(Prefix(m), keys, emu.read)
      BY <3>1, <3>3, KeysThere
    <3>5. KeysAt(Prefix(m), keys, emu.read) = keys[emu.read + 2]
      BY <1>7, <3>1, <3>2, <3>3, KeysOfSwallowed
    <3>6. keys[emu.read + 2] \in Seq(Keys)
      BY <3>1, <3>3, KeysThere
    <3> HIDE DEF keys
    <3>7. <<>> \o keys[emu.read + 2] = keys[emu.read + 2]
      BY <3>6, ConcatEmptySeq
    <3>8. keys[b + 1] = <<>> \o keys[emu.read + 1 + 1]
      BY <1>5, <3>3, <3>4, <3>5, <3>7
    <3> QED BY <3>8 DEF keys
  <2>3. sent' = sent \o <<>> /\ <<>> \in Seq(Keys)
    BY <1>1, <1>2, ConcatEmptySeq
  <2>4. TypedTypes' /\ Sound'
    <3>1. emu.read + 1 \in Nat /\ emu.read + 1 <= emu.read + 1
      BY <1>2
    <3> HIDE DEF b
    <3> QED BY <1>1, <1>2, <1>4, <1>5, <2>1, <2>2, <2>3, <3>1, ReadsOn
  <2> QED BY <1>4, <1>7, <2>4 DEF Sequence
<1> QED BY <1>6, <1>7

\* A sequence ends where its first ending character is.
LEMMA SequenceEnds ==
  ASSUME NEW text \in Seq(Characters), NEW i \in Nat, NEW end \in Nat, i + 2 <= end, end <= Len(text),
         EndsSequence(text[end]), \A j \in i + 2 .. end - 1 : ~ EndsSequence(text[j])
  PROVE  Ends(text, i) # {} /\ First(Ends(text, i)) = end
<1>1. Len(text) \in Nat
  OBVIOUS
<1>2. end \in Ends(text, i) /\ Ends(text, i) \in SUBSET Nat
  BY <1>1 DEF Ends
<1>3. First(Ends(text, i)) \in Ends(text, i) /\ First(Ends(text, i)) <= end
  BY <1>2, FirstIs
<1> DEFINE f == First(Ends(text, i))
<1>4. f \in i + 2 .. Len(text) /\ EndsSequence(text[f]) /\ f <= end
  BY <1>3 DEF Ends
<1> HIDE DEF f
<1>5. f = end
  <2>1. f \in Int /\ i + 2 <= f
    BY <1>1, <1>4
  <2>2. CASE f < end
    <3>1. f \in i + 2 .. end - 1
      BY <1>1, <2>1, <2>2
    <3> QED BY <1>4, <3>1
  <2> QED BY <1>4, <2>1, <2>2
<1> QED BY <1>2, <1>5 DEF f

\* A sequence of one character is an arrow if it is an arrow's, a longer one is none.
LEMMA ArrowIs ==
  ASSUME NEW sequence \in Seq(Characters), NEW c \in Characters,
         \A i \in 1 .. Len(sequence) : ~ EndsSequence(sequence[i])
  PROVE  LET arrow == Arrow(Append(sequence, c))
             keys == IF sequence = <<>> THEN ArrowKey(c) ELSE <<>>
         IN IF arrow = "none" THEN keys = <<>> ELSE keys = <<arrow>> /\ arrow \in Keys
<1> DEFINE head == Head(Append(sequence, c))
<1>1. head = IF sequence = <<>> THEN c ELSE Head(sequence)
  BY HeadTailAppend
<1>2. CASE sequence = <<>>
  <2>1. head = c
    BY <1>1, <1>2
  <2> HIDE DEF head
  <2>2. /\ c = "A" => Arrow(Append(sequence, c)) = "[30]" /\ ArrowKey(c) = <<"[30]">>
        /\ c = "B" => Arrow(Append(sequence, c)) = "[2C]" /\ ArrowKey(c) = <<"[2C]">>
        /\ c \notin {"A", "B"} => Arrow(Append(sequence, c)) = "none" /\ ArrowKey(c) = <<>>
    BY <2>1 DEF Arrow, ArrowKey, head
  <2>3. "[30]" \in Keys /\ "[2C]" \in Keys /\ "[30]" # "none" /\ "[2C]" # "none"
    BY DEF Keys
  <2> QED BY <1>2, <2>2, <2>3
<1>3. CASE sequence # <<>>
  <2>1. Len(sequence) \in Nat /\ Len(sequence) >= 1 /\ Head(sequence) = sequence[1]
    BY <1>3
  <2>2. head = sequence[1] /\ ~ EndsSequence(sequence[1])
    BY <1>1, <1>3, <2>1
  <2>3. head \in {"1", "5"}
    BY <2>2 DEF EndsSequence
  <2>4. Arrow(Append(sequence, c)) = "none"
    BY <2>3 DEF Arrow
  <2> QED BY <1>3, <2>4
<1> QED BY <1>2, <1>3

\* In a sequence its characters are gathered, until one ends it.
LEMMA ReadSequenceKeeps ==
  ASSUME EmuTypes, TypedTypes, Sequence, Sound, ReadSequence
  PROVE  TypedTypes' /\ Sequence' /\ Sound' /\ emu'.pc \notin {"ended", "died"}
<1> DEFINE b == emu.read - 2 - Len(emu.sequence)
           l == Len(emu.sequence)
           longer == Append(emu.sequence, Next1)
           arrow == Arrow(longer)
           More == [emu EXCEPT !.sequence = longer]
           Over == [emu EXCEPT !.pc = "keys"]
           Calls == [emu EXCEPT !.pc = "call"]
<1>1. /\ emu.pc = "sequence" /\ Waiting /\ EmuShaped(emu)
      /\ \/ ~ EndsSequence(Next1) /\ Takes1(More) /\ sent' = sent
         \/ EndsSequence(Next1) /\ arrow = "none" /\ Takes1(Over) /\ sent' = sent
         \/ EndsSequence(Next1) /\ arrow # "none" /\ Takes1(Calls) /\ sent' = Append(sent, arrow)
  <2>1. emu.pc = "sequence" /\ EmuShaped(emu)
    BY DEF ReadSequence, At, EmuTypes
  <2> HIDE DEF More, Over, Calls, arrow, longer
  <2>2. \/ ~ EndsSequence(Next1) /\ Takes1(More) /\ sent' = sent
        \/ EndsSequence(Next1) /\ arrow = "none" /\ Takes1(Over) /\ sent' = sent
        \/ EndsSequence(Next1) /\ arrow # "none" /\ Takes1(Calls) /\ sent' = Append(sent, arrow)
    BY Zenon DEF ReadSequence, Presses, More, Over, Calls, arrow, longer
  <2>3. Waiting
    BY DEF ReadSequence
  <2> QED BY <2>1, <2>2, <2>3
<1>2. /\ EmuShaped(More) /\ More.pc = "sequence" /\ More.sequence = longer
      /\ EmuShaped(Over) /\ Over.pc = "keys" /\ EmuShaped(Calls) /\ Calls.pc = "call"
  <2> HIDE DEF longer
  <2>1. EmuShaped(More) /\ More.pc = "sequence" /\ More.sequence = longer
    BY <1>1 DEF EmuShaped
  <2>2. EmuShaped(Over) /\ Over.pc = "keys"
    BY <1>1 DEF EmuShaped
  <2>3. EmuShaped(Calls) /\ Calls.pc = "call"
    BY <1>1 DEF EmuShaped
  <2> QED BY <2>1, <2>2, <2>3
<1> HIDE DEF More, Over, Calls, arrow
<1>3. /\ emu.read \in Nat /\ Len(typed.text) \in Nat /\ emu.read + 1 \in 1 .. Len(typed.text)
      /\ Next1 \in Characters /\ sent \in Seq(Keys)
  BY <1>1, NextIs DEF TypedTypes
<1>4. /\ Begin = b /\ b >= 0 /\ typed.text[b + 1] = "Esc" /\ typed.text[b + 2] = "["
      /\ emu.sequence \in Seq(Characters)
      /\ \A i \in 1 .. l : emu.sequence[i] = typed.text[b + 2 + i] /\ ~ EndsSequence(emu.sequence[i])
  <2>1. Begin = b
    BY <1>1, BeginIs
  <2> HIDE DEF b
  <2> QED BY <1>1, <2>1 DEF Sequence
<1>5. l \in Nat /\ b \in Nat /\ emu.read = b + 2 + l /\ b <= emu.read /\ emu.pc \notin {"ended", "died"}
  <2>1. l \in Nat
    BY <1>4
  <2>2. b \in Int /\ emu.read = b + 2 + l
    BY <1>3, <2>1
  <2> HIDE DEF b, l
  <2> QED BY <1>1, <1>4, <2>1, <2>2
<1>6. CASE ~ EndsSequence(Next1) /\ Takes1(More) /\ sent' = sent
  <2>1. /\ emu'.pc = "sequence" /\ emu'.sequence = longer /\ emu'.read = emu.read + 1 /\ typed' = typed
    BY <1>2, <1>6, TakenOne
  <2>2. /\ longer \in Seq(Characters) /\ Len(longer) = l + 1 /\ longer[l + 1] = Next1
        /\ \A i \in 1 .. l : longer[i] = emu.sequence[i]
    <3>1. emu.sequence \in Seq(Characters) /\ Next1 \in Characters
      BY <1>3, <1>4
    <3> QED BY <3>1, AppendProperties
  <2> HIDE DEF longer
  <2>3. Begin' = b
    <3>1. Begin' = emu'.read - 2 - Len(emu'.sequence)
      BY <2>1 DEF Begin
    <3>2. Len(emu'.sequence) = l + 1
      BY <2>1, <2>2
    <3>3. ASSUME NEW n \in Nat, NEW r \in Nat, NEW m \in Nat, NEW s \in Nat, s = r + 1, m = n + 1
          PROVE  s - 2 - m = r - 2 - n
      BY <3>3
    <3>4. emu.read \in Nat /\ l \in Nat
      BY <1>3, <1>5
    <3>5. emu'.read = emu.read + 1 /\ emu'.read \in Nat /\ l + 1 \in Nat
      BY <2>1, <3>4
    <3>6. Len(emu'.sequence) \in Nat
      BY <3>2, <3>5
    <3> HIDE DEF l
    <3>7. emu'.read - 2 - Len(emu'.sequence) = emu.read - 2 - l
      BY Zenon, <3>2, <3>3, <3>4, <3>5, <3>6
    <3> QED BY Zenon, <3>1, <3>7 DEF l
  <2> HIDE DEF b
  <2>4. TypedTypes' /\ Sound'
    BY <1>1, <1>4, <1>5, <1>6, <2>1, <2>3, ReadsMore
  <2> HIDE DEF l
  <2>5. ASSUME NEW i \in 1 .. l + 1
        PROVE  longer[i] = typed.text[b + 2 + i] /\ ~ EndsSequence(longer[i])
    <3>1. CASE i = l + 1
      <4>1. b + 2 + i = emu.read + 1
        BY <1>5, <3>1
      <4> QED BY <1>6, <2>2, <3>1, <4>1 DEF Next1
    <3>2. CASE i # l + 1
      <4>1. i \in 1 .. l
        BY <1>5, <3>2
      <4> QED BY <1>4, <2>2, <4>1 DEF l
    <3> QED BY <3>1, <3>2
  <2>6. Sequence'
    BY <1>4, <2>1, <2>2, <2>3, <2>5 DEF Sequence
  <2> QED BY <2>1, <2>4, <2>6
<1>7. ASSUME EndsSequence(Next1), emu'.pc \in {"keys", "call"}, emu'.read = emu.read + 1, typed' = typed,
             sent' = sent \o (IF emu.sequence = <<>> THEN ArrowKey(Next1) ELSE <<>>)
      PROVE  TypedTypes' /\ Sequence' /\ Sound' /\ emu'.pc \notin {"ended", "died"}
  <2> DEFINE keys == IF emu.sequence = <<>> THEN ArrowKey(Next1) ELSE <<>>
  <2>1. Begin' = emu.read + 1
    BY <1>7 DEF Begin
  <2>2. keys \in Seq(Keys)
    BY <1>3, KeyTypes
  <2>3. emu.sequence = <<>> <=> l = 0
    BY <1>4
  <2>4. ASSUME NEW m \in emu.read + 1 .. Len(typed.text)
        PROVE  KeysFrom(Prefix(m))[b + 1] = keys \o KeysFrom(Prefix(m))[emu.read + 1 + 1]
    <3> DEFINE text == Prefix(m)
               from == KeysFrom(text)
               i == b + 1
               end == emu.read + 1
    <3>1. /\ m \in 0 .. Len(typed.text) /\ m \in Nat /\ m >= end
          /\ text \in Seq(Characters) /\ Len(text) = m /\ text[end] = Next1
      BY <1>1, NextIs
    <3>2. \A j \in 1 .. m : text[j] = typed.text[j]
      BY <3>1, PrefixIs
    <3> HIDE DEF text, b, l
    <3>3. /\ i \in Nat /\ end \in Nat /\ i \in 1 .. m /\ b + 2 \in 1 .. m /\ i + 1 = b + 2 /\ i + 2 <= end
          /\ end <= Len(text) /\ ~ (i > Len(text)) /\ i # Len(text) /\ i \in 1 .. m + 1
      BY <1>3, <1>5, <3>1
    <3>4. text[i] = "Esc" /\ text[i + 1] = "["
      BY <1>4, <3>2, <3>3
    <3>5. ASSUME NEW j \in i + 2 .. end - 1 PROVE ~ EndsSequence(text[j])
      <4>1. j - (b + 2) \in 1 .. l /\ j \in 1 .. m /\ b + 2 + (j - (b + 2)) = j
        BY <1>3, <1>5, <3>1, <3>3
      <4>2. emu.sequence[j - (b + 2)] = typed.text[j] /\ ~ EndsSequence(emu.sequence[j - (b + 2)])
        BY <1>4, <4>1 DEF l
      <4> QED BY <3>2, <4>1, <4>2
    <3>6. Ends(text, i) # {} /\ First(Ends(text, i)) = end
      <4>1. EndsSequence(text[end])
        BY <1>7, <3>1
      <4> HIDE DEF i, end
      <4> QED BY <3>1, <3>3, <3>5, <4>1, SequenceEnds
    <3>7. from[i] = KeysAt(text, from, i)
      BY <3>1, <3>3, KeysThere DEF text
    <3>8. KeysAt(text, from, i) = (IF end = i + 2 THEN ArrowKey(text[end]) ELSE <<>>) \o from[end + 1]
      <4> HIDE DEF from, i, end
      <4> QED BY <3>3, <3>4, <3>6, KeysOfSequence
    <3>9. (end = i + 2) <=> (emu.sequence = <<>>)
      BY <1>5, <2>3
    <3>10. (IF end = i + 2 THEN ArrowKey(text[end]) ELSE <<>>) = keys
      <4> HIDE DEF i, end
      <4> QED BY <3>1, <3>9
    <3> HIDE DEF from, keys
    <3>11. from[i] = keys \o from[end + 1]
      BY <3>7, <3>8, <3>10
    <3> QED BY <3>11 DEF from, text
  <2>5. TypedTypes' /\ Sound'
    <3>1. emu.read + 1 \in Nat /\ emu.read + 1 <= emu.read + 1
      BY <1>3
    <3>2. sent' = sent \o keys
      BY <1>7
    <3> HIDE DEF b, keys
    <3> QED BY <1>1, <1>4, <1>5, <1>7, <2>1, <2>2, <2>4, <3>1, <3>2, ReadsOn
  <2> QED BY <1>7, <2>5 DEF Sequence
<1>8. IF arrow = "none" THEN (IF emu.sequence = <<>> THEN ArrowKey(Next1) ELSE <<>>) = <<>>
      ELSE (IF emu.sequence = <<>> THEN ArrowKey(Next1) ELSE <<>>) = <<arrow>> /\ arrow \in Keys
  BY <1>3, <1>4, ArrowIs DEF arrow
<1>9. CASE EndsSequence(Next1) /\ arrow = "none" /\ Takes1(Over) /\ sent' = sent
  <2>1. emu'.pc = "keys" /\ emu'.read = emu.read + 1 /\ typed' = typed
    BY <1>2, <1>9, TakenOne
  <2>2. sent' = sent \o <<>>
    BY <1>3, <1>9, ConcatEmptySeq
  <2> QED BY <1>7, <1>8, <1>9, <2>1, <2>2
<1>10. CASE EndsSequence(Next1) /\ arrow # "none" /\ Takes1(Calls) /\ sent' = Append(sent, arrow)
  <2>1. emu'.pc = "call" /\ emu'.read = emu.read + 1 /\ typed' = typed
    BY <1>2, <1>10, TakenOne
  <2>2. sent' = sent \o <<arrow>>
    BY <1>3, <1>8, <1>10, AppendIsConcat
  <2> QED BY <1>7, <1>8, <1>10, <2>1, <2>2
<1> QED BY <1>1, <1>6, <1>9, <1>10

\* A step that reads nothing leaves what was read and sent as it is.
LEMMA KeysStand ==
  ASSUME KeyInv, TypedTypes', typed'.text = typed.text, emu'.read = emu.read, sent' = sent,
         emu.pc \in {"ended", "died"} => emu'.pc \in {"ended", "died"},
         \/ emu'.pc \in {"ended", "died"}
         \/ emu'.pc = emu.pc /\ emu'.sequence = emu.sequence
         \/ emu.pc \notin {"escape", "sequence"} /\ emu'.pc \notin {"escape", "sequence"}
  PROVE  KeyInv'
<1>1. KeysInOrder'
  BY DEF KeyInv, KeysInOrder
<1>2. \A m : Prefix(m)' = Prefix(m)
  BY DEF Prefix
<1>3. CASE emu'.pc \in {"ended", "died"}
  <2>1. Sound' /\ Sequence'
    BY <1>3 DEF Sound, Sequence
  <2> QED BY <1>1, <2>1 DEF KeyInv
<1>4. CASE emu'.pc \notin {"ended", "died"}
  <2>1. Begin' = Begin
    <3>1. CASE emu'.pc = emu.pc /\ emu'.sequence = emu.sequence
      BY <3>1 DEF Begin
    <3>2. CASE emu.pc \notin {"escape", "sequence"} /\ emu'.pc \notin {"escape", "sequence"}
      BY <3>2 DEF Begin
    <3> QED BY <1>4, <3>1, <3>2
  <2>2. Sound /\ Sequence /\ emu.pc \notin {"ended", "died"}
    BY <1>4 DEF KeyInv
  <2>3. Sound'
    BY <1>2, <2>1, <2>2 DEF Sound
  <2>4. Sequence'
    <3>1. CASE emu'.pc = emu.pc /\ emu'.sequence = emu.sequence
      BY <2>1, <2>2, <3>1 DEF Sequence
    <3>2. CASE emu'.pc \notin {"escape", "sequence"}
      BY <3>2 DEF Sequence
    <3> QED BY <1>4, <3>1, <3>2
  <2> QED BY <1>1, <2>3, <2>4 DEF KeyInv
<1> QED BY <1>3, <1>4

\* The keypad's own steps keep it.
LEMMA KeypadSends ==
  ASSUME EmuTypes, KeyInv, EmuNext
  PROVE  KeyInv'
<1>1. /\ TypedTypes /\ Sequence /\ Sound
      /\ emu.read \in Nat /\ typed.count \in Nat /\ Len(typed.text) \in Nat
      /\ emu.read <= typed.count /\ typed.count <= Len(typed.text)
  <2>1. typed.text \in Seq(Characters) /\ TypedTypes
    BY EmulatorAssumption DEF KeyInv, TypedTypes, Characters
  <2> QED BY <2>1 DEF KeyInv, TypedTypes
<1>2. ASSUME TypedTypes', Sequence', Sound', emu'.pc \notin {"ended", "died"} PROVE KeyInv'
  <2>1. KeysInOrder'
    <3>1. (TypedTypes /\ Sequence /\ Sound /\ emu.pc \notin {"ended", "died"} => KeysInOrder)'
      BY NothingMore, PTL
    <3> QED BY <1>2, <3>1
  <2> QED BY <1>2, <2>1 DEF KeyInv
<1>3. CASE ReadKey
  BY <1>1, <1>2, <1>3, ReadKeyKeeps
<1>4. CASE ReadEscape
  BY <1>1, <1>2, <1>4, ReadEscapeKeeps
<1>5. CASE ReadSequence
  BY <1>1, <1>2, <1>5, ReadSequenceKeeps
\* The others read nothing.
<1>6. ASSUME UNCHANGED <<sent, typed>>, emu'.read = emu.read PROVE TypedTypes'
  BY <1>1, <1>6 DEF TypedTypes
<1>7. CASE RefreshZones \/ ZonesRefreshed \/ RefreshTouchpad \/ Subscribe \/ NoMoreKeys \/ CallReturns
  <2>1. /\ UNCHANGED <<sent, typed>> /\ emu.pc \in {"zones", "touchpad", "match", "keys", "call"}
    BY <1>7 DEF RefreshZones, ZonesRefreshed, RefreshTouchpad, Subscribe, NoMoreKeys, CallReturns, At
  <2>2. /\ emu'.read = emu.read
        /\ emu'.pc \in {"zones", "touchpad", "match", "keys", "dispatch", "ended"}
    <3>1. CASE RefreshZones
      BY <3>1 DEF RefreshZones, At, EmuTypes, EmuShaped
    <3>2. CASE ZonesRefreshed \/ RefreshTouchpad
      BY <3>2 DEF ZonesRefreshed, RefreshTouchpad, Goes, EmuTypes, EmuShaped
    <3>3. CASE Subscribe
      BY <3>3 DEF Subscribe, Goes, EmuTypes, EmuShaped
    <3>4. CASE NoMoreKeys \/ CallReturns
      BY <3>4 DEF NoMoreKeys, CallReturns, Goes, EmuTypes, EmuShaped
    <3> QED BY <1>7, <3>1, <3>2, <3>3, <3>4
  <2>3. TypedTypes'
    BY <1>6, <2>1, <2>2
  <2> QED BY <2>1, <2>2, <2>3, KeysStand
<1>8. CASE Dispatch
  <2>1. UNCHANGED <<sent, typed>> /\ emu.pc = "dispatch" /\ emu' = TurnEnds(emu)
    BY <1>8 DEF Dispatch, At
  <2>2. emu'.read = emu.read /\ emu'.pc \in {"keys", "ended"}
    BY <2>1 DEF TurnEnds, EmuTypes, EmuShaped
  <2>3. TypedTypes'
    BY <1>6, <2>1, <2>2
  <2> QED BY <2>1, <2>2, <2>3, KeysStand
<1>9. CASE Interrupt \/ InterruptAgain
  <2>1. UNCHANGED <<sent, typed>> /\ emu.pc \notin {"ended", "died"}
    BY <1>9 DEF Interrupt, InterruptAgain
  <2>2. emu'.read = emu.read /\ emu'.sequence = emu.sequence /\ emu'.pc \in {emu.pc, "died"}
    BY <1>9 DEF Interrupt, InterruptAgain, Goes, EmuTypes, EmuShaped
  <2>3. TypedTypes'
    BY <1>6, <2>1, <2>2
  <2> QED BY <2>1, <2>2, <2>3, KeysStand
<1>10. ASSUME NEW o \in Objects, NEW f \in Fields(o), Changes(o, f) PROVE KeyInv'
  <2>1. UNCHANGED <<sent, typed>> /\ emu' = emu
    BY <1>10 DEF Changes
  <2>2. TypedTypes'
    BY <1>6, <2>1
  <2> QED BY <2>1, <2>2, KeysStand
<1>11. CASE Types
  <2>1. /\ sent' = sent /\ emu' = emu /\ typed' = [typed EXCEPT !.count = @ + 1]
        /\ typed.count < Len(typed.text)
    BY <1>11 DEF Types
  <2>2. typed' = [text |-> typed.text, count |-> typed.count + 1]
    BY <1>1, <2>1 DEF TypedTypes
  <2>3. typed'.text = typed.text /\ typed'.count = typed.count + 1
    BY <2>2
  <2>4. TypedTypes'
    BY <1>1, <2>1, <2>2, <2>3 DEF TypedTypes
  <2> QED BY <2>1, <2>3, <2>4, KeysStand
<1> QED BY <1>3, <1>4, <1>5, <1>7, <1>8, <1>9, <1>10, <1>11 DEF EmuNext, EmuStep

\* At the start nothing is read.
LEMMA KeysAtStart == Init => KeyInv
<1> SUFFICES ASSUME Init PROVE KeyInv
  OBVIOUS
<1>1. emu.pc = "off" /\ emu.read = 0 /\ sent = <<>>
  BY DEF Init, EmuInit
<1>2. PICK text \in TypedPlans : typed = [text |-> text, count |-> 0]
  BY DEF Init, EmuInit
<1>3. text \in Seq(Characters)
  BY EmulatorAssumption DEF Characters
<1>4. TypedTypes
  BY <1>1, <1>2, <1>3 DEF TypedTypes
<1>5. Sequence /\ Begin = 0
  BY <1>1 DEF Sequence, Begin
<1>6. ASSUME NEW m \in emu.read .. Len(typed.text)
      PROVE  KeysIn(Prefix(m)) = sent \o KeysFrom(Prefix(m))[Begin + 1]
  <2>1. m \in 0 .. Len(typed.text) /\ 1 \in 1 .. m + 1 /\ Begin + 1 = 1
    BY <1>1, <1>2, <1>3, <1>5
  <2> DEFINE keys == KeysFrom(Prefix(m))[1]
  <2>2. keys \in Seq(Keys)
    BY <1>4, <2>1, KeysThere
  <2> HIDE DEF keys
  <2>3. <<>> \o keys = keys
    BY <2>2, ConcatEmptySeq
  <2> QED BY <1>1, <2>1, <2>3 DEF keys, KeysIn
<1>7. Sound
  BY <1>6 DEF Sound
<1>8. KeysInOrder
  BY <1>1, <1>4, <1>5, <1>7, NothingMore
<1> QED BY <1>4, <1>5, <1>7, <1>8 DEF KeyInv

\* However what is typed is cut up, and whatever is signalled meanwhile: the keys
\* that were typed are sent, each once and in order.
THEOREM KeysAreSent == Spec => []KeysInOrder
<1>1. Init => KeyInv
  BY KeysAtStart
<1>2. KeyInv /\ ScreenInv /\ [Next]_vars => KeyInv'
  <2> SUFFICES ASSUME KeyInv, ScreenInv, [Next]_vars PROVE KeyInv'
    OBVIOUS
  <2>1. CASE Is("keypad") /\ EmuNext /\ UNCHANGED <<tool, done, run>>
    BY <2>1, KeypadSends DEF ScreenInv, ToolInv
  <2>2. CASE ExecuteKeypad
    <3>1. /\ emu' = [emu EXCEPT !.pc = "zones"] /\ sent' = sent /\ typed' = typed /\ tool.pc = "execute"
      BY <2>2 DEF ExecuteKeypad, Is
    <3>2. emu.pc = "off"
      BY <3>1 DEF ScreenInv, StartedOnce
    <3>3. emu'.pc = "zones" /\ emu'.read = emu.read
      BY <3>1 DEF ScreenInv, ToolInv, EmuTypes, EmuShaped
    <3>4. TypedTypes'
      BY <3>1, <3>3 DEF KeyInv, TypedTypes
    <3> QED BY <3>1, <3>2, <3>3, <3>4, KeysStand
  <2>3. CASE UNCHANGED emuVars
    <3>1. emu' = emu /\ sent' = sent /\ typed' = typed
      BY <2>3 DEF emuVars
    <3>2. TypedTypes'
      BY <3>1 DEF KeyInv, TypedTypes
    <3> QED BY <3>1, <3>2, KeysStand
  <2>4. CASE UNCHANGED vars
    BY <2>3, <2>4 DEF vars
  <2>5. CASE \/ ParseOptions \/ ConnectToBus \/ ChooseCommands \/ NextLine
             \/ ExecuteAtOnce \/ ExecuteCall \/ ExecuteEach
             \/ StatusAnswered \/ InfoAnswered \/ CallUnanswered
             \/ EachAnswered \/ EachDone \/ ExecuteLog \/ LogReturns \/ LogInterrupted
             \/ KeypadHelp \/ KeypadReturns
    <3>1. UNCHANGED emuVars
      BY <2>5 DEF ParseOptions, ConnectToBus, ChooseCommands, NextLine, ExecuteAtOnce, ExecuteCall,
         ExecuteEach, StatusAnswered, InfoAnswered, CallUnanswered, EachAnswered, EachDone, ExecuteLog,
         LogReturns, LogInterrupted, KeypadHelp, KeypadReturns, Moves
    <3> QED BY <2>3, <3>1
  <2> QED BY <2>1, <2>2, <2>4, <2>5 DEF Next, ToolNext
<1>3. KeyInv => KeysInOrder
  BY DEF KeyInv
<1> QED BY <1>1, <1>2, <1>3, ScreenHolds, PTL DEF Spec

=============================================================================
