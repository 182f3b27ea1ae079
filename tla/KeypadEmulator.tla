---------------------------- MODULE KeypadEmulator ----------------------------
(***************************************************************************)
(* The touchpad that concordctl shows on a terminal,                       *)
(* src/concordctl/tool-cmd-keypad-emu.c: it reads the zones and the        *)
(* partition, follows their "changed" signals, and sends the keys that are *)
(* typed.  A call blocks the program, and the signals that come meanwhile  *)
(* wait in the connection, of which one is handled in each turn.           *)
(*                                                                         *)
(* The daemon is the environment: it announces the changes of a partition, *)
(* and those of a zone unless a refresh made the zone inactive (PanelWorld *)
(* has both).                                                              *)
(***************************************************************************)
EXTENDS Integers, Sequences, FiniteSets, SequencesExt

CONSTANTS
  ZonesOf,     \* [the daemon's zones -> their partition]
  TypedPlans,  \* what may be typed, one character at a time
  MaxChanges   \* bound on the changes of the daemon's image

gPartitionIndex == 1
LastZone == 96
NORMAL_QUIT == -23   \* ERRORCODE_NORMAL_QUIT
Touchpad == -1   \* for the object of the partition, beside those of zones
EmuZones == DOMAIN ZonesOf
\* The fields that change: of the partition its text stands for what is shown.
Fields(object) == IF object = Touchpad THEN {"text"} ELSE {"isTripped", "isBypassed"}
AllFields(object) == IF object = Touchpad THEN {"text"} ELSE {"isTripped", "isBypassed", "partitionId"}
Objects == {Touchpad} \union EmuZones

ASSUME EmulatorAssumption ==
  \* zone[96] of the daemon, which it numbers from 0.
  /\ EmuZones \subseteq 0 .. LastZone - 1
  /\ MaxChanges \in Nat
  /\ \A t \in TypedPlans : t \in Seq({"1", "x", "Enter", "q", "Esc", "[", "A", "B", "C", "5"})

VARIABLES
  image,    \* what the daemon has: [object -> [field -> Nat]]
  known,    \* touchpad_text and the like, and gZoneData: 0 where nothing was read
  inbox,    \* the signals that wait in the connection
  missed,   \* history: <<object, field>> never read, changed between reading and
            \* subscribing, or changed and not announced, and not announced since
  emu,      \* the program: [pc, todo, ret, interrupted, trap, subscribed, sequence, read]
  sent,     \* the keys of the calls made, in order
  typed,    \* [text, count]: what is typed, and how much of it so far
  changes   \* bounds the changes

emuVars == <<image, known, inbox, missed, emu, sent, typed, changes>>

EmuInit ==
  /\ image = [o \in Objects |-> [f \in AllFields(o) |-> IF f = "partitionId" THEN ZonesOf[o] ELSE 0]]
  /\ known = [o \in Objects |-> [f \in AllFields(o) |-> 0]]
  /\ inbox = <<>>
  /\ missed = UNION {{o} \X AllFields(o) : o \in Objects}
  /\ emu = [pc |-> "off", todo |-> 1, ret |-> 0, interrupted |-> FALSE, trap |-> "default",
            subscribed |-> FALSE, sequence |-> <<>>, read |-> 0]
  /\ sent = <<>>
  /\ \E text \in TypedPlans : typed = [text |-> text, count |-> 0]
  /\ changes = 0

At(pc) == emu.pc = pc
Goes(pc) == emu' = [emu EXCEPT !.pc = pc]

-----------------------------------------------------------------------------
(* What is kept of the daemon's objects.                                   *)

\* Variant: the last zone of the daemon is taken for none.
KnownZoneShort(z) == z >= 1 /\ z < LastZone - 1

\* The first zone of the daemon is none here, and the daemon has none that is last.
KnownZone(z) == z >= 1 /\ z <= LastZone

\* The keys that are there are taken, the other fields stay.
Taken(dict, fields) ==
  [f \in DOMAIN fields \union DOMAIN dict |-> IF f \in DOMAIN dict THEN dict[f] ELSE fields[f]]

\* update_zone()
ZoneUpdated(z, dict) == IF KnownZone(z) THEN [known EXCEPT ![z] = Taken(dict, @)] ELSE known

\* touchpad_display_update()
TouchpadUpdated(dict) == [known EXCEPT ![Touchpad] = Taken(dict, @)]

Updated(object, dict) ==
  IF object = Touchpad THEN TouchpadUpdated(dict) ELSE ZoneUpdated(object, dict)

\* touchpad_display_draw(): a zone of this partition is listed if anything is
\* the matter with it (or was, within 30 seconds).
Screen(objects) ==
  [text |-> objects[Touchpad].text,
   zones |-> {<<z, objects[z]>> : z \in {z \in EmuZones :
                /\ objects[z].partitionId = gPartitionIndex
                /\ \E f \in Fields(z) : objects[z][f] # 0}}]

-----------------------------------------------------------------------------
(* Starting.                                                               *)

NextZone == IF \E z \in EmuZones : z >= emu.todo
            THEN CHOOSE z \in EmuZones : z >= emu.todo /\ \A y \in EmuZones : y >= emu.todo => z <= y
            ELSE LastZone + 1

Read(object) ==
  /\ known' = Updated(object, image[object])
  /\ missed' = {m \in missed : m[1] # object}

\* refresh_zones(): zones 1 to 96; one that cannot be read is left out.
RefreshZones ==
  /\ At("zones") /\ NextZone <= LastZone
  /\ emu' = [emu EXCEPT !.todo = NextZone + 1]
  /\ Read(NextZone) \/ UNCHANGED <<known, missed>>
  /\ UNCHANGED <<image, inbox, sent, typed, changes>>

ZonesRefreshed ==
  /\ At("zones") /\ NextZone > LastZone
  /\ Goes("touchpad")
  /\ UNCHANGED <<image, known, inbox, missed, sent, typed, changes>>

\* refresh_touchpad(): without it the command ends, with ret still 0.
RefreshTouchpad ==
  /\ At("touchpad")
  /\ \/ Read(Touchpad) /\ Goes("match")
     \/ Goes("ended") /\ UNCHANGED <<known, missed>>
  /\ UNCHANGED <<image, inbox, sent, typed, changes>>

\* dbus_bus_add_match(), dbus_connection_add_filter(), interrupt_trap_begin()
Subscribe ==
  /\ At("match")
  /\ \/ emu' = [emu EXCEPT !.pc = "keys", !.subscribed = TRUE, !.trap = "set"]
     \/ Goes("ended")
  /\ UNCHANGED <<image, known, inbox, missed, sent, typed, changes>>

-----------------------------------------------------------------------------
(* handle_keypresses(), one character after another.                       *)

Waiting == emu.read < typed.count
Next1 == typed.text[emu.read + 1]

\* One character is taken by read(), which blocks until there is one.
Takes1(to) ==
  /\ Waiting
  /\ emu' = [to EXCEPT !.read = emu.read + 1]
  /\ UNCHANGED <<image, known, inbox, missed, typed, changes>>

\* dispatch_keypress() sends its call and waits.
Presses(keys, to) == Takes1([to EXCEPT !.pc = "call"]) /\ sent' = Append(sent, keys)

KeyFor(c) == IF c = "Enter" THEN "#" ELSE c

NoMoreKeys ==
  /\ At("keys") /\ ~ Waiting
  /\ Goes("dispatch")
  /\ UNCHANGED <<image, known, inbox, missed, sent, typed, changes>>

ReadKey ==
  /\ At("keys")
  /\ \/ Waiting /\ Next1 \in {"1", "Enter", "A", "B", "C", "5"} /\ Presses(KeyFor(Next1), emu)
     \/ /\ Waiting /\ Next1 \in {"x", "["}
        /\ Takes1(emu) /\ UNCHANGED sent
     \/ /\ Waiting /\ Next1 = "Esc"
        /\ Takes1([emu EXCEPT !.pc = "escape"]) /\ UNCHANGED sent
     \/ /\ Waiting /\ Next1 = "q"
        /\ Takes1([emu EXCEPT !.pc = "dispatch", !.ret = NORMAL_QUIT]) /\ UNCHANGED sent

\* After ESC: '[' begins a sequence, anything else is swallowed.
ReadEscape ==
  /\ At("escape") /\ Waiting
  /\ Takes1([emu EXCEPT !.pc = IF Next1 = "[" THEN "sequence" ELSE "keys", !.sequence = <<>>])
  /\ UNCHANGED sent

\* Variant: the arrows are told apart by the character that ends the sequence.
ArrowByLast(sequence) ==
  CASE Last(sequence) = "B" -> "[2C]" [] Last(sequence) = "A" -> "[30]" [] OTHER -> "none"

\* keys[2], the first character of the sequence.
Arrow(sequence) ==
  CASE Head(sequence) = "B" -> "[2C]" [] Head(sequence) = "A" -> "[30]" [] OTHER -> "none"

\* A sequence ends with a character from '@' to '~' or a control character.
EndsSequence(c) == c \notin {"1", "5"}

ReadSequence ==
  /\ At("sequence") /\ Waiting
  /\ LET sequence == Append(emu.sequence, Next1)
     IN IF ~ EndsSequence(Next1)
        THEN Takes1([emu EXCEPT !.sequence = sequence]) /\ UNCHANGED sent
        ELSE IF Arrow(sequence) = "none"
        THEN Takes1([emu EXCEPT !.pc = "keys"]) /\ UNCHANGED sent
        ELSE Presses(Arrow(sequence), emu)

\* Any answer will do; an error, or none within the timeout, ends the emulator.
CallReturns ==
  /\ At("call")
  /\ \/ Goes("keys")
     \/ emu' = [emu EXCEPT !.pc = "dispatch", !.ret = 11]
  /\ UNCHANGED <<image, known, inbox, missed, sent, typed, changes>>

-----------------------------------------------------------------------------
(* The rest of a turn: one message is dispatched.                          *)

\* Variant: SIGINT is noted, and nobody looks.
TurnEndsOnRet(e) ==
  IF e.ret = 0 THEN [e EXCEPT !.pc = "keys"]
  ELSE [e EXCEPT !.pc = "ended", !.trap = "broken", !.subscribed = FALSE,
                 !.ret = IF @ = NORMAL_QUIT THEN 0 ELSE @]

\* while (ret == 0 && !interrupt_trap_was_interrupted()); interrupt_trap_end()
\* then installs the address of a variable as the handler, which is no code.
TurnEnds(e) ==
  IF e.ret = 0 /\ ~ e.interrupted THEN [e EXCEPT !.pc = "keys"]
  ELSE [e EXCEPT !.pc = "ended", !.trap = "broken", !.subscribed = FALSE,
                 !.ret = IF @ = NORMAL_QUIT THEN 0 ELSE @]

\* dbus_info_changed_handler()
Dispatch ==
  /\ At("dispatch")
  /\ emu' = TurnEnds(emu)
  /\ IF inbox = <<>> THEN UNCHANGED <<known, inbox>>
     ELSE known' = Updated(Head(inbox).object, Head(inbox).dict) /\ inbox' = Tail(inbox)
  /\ UNCHANGED <<image, missed, sent, typed, changes>>

\* SIGINT: the default action before the loop; then signal_SIGINT(), once.
Interrupt ==
  /\ emu.pc \notin {"off", "ended", "died"}
  /\ ~ emu.interrupted
  /\ emu' = IF emu.trap = "default" THEN [emu EXCEPT !.pc = "died"]
            ELSE [emu EXCEPT !.interrupted = TRUE, !.trap = "broken"]
  /\ UNCHANGED <<image, known, inbox, missed, sent, typed, changes>>

InterruptAgain ==
  /\ emu.pc \notin {"off", "ended", "died"} /\ emu.interrupted
  /\ Goes("died")
  /\ UNCHANGED <<image, known, inbox, missed, sent, typed, changes>>

-----------------------------------------------------------------------------
(* The daemon and the user.                                                *)

\* A field of an object changes: the signal names what changed only.
Announced(o, f) ==
  IF emu.subscribed
  THEN /\ inbox' = Append(inbox, [object |-> o, dict |-> [g \in {f} |-> 1 - image[o][f]]])
       /\ missed' = missed \ {<<o, f>>}
  ELSE inbox' = inbox /\ missed' = missed \union {<<o, f>>}

\* The change of a zone that is inactive is stored only.
Unannounced(o, f) ==
  /\ o \in EmuZones
  /\ inbox' = inbox /\ missed' = missed \union {<<o, f>>}

Changes(o, f) ==
  /\ emu.pc \notin {"off", "ended", "died"}
  /\ changes < MaxChanges
  /\ changes' = changes + 1
  /\ image' = [image EXCEPT ![o][f] = 1 - @]
  /\ Announced(o, f) \/ Unannounced(o, f)
  /\ UNCHANGED <<known, emu, sent, typed>>

Types ==
  /\ typed.count < Len(typed.text)
  /\ emu.pc \notin {"off", "ended", "died"}
  /\ typed' = [typed EXCEPT !.count = @ + 1]
  /\ UNCHANGED <<image, known, inbox, missed, emu, sent, changes>>

EmuStep ==
  \/ RefreshZones \/ ZonesRefreshed \/ RefreshTouchpad \/ Subscribe
  \/ NoMoreKeys \/ ReadKey \/ ReadEscape \/ ReadSequence \/ CallReturns \/ Dispatch

EmuNext ==
  \/ EmuStep
  \/ Interrupt \/ InterruptAgain
  \/ \E o \in Objects : \E f \in Fields(o) : Changes(o, f)
  \/ Types

-----------------------------------------------------------------------------
(* Properties.                                                             *)

\* When no signal waits, the screen shows what the daemon has of the partition
\* and of the zones that could be read, the daemon's last one included; its zone 0
\* is never read, and never shown.  Excepted is what changed between the reading
\* and the subscription or was stored by the daemon and not announced, as long as
\* no later change of it was.  A call that blocks for seconds loses nothing.
ScreenCurrent ==
  emu.subscribed /\ inbox = <<>> =>
    Screen(known) = Screen([o \in Objects |-> [f \in AllFields(o) |->
                      IF <<o, f>> \in missed THEN known[o][f] ELSE image[o][f]]])

\* What a text is to the emulator, by the grammar of its keyboard: keys, arrows,
\* other sequences; an unfinished one is nothing yet.
Key(c) == IF c \in {"x", "[", "q"} THEN <<>> ELSE <<KeyFor(c)>>
ArrowKey(c) == CASE c = "A" -> <<"[30]">> [] c = "B" -> <<"[2C]">> [] OTHER -> <<>>

\* The characters that may end the sequence that begins with the i-th one.
Ends(text, i) == {j \in i + 2 .. Len(text) : EndsSequence(text[j])}
First(ends) == CHOOSE j \in ends : \A k \in ends : j <= k

\* The keys from the i-th character on, if keys[j] are those from the j-th on.
KeysAt(text, keys, i) ==
  IF i > Len(text) THEN <<>>
  ELSE IF text[i] # "Esc" THEN Key(text[i]) \o keys[i + 1]
  ELSE IF i = Len(text) THEN <<>>
  ELSE IF text[i + 1] # "[" THEN keys[i + 2]
  ELSE IF Ends(text, i) = {} THEN <<>>
  ELSE LET end == First(Ends(text, i))
       IN (IF end = i + 2 THEN ArrowKey(text[end]) ELSE <<>>) \o keys[end + 1]

KeysFrom(text) == LET keys[i \in 1 .. Len(text) + 1] == KeysAt(text, keys, i) IN keys
KeysIn(text) == KeysFrom(text)[1]

\* The keys that were typed are sent, each once and in order, whatever arrives
\* in pieces and whatever is signalled meanwhile; a longer sequence that contains
\* the letter of an arrow is no arrow.
KeysInOrder == sent = KeysIn(SubSeq(typed.text, 1, emu.read))

\* Once interrupted or told to quit the emulator ends, unless it waits for the
\* rest of an escape sequence.
KeypadEnds ==
  (emu.interrupted \/ emu.ret = NORMAL_QUIT) ~>
    (emu.pc \in {"ended", "died"} \/ (emu.pc \in {"escape", "sequence"} /\ ~ Waiting))
=============================================================================
