-------------------------------- MODULE Daemon --------------------------------
(***************************************************************************)
(* concordd as a process: src/concordd/main.c from its start (Startup)     *)
(* through its loop, which feeds the panel's bytes to the link, dispatches *)
(* D-Bus calls (DbusServer) and keeps the queue going (GeQueue), to its    *)
(* end.  One turn of the loop is five steps, and bytes, calls and signals  *)
(* arrive between any two of them.                                         *)
(*                                                                         *)
(* The panel, the callers and the clock are the environment.               *)
(***************************************************************************)
EXTENDS DbusServer, Startup, SequencesExt

CONSTANTS
  MaxBytes,     \* bound on the bytes waiting at the port
  ZeroLimit,    \* 1000: turns in a row with a zero timeout before main() gives up
  CutFrames,    \* may the panel stop in the middle of a frame?
  ReadFaults,   \* may read() fail?
  BusStalls     \* may the bus leave off taking what the daemon sends?

ASSUME LoopAssumption ==
  /\ MaxBytes \in Nat /\ MaxBytes > 0 /\ ZeroLimit \in Nat /\ ZeroLimit > 0
  /\ CutFrames \in BOOLEAN /\ ReadFaults \in BOOLEAN /\ BusStalls \in BOOLEAN

VARIABLES
  inbox,    \* bytes the panel sent and main() has not read
  zeroes,   \* zero_cms_in_a_row_count
  unsent    \* dbus_connection_has_messages_to_send()

dvars == <<vars, clients, startup, inbox, zeroes, unsent>>

DaemonInit ==
  /\ Init /\ DbusInit /\ StartupInit
  /\ inbox = <<>>
  /\ zeroes = 0
  /\ unsent = FALSE

Running == phase \in {"loop", "masks", "select", "read", "dispatch", "process"}

\* A step that leaves the queue and the clients alone.
StartupOnly == UNCHANGED <<vars, clients, inbox, zeroes, unsent>>

-----------------------------------------------------------------------------
(* Getting there.                                                          *)

\* Whoever waits for a daemon that ends is told so by the bus.
BusDrops ==
  /\ bus' = {}
  /\ outcome' = [r \in Watched |-> IF outcome[r] = "waiting" THEN "failed" ELSE outcome[r]]
  /\ UNCHANGED <<call, helper, granted>>

Starts ==
  /\ StartupStep
  /\ UNCHANGED <<vars, inbox, zeroes, unsent>>
  /\ IF phase' \in Ended THEN BusDrops ELSE UNCHANGED clients

\* What main() never looks at again.
Kept(s) == [key \in DOMAIN s |-> IF key = "PIDFile" THEN s[key] ELSE NULL]

\* concordd_refresh() without a callback, before the loop; a signal that came
\* by now is forgotten with gRet.
FirstRefresh ==
  /\ phase = "refresh"
  /\ \E r \in Requests \ Watched : QueueMessage(r)
  /\ phase' = "loop"
  /\ gRet' = "0"
  /\ given' = Forgotten
  /\ settings' = Kept(settings)
  /\ UNCHANGED <<clients, taken, armed, cred, pidfile, inbox, zeroes, unsent>>

SignalArrives ==
  /\ \E s \in Signals : Signal(s)
  /\ UNCHANGED <<vars, inbox, zeroes, unsent>>
  /\ IF phase' \in Ended THEN BusDrops ELSE UNCHANGED clients

-----------------------------------------------------------------------------
(* The loop.                                                               *)

\* Variant: a select() that may block is entered with gRet cleared.
AtAfresh(here, next) ==
  /\ phase = here
  /\ phase' = next
  /\ gRet' = IF here = "masks" /\ zeroes = 0 THEN "0" ELSE gRet
  /\ UNCHANGED <<settings, taken, armed, cred, pidfile, given>>

At(here, next) ==
  /\ phase = here
  /\ phase' = next
  /\ UNCHANGED <<gRet, settings, taken, armed, cred, pidfile, given>>

Bails(ret) == ExitWith(ret) /\ BusDrops /\ UNCHANGED <<vars, inbox, zeroes, unsent>>

\* Variant: no waiting for an answer that is on its way.
TimeoutIsZeroEager == last_response # "ACK"

\* concordd_get_timeout_cms() is 0.
TimeoutIsZero == last_response = "NAK"

\* concordd_dbus_server_update_fd_set() sets it to 0: for messages the bus has not
\* taken, and maybe for calls, which libdbus may have read already.
BusHurries == IF unsent THEN {TRUE} ELSE IF bus # {} THEN BOOLEAN ELSE {FALSE}

\* The condition of the loop, and the timeout of this turn.
LoopTop ==
  \/ phase = "loop" /\ gRet # "0" /\ Bails(gRet)
  \/ /\ phase = "loop" /\ gRet = "0"
     /\ \E hurries \in BusHurries :
          /\ zeroes' = IF TimeoutIsZero \/ hurries THEN zeroes + 1 ELSE 0
          /\ gRet' = IF zeroes' = ZeroLimit THEN "FAIL" ELSE gRet
     /\ phase' = "masks"
     /\ UNCHANGED <<settings, taken, armed, cred, pidfile, given, vars, clients, inbox, unsent>>

EnterSelect == At("masks", "select") /\ StartupOnly

\* The port is watched for room to write when a message may be sent.
PortWritable == head # tail /\ ~ reading_message /\ ReadyToSend(last_response) # "WAIT"

\* select() returns: bytes, calls, room to write, or the timeout, which is a
\* second while an answer is awaited, and far away after an ACK.
SelectReturns ==
  /\ inbox # <<>> \/ bus # {} \/ PortWritable \/ zeroes > 0 \/ last_response = "none"
  /\ At("select", IF inbox # <<>> THEN "read" ELSE "dispatch")
  /\ StartupOnly

\* What libdbus writes goes to the bus, or waits until the bus takes more; it
\* writes when something is sent, and when the loop dispatches.
Writes(sends) ==
  unsent' \in IF ~ sends THEN {unsent} ELSE IF BusStalls THEN BOOLEAN ELSE {FALSE}

\* One byte of what read() returned, for ge_rs232_receive_byte(): "END" is the
\* byte that completes a frame, "COMPLETE" one that completes the equipment list,
\* whose handler queues the second request of a refresh.
TakesByte(byte) ==
  \/ /\ byte \in {"ACK", "NAK"}
     /\ ReceiveResponse(byte)
     /\ SendReplies
     /\ UNCHANGED <<tail, queue, expired, reading_message, wire, submitted, executed>>
  \/ /\ byte = "START"
     /\ StartFrame
     /\ UNCHANGED clients
  \/ /\ byte = "END" /\ reading_message
     /\ EndFrame
     /\ UNCHANGED clients
  \/ /\ byte = "COMPLETE" /\ reading_message
     /\ \E r \in Requests \ Watched : Enqueue(r)
     /\ reading_message' = FALSE
     /\ SendReplies
  \/ /\ byte \in {"END", "COMPLETE"} /\ ~ reading_message
     /\ UNCHANGED <<vars, clients>>

ReadPort ==
  /\ phase = "read"
  /\ inbox' = Tail(inbox)
  /\ TakesByte(Head(inbox))
  \* A reply, or the signals of a frame.
  /\ Writes(CallbacksRun # {} \/ Head(inbox) = "END")
  /\ phase' = IF Tail(inbox) = <<>> THEN "dispatch" ELSE "read"
  /\ UNCHANGED <<gRet, settings, taken, armed, cred, pidfile, given, zeroes>>

\* read() fails once select() has returned: main() bails out, with whatever is in
\* gRet, which is 0.
ReadFails == ReadFaults /\ phase = "select" /\ Bails(gRet)

\* dbus_connection_read_write_dispatch(): one call at most.
Dispatch ==
  /\ At("dispatch", "process")
  /\ \/ bus = {} /\ UNCHANGED <<vars, clients>> /\ Writes(unsent)
     \/ \E r \in bus :
          /\ DispatchCall(r)
          /\ Writes(unsent \/ CallbacksRun # {} \/ helper'[r] # "held")
  /\ UNCHANGED <<inbox, zeroes>>

\* concordd_process(): what ge_queue_update() says is ignored.
ProcessQueue ==
  /\ At("process", "loop")
  /\ IF reading_message THEN UNCHANGED <<vars, clients>> ELSE Process /\ SendReplies
  /\ Writes(CallbacksRun # {})
  /\ UNCHANGED <<inbox, zeroes>>

-----------------------------------------------------------------------------
(* The panel, the line, the clock.                                         *)

Arrives(byte) ==
  /\ Running /\ Len(inbox) < MaxBytes
  /\ inbox' = Append(inbox, byte)
  /\ UNCHANGED <<clients, startup, zeroes, unsent>>

\* The panel obeys or refuses a message, and says so.
PanelResponds(r, resp) ==
  /\ r \in wire
  /\ Arrives(resp)
  /\ wire' = wire \ {r}
  /\ executed' = IF resp = "ACK" THEN executed \union {r} ELSE executed
  /\ UNCHANGED <<ring, link, reading_message, submitted, told>>

\* Is the panel in the middle of a frame, the bytes under way included?
InFrame ==
  LET marks == SelectSeq(inbox, LAMBDA b : b \notin {"ACK", "NAK"})
  IN IF marks = <<>> THEN reading_message ELSE Last(marks) = "START"

PanelStartsFrame ==
  /\ CutFrames \/ ~ InFrame
  /\ Arrives("START")
  /\ UNCHANGED vars

PanelEndsFrame ==
  /\ InFrame
  /\ Arrives("END")
  /\ UNCHANGED vars

PanelListsEquipment ==
  /\ InFrame /\ Load < MaxLoad
  /\ \E r \in Requests \ Watched : r \notin submitted
  /\ Arrives("COMPLETE")
  /\ UNCHANGED vars

LineLoses(r) == Running /\ Lose(r) /\ UNCHANGED <<clients, startup, inbox, zeroes, unsent>>

\* The panel is in time, and main() reads what it said in time.
SecondPasses ==
  /\ Running
  /\ \A i \in DOMAIN inbox : inbox[i] \notin {"ACK", "NAK"}
  /\ Expire
  /\ UNCHANGED <<clients, startup, inbox, zeroes, unsent>>

-----------------------------------------------------------------------------
Client ==
  /\ \/ \E r \in Watched, c \in CallsMade : Running /\ ToolCalls(r, c)
     \/ \E r \in Watched : ToolGivesUp(r)
  /\ UNCHANGED <<startup, inbox, zeroes, unsent>>

Main ==
  \/ Starts
  \/ FirstRefresh
  \/ LoopTop
  \/ EnterSelect
  \/ SelectReturns
  \/ ReadPort
  \/ Dispatch
  \/ ProcessQueue

PanelTalks == PanelStartsFrame \/ PanelEndsFrame \/ PanelListsEquipment

DaemonNext ==
  \/ Main
  \/ ReadFails
  \/ SignalArrives
  \/ Client
  \/ \E r \in Requests, resp \in {"ACK", "NAK"} : PanelResponds(r, resp)
  \/ PanelTalks
  \/ \E r \in Requests : LineLoses(r)
  \/ SecondPasses

DaemonSpec == DaemonInit /\ [][DaemonNext]_dvars

\* main() goes on as long as select() returns; time passes; a transmission is
\* answered or lost.  A frame that the panel has started need never end.
DaemonFairness ==
  /\ WF_dvars(Main)
  /\ WF_dvars(SecondPasses)
  /\ SF_dvars(\E r \in Requests : \/ LineLoses(r)
                                  \/ \E resp \in {"ACK", "NAK"} : PanelResponds(r, resp))

DaemonFairSpec == DaemonSpec /\ DaemonFairness

-----------------------------------------------------------------------------
(* Properties.                                                             *)

\* A call that a callback helper was made for is answered, also if the panel says
\* no more, or the daemon ends first; provided concordd_process() finds the link
\* between two frames again and again: it is not called within one, which has no
\* timeout, so that one frame cut off for good holds every call.
EveryCallEnds ==
  []<>(phase = "process" /\ ~ reading_message) =>
    \A r \in Watched : helper[r] = "held" ~> helper[r] # "held" \/ phase \in Ended

\* A signal that comes while the loop runs ends the daemon, also one that comes
\* between the loop's condition and select(), provided the panel talks: "gRet
\* will be set and we will break out of the main loop in a moment."
\* (main.c:1150-1152)
SignalEnds ==
  []<>(inbox # <<>>) => (Running /\ gRet # "0" ~> phase \in Ended)

\* main() gives up by itself, "Main loop had over 1000 iterations in a row with
\* a zero timeout", only when the bus does not take what the daemon sends, or calls
\* come in as fast as it dispatches them, or else when the panel has refused a
\* message, and either that was the last attempt of the last one or a frame of the
\* panel keeps the next attempt from being made.
GivesUpAfterNak ==
  phase = "masks" /\ zeroes = ZeroLimit /\ bus = {} /\ ~ unsent =>
    last_response = "NAK" /\ (head = tail \/ reading_message)
=============================================================================
