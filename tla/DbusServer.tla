------------------------------ MODULE DbusServer ------------------------------
(***************************************************************************)
(* The D-Bus side of the daemon, src/concordd/concordd-dbus-server.c, on   *)
(* top of the outgoing queue (GeQueue): a method call is routed by name    *)
(* and path to its handler, which asks concordd.c; a request that becomes  *)
(* a message for the panel leaves a callback helper behind, which sends    *)
(* the reply when the queue is done with the message.                      *)
(*                                                                         *)
(* What concordd.c says to a request depends on its image of the panel     *)
(* (module PanelImage); here it is any of the answers it has for it.  The  *)
(* callers are the concordctl tools, which wait for their reply for a time.*)
(***************************************************************************)
EXTENDS GeQueue

CONSTANTS
  CallsMade,   \* the calls clients make: [method, path, there]
  MaxLoad      \* bound on the calls and messages under way

VARIABLES
  bus,         \* callers whose call the daemon has yet to dispatch
  call,        \* caller -> the call it made
  helper,      \* caller -> its callback helper: "none" (freed as well), "held", "misused"
  outcome,     \* caller -> "idle", "waiting", "OK" or "failed": the tool's exit status
  granted      \* history: callers told OK without a message (ALREADY, or asked to know)

clients == <<bus, call, helper, outcome, granted>>

NoCall == [method |-> "none", path |-> "none", there |-> FALSE]

DbusInit ==
  /\ bus = {}
  /\ call = [r \in Watched |-> NoCall]
  /\ helper = [r \in Watched |-> "none"]
  /\ outcome = [r \in Watched |-> "idle"]
  /\ granted = {}

-----------------------------------------------------------------------------
(* Routing.                                                                *)

\* The path of a light is one of its partition too.
IsPartition(path) == path \in {"partition", "light"}

GetInfoHandlers ==
  [output |-> "output_get_info", zone |-> "zone_get_info", light |-> "light_get_info",
   partition |-> "partition_get_info", root |-> "system_get_info"]

\* dbus_message_handler(): methods it names but does not handle, or not on this
\* path, are left to libdbus, which answers with an error.
Route(method, path) ==
  CASE method = "get_partitions" /\ path = "root" -> "get_partitions"
    [] method = "set_arm_level" /\ IsPartition(path) -> "set_arm_level"
    [] method = "press_keys" /\ IsPartition(path) -> "press_keys"
    [] method = "set_value" /\ path = "output" -> "set_output"
    [] method = "set_value" /\ path = "light" -> "set_light"
    [] method = "set_bypassed" /\ path = "zone" -> "set_bypassed"
    [] method = "get_info" /\ path \in DOMAIN GetInfoHandlers -> GetInfoHandlers[path]
    [] method = "refresh" /\ path = "root" -> "refresh"
    [] OTHER -> "unhandled"

\* What concordd_set_light() and its like may answer.
Verdicts(handler) ==
  CASE handler = "set_arm_level" -> {"OK", "INVALID_ARGUMENT", "FORBIDDEN", "ALREADY", "ERROR"}
    [] handler = "set_light" -> {"OK", "WAIT", "INVALID_ARGUMENT", "ERROR"}
    [] handler = "set_output" -> {"OK", "WAIT", "INVALID_ARGUMENT", "ALREADY", "ERROR"}
    [] handler = "set_bypassed" -> {"OK", "WAIT", "INVALID_ARGUMENT", "ALREADY", "ERROR"}
    [] handler = "press_keys" -> {"OK", "ERROR"}
    [] handler = "refresh" -> {"OK"}
    [] OTHER -> {}

\* Handlers that look the object up and leave the call alone when it is not
\* there; the others let concordd.c refuse it.
NeedsObject(handler) ==
  handler \in {"set_light", "set_output", "light_get_info", "output_get_info",
               "zone_get_info", "partition_get_info"}

-----------------------------------------------------------------------------
(* Callback helpers and replies.                                           *)

\* concordd_dbus_callback_helper() reads the helper and frees it.
Used(h) == IF h = "held" THEN "none" ELSE "misused"

\* The caller hears the first reply to its call, if it still waits; all that its
\* exit status tells apart here is 0 from the rest.
Heard(before, status) ==
  IF before # "waiting" THEN before ELSE IF status = "OK" THEN "OK" ELSE "failed"

\* The finished() callbacks that ran in this step, for messages of the queue.
CallbacksRun == {r \in Watched : calls'[r] # calls[r]}

SendReplies ==
  /\ helper' = [r \in Watched |-> IF r \in CallbacksRun THEN Used(helper[r]) ELSE helper[r]]
  /\ outcome' = [r \in Watched |->
       IF r \in CallbacksRun THEN Heard(outcome[r], result'[r]) ELSE outcome[r]]
  /\ UNCHANGED <<bus, call, granted>>

-----------------------------------------------------------------------------
(* Dispatching a call: the whole handler.                                  *)

QueueIsFull == Count = QueueSize - 1

\* A handler that answers without the queue: get_info and get_partitions, a
\* call that is not handled, a request that is refused or granted already.
AnswerAtOnce(r, status) ==
  /\ outcome' = [outcome EXCEPT ![r] = Heard(@, status)]
  /\ UNCHANGED vars

\* Variant: the handler replies whatever the status is.
RepliesAlways(status) == TRUE

\* "if (status < 0)": the handler replies itself and frees the helper.
RepliesItself(status) == status # "OK"

\* ALREADY is passed on as OK, except by press_keys and refresh, which never
\* come to it.
Passed(status) == IF status = "ALREADY" THEN "OK" ELSE status

Refused(r, status) ==
  /\ AnswerAtOnce(r, Passed(status))
  /\ UNCHANGED helper
  /\ granted' = IF status = "ALREADY" THEN granted \union {r} ELSE granted

\* concordd_press_keys() or concordd_refresh() has put its message into the
\* queue; on a full ring that is an error all the same.
Queued(r) ==
  LET status == IF QueueIsFull THEN "QUEUE_FULL" ELSE "OK"
      held   == [helper EXCEPT ![r] = "held"]
      \* The callbacks that ran while the message was queued, and the reply of the handler.
      used   == CallbacksRun \union (IF RepliesItself(status) THEN {r} ELSE {})
  IN /\ QueueMessage(r)
     /\ helper' = [c \in Watched |-> IF c \in used THEN Used(held[c]) ELSE held[c]]
     /\ outcome' = [c \in Watched |->
          IF c \in CallbacksRun THEN Heard(outcome[c], result'[c])
          ELSE IF c = r /\ RepliesItself(status) THEN Heard(outcome[c], status)
          ELSE outcome[c]]
     /\ UNCHANGED granted

DispatchCall(r) ==
  LET handler == Route(call[r].method, call[r].path)
      answered == handler = "unhandled" \/ (NeedsObject(handler) /\ ~ call[r].there)
  IN /\ r \in bus
     /\ bus' = bus \ {r}
     /\ call' = [call EXCEPT ![r] = NoCall]
     /\ \/ /\ answered
           /\ AnswerAtOnce(r, "UNKNOWN_METHOD")
           /\ UNCHANGED <<helper, granted>>
        \/ /\ ~ answered /\ Verdicts(handler) = {}
           /\ AnswerAtOnce(r, "OK")
           /\ granted' = granted \union {r}
           /\ UNCHANGED helper
        \/ /\ ~ answered
           /\ \E verdict \in Verdicts(handler) \ {"OK"} : Refused(r, verdict)
        \/ /\ ~ answered /\ "OK" \in Verdicts(handler)
           /\ Queued(r)

-----------------------------------------------------------------------------
(* The callers.                                                            *)

\* Calls and messages under way.
Load == Cardinality(bus) + Count

ToolCalls(r, c) ==
  /\ outcome[r] = "idle"
  /\ Load < MaxLoad
  /\ call' = [call EXCEPT ![r] = c]
  /\ bus' = bus \union {r}
  /\ outcome' = [outcome EXCEPT ![r] = "waiting"]
  /\ UNCHANGED <<helper, granted, vars>>

\* dbus_connection_send_with_reply_and_block() gives up after its timeout: the
\* tool ends, its call does not.
ToolGivesUp(r) ==
  /\ outcome[r] = "waiting"
  /\ outcome' = [outcome EXCEPT ![r] = "failed"]
  /\ UNCHANGED <<bus, call, helper, granted, vars>>

-----------------------------------------------------------------------------
(* Properties.                                                             *)

\* No callback runs on a helper that is freed or was never made: for each call
\* either the handler replies or the queue does, once.
HelperAlive == \A r \in Watched : helper[r] # "misused"

\* A tool that exits with status 0 was told the truth: the panel has obeyed the
\* message of this very call, or there was nothing to do.  The statuses go
\* through two queues and a cast of a callback context on their way.
TruthfulExit ==
  \A r \in Watched : outcome[r] = "OK" => r \in executed \union granted
=============================================================================
