---------------------------- MODULE DaemonProofs -----------------------------
(***************************************************************************)
(* What concordd guarantees as a process, for any number of callers, any   *)
(* ring and any panel: the invariants of the queue hold under the turns of *)
(* the main loop as well, and with them those of the D-Bus server.         *)
(***************************************************************************)
EXTENDS Daemon, GeQueueProofs

-----------------------------------------------------------------------------
(* What a step of the daemon is to the queue.                              *)

\* The types of the clients' side.
DbusType ==
  /\ bus \subseteq Watched
  /\ helper \in [Watched -> {"none", "held", "misused"}]
  /\ outcome \in [Watched -> {"idle", "waiting", "OK", "failed"}]

\* A response byte that main() has read.
TakesAnswer(resp) ==
  ReceiveResponse(resp) /\ UNCHANGED <<tail, queue, expired, wire, submitted, executed>>

\* The panel has obeyed or refused a message, and its answer is under way.
Obeys(r, resp) ==
  /\ r \in wire
  /\ wire' = wire \ {r}
  /\ executed' = IF resp = "ACK" THEN executed \union {r} ELSE executed
  /\ UNCHANGED <<ring, link, submitted, told>>

\* The bytes that begin or end a frame.
MovesFrame == UNCHANGED <<ring, link, wire, submitted, executed, told>>

\* Every step of the daemon is one of these to the queue.
LEMMA QueueStep ==
  ASSUME TypeOK, DbusType, [DaemonNext]_dvars
  PROVE  /\ reading_message' \in BOOLEAN
         /\ \/ MovesFrame
            \/ \E r \in Requests : Enqueue(r)
            \/ Process
            \/ \E resp \in {"ACK", "NAK"} : ReadPort /\ Head(inbox) = resp /\ TakesAnswer(resp)
            \/ \E r \in Requests, resp \in {"ACK", "NAK"} : PanelResponds(r, resp) /\ Obeys(r, resp)
            \/ \E r \in Requests : Lose(r)
            \/ SecondPasses /\ Expire
<1>1. CASE UNCHANGED vars
  BY <1>1 DEF vars, MovesFrame, TypeOK
<1>2. CASE Starts \/ LoopTop \/ EnterSelect \/ SelectReturns \/ ReadFails \/ SignalArrives \/ PanelTalks
  BY <1>1, <1>2 DEF Starts, LoopTop, Bails, EnterSelect, SelectReturns, StartupOnly, ReadFails,
                    SignalArrives, PanelTalks, PanelStartsFrame, PanelEndsFrame, PanelListsEquipment
<1>3. CASE FirstRefresh
  <2>1. PICK r \in Requests : QueueMessage(r)
    BY <1>3 DEF FirstRefresh
  <2>2. QED BY <2>1 DEF QueueMessage, TypeOK
<1>4. CASE ReadPort
  <2>1. TakesByte(Head(inbox))
    BY <1>4 DEF ReadPort
  <2>2. QED
    BY <1>1, <1>4, <2>1 DEF TakesByte, TakesAnswer, StartFrame, EndFrame, MovesFrame, TypeOK
<1>5. CASE Dispatch
  <2>1. UNCHANGED vars \/ \E r \in bus : DispatchCall(r)
    BY <1>5 DEF Dispatch
  <2>2. UNCHANGED vars \/ \E r \in bus : QueueMessage(r)
    BY <2>1 DEF DispatchCall, AnswerAtOnce, Refused, Queued
  <2>3. bus \subseteq Requests
    BY IdentitiesAssumption DEF DbusType
  <2>4. QED BY <1>1, <2>2, <2>3 DEF QueueMessage, TypeOK
<1>6. CASE ProcessQueue
  BY <1>1, <1>6 DEF ProcessQueue, Process, TypeOK
<1>7. ASSUME NEW r \in Requests, NEW resp \in {"ACK", "NAK"}, PanelResponds(r, resp)
      PROVE  Obeys(r, resp) /\ reading_message' = reading_message
  BY <1>7 DEF PanelResponds, Obeys
<1>8. ASSUME NEW r \in Requests, LineLoses(r) PROVE Lose(r) /\ reading_message' = reading_message
  BY <1>8 DEF LineLoses, Lose
<1>9. CASE SecondPasses
  BY <1>9 DEF SecondPasses, Expire, TypeOK
<1>10. CASE Client
  BY <1>1, <1>10 DEF Client, ToolCalls, ToolGivesUp
<1>11. CASE UNCHANGED dvars
  BY <1>1, <1>11 DEF dvars
<1>12. QED
  BY <1>2, <1>3, <1>4, <1>5, <1>6, <1>7, <1>8, <1>9, <1>10, <1>11 DEF DaemonNext, Main, TypeOK

-----------------------------------------------------------------------------
(* Type correctness and delivery under the turns of the loop.              *)

\* The clients' side keeps its types.
LEMMA DbusTypeStep ==
  ASSUME DbusType, [DaemonNext]_dvars PROVE DbusType'
<1>1. CASE UNCHANGED <<bus, helper, outcome>>
  BY <1>1 DEF DbusType
<1>2. CASE BusDrops
  BY <1>2 DEF BusDrops, DbusType
<1>3. CASE SendReplies
  BY <1>3 DEF SendReplies, Heard, Used, DbusType
<1>4. CASE Starts \/ FirstRefresh \/ LoopTop \/ EnterSelect \/ SelectReturns \/ ReadFails \/ SignalArrives
           \/ PanelTalks \/ SecondPasses \/ UNCHANGED dvars
           \/ \E r \in Requests : LineLoses(r) \/ \E resp \in {"ACK", "NAK"} : PanelResponds(r, resp)
  BY <1>1, <1>2, <1>4
     DEF Starts, FirstRefresh, LoopTop, Bails, EnterSelect, SelectReturns, StartupOnly, ReadFails,
         SignalArrives, PanelTalks, PanelStartsFrame, PanelEndsFrame, PanelListsEquipment, Arrives,
         SecondPasses, LineLoses, PanelResponds, dvars, clients
<1>5. CASE ReadPort \/ ProcessQueue
  BY <1>1, <1>3, <1>5 DEF ReadPort, TakesByte, ProcessQueue, clients
<1>6. ASSUME NEW r \in bus, DispatchCall(r) PROVE DbusType'
  <2>1. bus' \subseteq Watched
    BY <1>6 DEF DispatchCall, DbusType
  <2>2. ASSUME NEW status, AnswerAtOnce(r, status) PROVE outcome' \in [Watched -> {"idle", "waiting", "OK", "failed"}]
    BY <2>2 DEF AnswerAtOnce, Heard, DbusType
  <2>3. CASE Queued(r)
    BY <2>1, <2>3 DEF Queued, Heard, Used, DbusType
  <2>4. QED
    BY <1>6, <2>1, <2>2, <2>3 DEF DispatchCall, Refused, DbusType
<1>7. CASE Dispatch
  BY <1>1, <1>6, <1>7 DEF Dispatch, clients
<1>8. CASE Client
  BY <1>8 DEF Client, ToolCalls, ToolGivesUp, DbusType
<1>9. QED
  BY <1>4, <1>5, <1>7, <1>8 DEF DaemonNext, Main

\* Every variable of the queue keeps its type under the main loop, too.
THEOREM DaemonTypes == DaemonSpec => [](TypeOK /\ DbusType)
<1>1. DaemonInit => TypeOK /\ DbusType
  BY InitType DEF DaemonInit, DbusInit, DbusType
<1>2. TypeOK /\ DbusType /\ [DaemonNext]_dvars => TypeOK'
  <2> SUFFICES ASSUME TypeOK, DbusType, [DaemonNext]_dvars PROVE TypeOK'
    OBVIOUS
  <2>1. reading_message' \in BOOLEAN
    BY QueueStep
  <2>2. CASE MovesFrame
    BY <2>1, <2>2 DEF MovesFrame, TypeOK, ring, link, told
  <2>3. ASSUME NEW r \in Requests, Enqueue(r) PROVE TypeOK'
    BY <2>1, <2>3, EnqueueType
  <2>4. CASE Process
    BY <2>4, UpdateType DEF Process, TypeOK
  <2>5. ASSUME NEW resp \in {"ACK", "NAK"}, TakesAnswer(resp) PROVE TypeOK'
    BY <2>1, <2>5, ReceiveType DEF TakesAnswer, TypeOK
  <2>6. ASSUME NEW r \in Requests, NEW resp \in {"ACK", "NAK"}, Obeys(r, resp) PROVE TypeOK'
    BY <2>1, <2>6 DEF Obeys, TypeOK, ring, link, told
  <2>7. ASSUME NEW r \in Requests, Lose(r) PROVE TypeOK'
    BY <2>7 DEF Lose, TypeOK, ring, link, told
  <2>8. CASE Expire
    BY <2>8 DEF Expire, TypeOK, ring, told
  <2>9. QED BY <2>2, <2>3, <2>4, <2>5, <2>6, <2>7, <2>8, QueueStep
<1>3. QED BY <1>1, <1>2, DbusTypeStep, PTL DEF DaemonSpec

\* The invariant behind the order and the number of the replies holds while D-Bus
\* calls, panel frames and turns of the loop take their turns at the queue.
THEOREM DaemonDelivery ==
  ASSUME MaxPending < QueueSize, ~ LastTimeouts
  PROVE  DaemonSpec => []DeliveryInv
<1>1. DaemonInit => DeliveryInv
  BY InitDelivery DEF DaemonInit
<1>2. TypeOK /\ DbusType /\ DeliveryInv /\ [DaemonNext]_dvars => DeliveryInv'
  <2> SUFFICES ASSUME TypeOK, DbusType, DeliveryInv, [DaemonNext]_dvars PROVE DeliveryInv'
    OBVIOUS
  <2>1. CASE MovesFrame \/ \E r \in Requests : Lose(r) \/ \E resp \in {"ACK", "NAK"} : Obeys(r, resp)
    BY <2>1 DEF MovesFrame, Obeys, Lose, DeliveryInv, ring, link, told
  <2>2. ASSUME NEW r \in Requests, Enqueue(r) PROVE DeliveryInv'
    BY <2>2, EnqueueDelivery
  <2>3. CASE Process
    BY <2>3, ProcessDelivery
  <2>4. ASSUME NEW resp \in {"ACK", "NAK"}, TakesAnswer(resp) PROVE DeliveryInv'
    BY <2>4, ReceiveDelivery DEF TakesAnswer
  <2>5. CASE Expire
    BY <2>5, ExpireDelivery
  <2>6. QED BY <2>1, <2>2, <2>3, <2>4, <2>5, QueueStep
<1>3. QED BY <1>1, <1>2, DaemonTypes, PTL DEF DaemonSpec

\* A call that was made into a message and not answered yet is still in the ring.
THEOREM DaemonRemembers ==
  ASSUME MaxPending < QueueSize, ~ LastTimeouts
  PROVE  DaemonSpec => []NothingForgotten
<1>1. DeliveryInv => NothingForgotten
  BY DEF DeliveryInv, RingOK, NothingForgotten
<1>2. QED BY <1>1, DaemonDelivery, PTL

\* The daemon as a whole implements CommandService: whatever its loop does in
\* between, messages are told in the order they were queued, each once.
THEOREM DaemonServes ==
  ASSUME MaxPending < QueueSize, ~ LastTimeouts
  PROVE  DaemonSpec => ImplementsService
<1>1. DaemonInit => Service!Init
  BY InitImplements DEF DaemonInit
<1>2. TypeOK /\ DbusType /\ DeliveryInv /\ [DaemonNext]_dvars => [Service!Next]_Service!vars
  <2> SUFFICES ASSUME TypeOK, DbusType, DeliveryInv, [DaemonNext]_dvars
               PROVE  [Service!Next]_Service!vars
    OBVIOUS
  <2>1. CASE UNCHANGED <<ring, submitted, told>>
    BY <2>1, PendingIsLine DEF Service!vars, ring, told
  <2>2. ASSUME NEW r \in Requests, Enqueue(r) PROVE Service!Next
    BY <2>2, EnqueueImplements
  <2>3. CASE Process
    BY <2>3, ProcessImplements
  <2>4. ASSUME NEW resp \in {"ACK", "NAK"}, TakesAnswer(resp)
        PROVE  [Service!Next]_Service!vars
    BY <2>4, ReceiveImplements DEF TakesAnswer
  <2>5. QED
    BY <2>1, <2>2, <2>3, <2>4, QueueStep DEF MovesFrame, Obeys, Lose, Expire
<1>3. QED
  BY <1>1, <1>2, DaemonTypes, DaemonDelivery, PTL DEF DaemonSpec, ImplementsService, Service!Spec

-----------------------------------------------------------------------------
(* Callback helpers.                                                       *)

\* A message that is still to be told has its helper, and none is misused.
Accounted ==
  \A r \in Watched :
    /\ helper[r] # "misused"
    /\ r \in submitted /\ calls[r] = 0 => helper[r] = "held"

\* Before its loop the daemon has sent nothing.
Starting ==
  phase \in {"options", "config", "overrides", "chroot", "user", "ids", "socket", "dbus", "refresh"}

Untouched == Starting => last_response = "ACK"

\* It sends nothing while it starts up.
LEMMA UntouchedStep == ASSUME Untouched, [DaemonNext]_dvars PROVE Untouched'
<1>1. CASE UNCHANGED <<phase, last_response>>
  BY <1>1 DEF Untouched, Starting
<1>2. CASE ~ Starting'
  BY <1>2 DEF Untouched
<1>3. CASE Starts \/ SignalArrives
  BY <1>3
     DEF Starts, SignalArrives, Signal, Dies, StartupStep, ParseOptions, LoadConfigFile, ApplyOptions,
         ChangeRoot, LookUpUser, DropPrivileges, OpenSocket, StartDbus, ExitWith, Goes, vars, link,
         Untouched, Starting
<1>4. CASE FirstRefresh \/ LoopTop \/ EnterSelect \/ SelectReturns \/ ReadPort \/ ReadFails
           \/ Dispatch \/ ProcessQueue
  BY <1>2, <1>4
     DEF FirstRefresh, LoopTop, EnterSelect, SelectReturns, ReadPort, ReadFails, Dispatch, ProcessQueue,
         At, Bails, ExitWith, Starting
<1>5. CASE Client \/ PanelTalks \/ SecondPasses \/ UNCHANGED dvars
           \/ \E r \in Requests : LineLoses(r) \/ \E resp \in {"ACK", "NAK"} : PanelResponds(r, resp)
  BY <1>1, <1>5
     DEF Client, ToolCalls, ToolGivesUp, PanelTalks, PanelStartsFrame, PanelEndsFrame,
         PanelListsEquipment, Arrives, SecondPasses, Expire, LineLoses, Lose, PanelResponds,
         dvars, startup, vars, link
<1>6. QED BY <1>3, <1>4, <1>5 DEF DaemonNext, Main

\* In a step that tells one message, the status it was told with goes to it alone.
Tells(q, status) == q \in Requests /\ calls[q] = 0 /\ CallFinished(q, status)

TellsNone == UNCHANGED <<calls, result>>

\* A callback that runs is that of the request told, and of no other.
LEMMA TellsOne ==
  ASSUME TypeOK, NEW q, NEW status, Tells(q, status)
  PROVE  /\ CallbacksRun = {q} \intersect Watched
         /\ \A r \in Requests : r \notin CallbacksRun => calls'[r] = calls[r]
         /\ \A r \in CallbacksRun : calls'[r] = 1 /\ result'[r] = status
BY IdentitiesAssumption DEF Tells, CallFinished, CallbacksRun, told, TypeOK

\* What ge_queue_update() tells on a ring that is in order: the head message or none.
LEMMA UpdateTells ==
  ASSUME TypeOK, ~ LastTimeouts,
         NEW t \in Slots, NEW slots \in [Slots -> Slot],
         NEW sub \in SUBSET Requests,
         RingOK(head, t, slots, sub, calls),
         LinkOK(head, t, slots, last_response, got_response, expired),
         QueueUpdate(t, slots)
  PROVE  \/ TellsNone
         \/ /\ last_response = "none"
            /\ slots[head].req \in sub /\ Tells(slots[head].req, "TIMEOUT")
<1>1. \/ TellsNone
      \/ last_response = "none" /\ head # t /\ CallFinished(slots[head].req, "TIMEOUT")
  BY UpdateSends DEF TellsNone
<1>2. head # t => slots[head].req \in sub /\ calls[slots[head].req] = 0
  BY HeadBetween DEF RingOK, TypeOK
<1>3. QED BY <1>1, <1>2 DEF Tells

\* Queueing a request tells its caller nothing; the pump it runs may find that
\* the message ahead is out of time.
LEMMA EnqueueTells ==
  ASSUME MaxPending < QueueSize, ~ LastTimeouts,
         TypeOK, DeliveryInv, NEW r \in Requests, Enqueue(r)
  PROVE  /\ r \notin submitted /\ submitted' = submitted \union {r}
         /\ \/ TellsNone
            \/ /\ last_response = "none" /\ queue[head].req \in submitted
               /\ Tells(queue[head].req, "TIMEOUT")
<1> DEFINE slots == [queue EXCEPT ![tail] = [req |-> r, attempts |-> 0]]
           sub   == submitted \union {r}
<1>1. /\ Succ(tail) \in Slots /\ slots \in [Slots -> Slot]
      /\ RingOK(head, Succ(tail), slots, sub, calls)
      /\ LinkOK(head, Succ(tail), slots, last_response, got_response, expired)
      /\ \A i \in Slots : i # tail => slots[i].req = queue[i].req
      /\ QueueUpdate(Succ(tail), slots)
  BY EnqueueUpdates
<1>2. sub \in SUBSET Requests
  BY DEF TypeOK
<1>3. r \notin submitted /\ submitted' = sub
  BY DEF Enqueue
<1> HIDE DEF slots, sub
<1>4. TellsNone \/ (last_response = "none" /\ slots[head].req \in sub /\ Tells(slots[head].req, "TIMEOUT"))
  BY <1>1, <1>2, UpdateTells
<1>5. last_response = "none" =>
        slots[head].req = queue[head].req /\ queue[head].req \in submitted
  BY <1>1, HeadBetween DEF DeliveryInv, LinkOK, RingOK, TypeOK
<1>6. QED BY <1>3, <1>4, <1>5 DEF sub

\* A response byte tells at most the caller of the message in flight, and what
\* it is told is what ge_queue_ready_to_send makes of the response.
LEMMA ReceiveTells ==
  ASSUME TypeOK, DeliveryInv, NEW resp \in {"ACK", "NAK"}, ReceiveResponse(resp)
  PROVE  \/ TellsNone
         \/ /\ last_response = "none" /\ queue[head].req \in submitted
            /\ Tells(queue[head].req, ReadyToSend(resp))
<1>1. \/ TellsNone
      \/ last_response = "none" /\ CallFinished(queue[head].req, ReadyToSend(resp))
  BY DEF ReceiveResponse, GotResponse, TellsNone, told
<1>2. last_response = "none" => head # tail
  BY DEF DeliveryInv, LinkOK
<1>3. head # tail => queue[head].req \in submitted /\ calls[queue[head].req] = 0
  BY HeadBetween DEF DeliveryInv, RingOK, TypeOK
<1>4. QED BY <1>1, <1>2, <1>3 DEF Tells, TypeOK

\* The callbacks of such a step use helpers that are there.
LEMMA RepliesAccounted ==
  ASSUME TypeOK, DbusType, Accounted, SendReplies,
         TellsNone \/ \E q \in submitted, status \in Statuses : Tells(q, status),
         submitted' \intersect Watched \subseteq submitted
  PROVE  Accounted'
<1>1. CASE TellsNone
  BY <1>1 DEF TellsNone, SendReplies, CallbacksRun, Accounted, DbusType
<1>2. ASSUME NEW q \in submitted, NEW status \in Statuses, Tells(q, status) PROVE Accounted'
  <2>1. /\ CallbacksRun = {q} \intersect Watched
        /\ \A r \in Watched : r \notin CallbacksRun => calls'[r] = calls[r]
        /\ \A r \in CallbacksRun : calls'[r] = 1
    BY <1>2, TellsOne, IdentitiesAssumption
  <2>2. \A r \in CallbacksRun : helper[r] = "held"
    BY <1>2, <2>1 DEF Tells, Accounted
  <2>3. QED
    BY <2>1, <2>2 DEF SendReplies, Accounted, Used
<1>3. QED BY <1>1, <1>2

\* A call that becomes a message leaves its helper behind.
LEMMA QueuedAccounted ==
  ASSUME MaxPending < QueueSize, ~ LastTimeouts,
         TypeOK, DbusType, DeliveryInv, Accounted, NEW r \in Watched, Queued(r)
  PROVE  Accounted'
<1>1. r \in Requests /\ Enqueue(r)
  BY IdentitiesAssumption DEF Queued, QueueMessage
<1>2. ~ QueueIsFull
  BY <1>1, SizesAssumption DEF Enqueue, QueueIsFull, Count, TypeOK, Slots
<1> DEFINE held == [helper EXCEPT ![r] = "held"]
<1>3. \A c \in Watched : helper'[c] = IF c \in CallbacksRun THEN Used(held[c]) ELSE held[c]
  BY <1>2 DEF Queued, RepliesItself
<1>4. \A c \in Watched : held[c] = IF c = r THEN "held" ELSE helper[c]
  BY DEF DbusType
<1>5. r \notin submitted /\ submitted' = submitted \union {r}
  BY <1>1, EnqueueTells
<1> HIDE DEF held
<1>6. CASE TellsNone
  BY <1>3, <1>4, <1>5, <1>6 DEF TellsNone, CallbacksRun, Accounted
<1>7. ASSUME NEW q \in submitted, Tells(q, "TIMEOUT") PROVE Accounted'
  <2>1. /\ CallbacksRun = {q} \intersect Watched
        /\ \A c \in Watched : c \notin CallbacksRun => calls'[c] = calls[c]
        /\ \A c \in CallbacksRun : calls'[c] = 1
    BY <1>7, TellsOne, IdentitiesAssumption
  <2>2. \A c \in CallbacksRun : held[c] = "held"
    BY <1>4, <1>5, <1>7, <2>1 DEF Tells, Accounted
  <2>3. QED
    BY <1>3, <1>4, <1>5, <2>1, <2>2 DEF Accounted, Used
<1>8. QED BY <1>1, <1>6, <1>7, EnqueueTells

\* No callback runs on a helper that is freed or was never made, however calls,
\* frames, answers and timeouts follow each other.
THEOREM HelpersHeld ==
  ASSUME MaxPending < QueueSize, ~ LastTimeouts
  PROVE  DaemonSpec => []HelperAlive
<1>1. DaemonInit => Accounted /\ Untouched
  BY DEF DaemonInit, DbusInit, Init, Accounted, Untouched
<1>2. TypeOK /\ DbusType /\ DeliveryInv /\ Accounted /\ Untouched /\ [DaemonNext]_dvars =>
        Accounted'
  <2> SUFFICES ASSUME TypeOK, DbusType, DeliveryInv, Accounted, Untouched, [DaemonNext]_dvars
               PROVE  Accounted'
    OBVIOUS
  <2>1. CASE UNCHANGED <<helper, submitted, calls>>
    BY <2>1 DEF Accounted
  <2>3. CASE Starts \/ LoopTop \/ EnterSelect \/ SelectReturns \/ ReadFails \/ SignalArrives
             \/ PanelTalks \/ SecondPasses \/ UNCHANGED dvars \/ Client
             \/ \E r \in Requests : LineLoses(r) \/ \E resp \in {"ACK", "NAK"} : PanelResponds(r, resp)
    BY <2>1, <2>3
       DEF Starts, LoopTop, Bails, BusDrops, EnterSelect, SelectReturns, StartupOnly, ReadFails,
           SignalArrives, PanelTalks, PanelStartsFrame, PanelEndsFrame, PanelListsEquipment, Arrives,
           SecondPasses, Expire, LineLoses, Lose, PanelResponds, Client, ToolCalls, ToolGivesUp,
           dvars, clients, vars, told
  <2>4. ASSUME NEW r \in Requests \ Watched, Enqueue(r)
        PROVE  /\ submitted' \intersect Watched \subseteq submitted
               /\ \/ TellsNone
                  \/ /\ last_response = "none"
                     /\ \E q \in submitted, status \in Statuses : Tells(q, status)
    BY <2>4, EnqueueTells DEF Statuses
  <2>5. CASE FirstRefresh
    <3>1. last_response = "ACK"
      BY <2>5 DEF FirstRefresh, Untouched, Starting
    <3>2. PICK r \in Requests \ Watched : Enqueue(r)
      BY <2>5 DEF FirstRefresh, QueueMessage
    <3>3. TellsNone /\ submitted' \intersect Watched \subseteq submitted
      BY <2>4, <3>1, <3>2
    <3>4. QED
      BY <2>5, <3>3 DEF FirstRefresh, TellsNone, clients, Accounted
  <2>6. CASE ReadPort
    <3>1. TakesByte(Head(inbox))
      BY <2>6 DEF ReadPort
    <3>2. ASSUME NEW resp \in {"ACK", "NAK"}, ReceiveResponse(resp), SendReplies,
                 submitted' = submitted
          PROVE  Accounted'
      BY <3>2, ReceiveTells, RepliesAccounted DEF ReadyToSend, Statuses
    <3>3. ASSUME NEW r \in Requests \ Watched, Enqueue(r), SendReplies PROVE Accounted'
      BY <2>4, <3>3, RepliesAccounted
    <3>4. QED
      BY <2>1, <3>1, <3>2, <3>3 DEF TakesByte, StartFrame, EndFrame, vars, clients, told
  <2>7. CASE Dispatch
    <3>1. ASSUME NEW r \in bus, DispatchCall(r) PROVE Accounted'
      <4>1. Queued(r) \/ UNCHANGED <<helper, vars>>
        BY <3>1 DEF DispatchCall, AnswerAtOnce, Refused
      <4>2. r \in Watched
        BY DEF DbusType
      <4>3. QED BY <2>1, <4>1, <4>2, QueuedAccounted DEF vars, told
    <3>2. QED BY <2>1, <2>7, <3>1 DEF Dispatch, vars, clients, told
  <2>8. CASE ProcessQueue
    <3>1. CASE Process /\ SendReplies
      <4>1. submitted' = submitted /\ QueueUpdate(tail, queue)
        BY <3>1 DEF Process
      <4>2. TellsNone \/ (queue[head].req \in submitted /\ Tells(queue[head].req, "TIMEOUT"))
        BY <4>1, UpdateTells DEF DeliveryInv, TypeOK
      <4>3. QED BY <3>1, <4>1, <4>2, RepliesAccounted DEF Statuses
    <3>2. QED BY <2>1, <2>8, <3>1 DEF ProcessQueue, vars, clients, told
  <2>9. QED
    BY <2>3, <2>5, <2>6, <2>7, <2>8 DEF DaemonNext, Main
<1>3. Untouched /\ [DaemonNext]_dvars => Untouched'
  BY UntouchedStep
<1>4. Accounted => HelperAlive
  BY DEF Accounted, HelperAlive
<1>5. QED BY <1>1, <1>2, <1>3, <1>4, DaemonTypes, DaemonDelivery, PTL DEF DaemonSpec

-----------------------------------------------------------------------------
(* Answers under way.                                                      *)

InboxType ==
  /\ inbox \in Seq({"ACK", "NAK", "START", "END", "COMPLETE"})
  /\ phase = "read" => inbox # <<>>

Answers == {i \in 1 .. Len(inbox) : inbox[i] \in {"ACK", "NAK"}}

\* An answer, be it still the panel's to give or waiting to be read, is the
\* answer to the head message, and there is one at most.
AnswerInTime ==
  /\ wire # {} \/ Answers # {} => last_response = "none" /\ ~ expired /\ head # tail
  /\ wire # {} => wire = {queue[head].req} /\ Answers = {}
  /\ \A i \in Answers : inbox[i] = "ACK" => queue[head].req \in executed
  /\ \A i, j \in Answers : i = j

\* No answer comes in: at most the oldest byte is gone.
NoNewAnswer ==
  \E read \in {0, 1} : \A i \in Answers' : i + read \in Answers /\ inbox'[i] = inbox[i + read]

\* Bytes come in at the end and are read from the front.
LEMMA InboxStep ==
  ASSUME InboxType, [DaemonNext]_dvars
  PROVE  /\ InboxType'
         /\ \/ NoNewAnswer
            \/ \E r \in Requests, resp \in {"ACK", "NAK"} :
                 PanelResponds(r, resp) /\ inbox' = Append(inbox, resp)
<1>1. ASSUME UNCHANGED inbox, phase' = "read" => phase = "read" \/ inbox # <<>>
      PROVE  NoNewAnswer /\ InboxType'
  BY <1>1 DEF NoNewAnswer, Answers, InboxType
<1>2. ASSUME NEW byte \in {"START", "END", "COMPLETE"}, Arrives(byte)
      PROVE  NoNewAnswer /\ InboxType'
  <2>1. inbox' = Append(inbox, byte) /\ phase' = phase
    BY <1>2 DEF Arrives, startup
  <2>2. InboxType'
    BY <2>1 DEF InboxType
  <2>3. \A i \in Answers' : i \in Answers /\ inbox'[i] = inbox[i]
    BY <2>1 DEF Answers, InboxType
  <2>4. QED BY <2>2, <2>3 DEF NoNewAnswer, Answers
<1>3. ASSUME NEW r \in Requests, NEW resp \in {"ACK", "NAK"}, PanelResponds(r, resp)
      PROVE  inbox' = Append(inbox, resp) /\ InboxType'
  BY <1>3 DEF PanelResponds, Arrives, startup, InboxType
<1>4. CASE ReadPort
  <2>1. /\ inbox # <<>> /\ inbox' = Tail(inbox)
        /\ phase' = "read" => Tail(inbox) # <<>>
    BY <1>4 DEF ReadPort, InboxType
  <2>2. InboxType'
    BY <2>1 DEF InboxType
  <2>3. \A i \in Answers' : i + 1 \in Answers /\ inbox'[i] = inbox[i + 1]
    BY <2>1 DEF Answers, InboxType
  <2>4. QED BY <2>2, <2>3 DEF NoNewAnswer
<1>5. CASE Starts \/ SignalArrives
  BY <1>1, <1>5
     DEF Starts, SignalArrives, Signal, Dies, StartupStep, ParseOptions, LoadConfigFile, ApplyOptions,
         ChangeRoot, LookUpUser, DropPrivileges, OpenSocket, StartDbus, ExitWith, Goes, Stays
<1>6. CASE FirstRefresh \/ LoopTop \/ EnterSelect \/ SelectReturns \/ ReadFails \/ Dispatch \/ ProcessQueue
  BY <1>1, <1>6
     DEF FirstRefresh, LoopTop, EnterSelect, SelectReturns, ReadFails, Dispatch, ProcessQueue,
         At, Bails, ExitWith, StartupOnly
<1>7. CASE Client \/ SecondPasses \/ UNCHANGED dvars \/ \E r \in Requests : LineLoses(r)
  BY <1>1, <1>7 DEF Client, SecondPasses, LineLoses, dvars, startup
<1>8. CASE PanelTalks
  BY <1>2, <1>8 DEF PanelTalks, PanelStartsFrame, PanelEndsFrame, PanelListsEquipment
<1>9. QED BY <1>3, <1>4, <1>5, <1>6, <1>7, <1>8 DEF DaemonNext, Main

\* A step that sends nothing and hears nothing keeps the answer in time.
LEMMA QuietInTime ==
  ASSUME TypeOK, AnswerInTime, NoNewAnswer,
         wire' \subseteq wire, executed \subseteq executed',
         head # tail =>
           /\ UNCHANGED <<head, last_response, expired>> /\ head' # tail'
           /\ queue'[head].req = queue[head].req
  PROVE  AnswerInTime'
<1>1. Answers' # {} => Answers # {}
  BY DEF NoNewAnswer
<1>2. wire' # {} \/ Answers' # {} =>
        last_response' = "none" /\ ~ expired' /\ head' # tail'
  BY <1>1 DEF AnswerInTime
<1>3. wire' # {} => wire' = {queue'[head'].req} /\ Answers' = {}
  BY <1>1 DEF AnswerInTime
<1>4. \A i \in Answers' : inbox'[i] = "ACK" => queue'[head'].req \in executed'
  BY <1>1 DEF AnswerInTime, NoNewAnswer
<1>5. ASSUME NEW i \in Answers', NEW j \in Answers'
      PROVE  i = j
  <2>1. PICK read \in {0, 1} : \A k \in Answers' : k + read \in Answers
    BY DEF NoNewAnswer
  <2>2. i \in Int /\ j \in Int
    BY DEF Answers
  <2>3. i + read \in Answers /\ j + read \in Answers
    BY <2>1
  <2>4. i + read = j + read
    BY <2>3 DEF AnswerInTime
  <2>5. QED BY <2>2, <2>4
<1>6. QED BY <1>2, <1>3, <1>4, <1>5 DEF AnswerInTime

\* So does ge_queue_update(), on a ring with the same head message.
LEMMA UpdateAnswers ==
  ASSUME TypeOK, ~ LastTimeouts,
         NEW t \in Slots, NEW slots \in [Slots -> Slot],
         NEW sub \in SUBSET Requests,
         RingOK(head, t, slots, sub, calls),
         LinkOK(head, t, slots, last_response, got_response, expired),
         QueueUpdate(t, slots), tail' = t, executed' = executed,
         head # tail => head # t /\ slots[head].req = queue[head].req,
         AnswerInTime, NoNewAnswer
  PROVE  AnswerInTime'
<1>1. CASE /\ queue' = slots
           /\ UNCHANGED <<head, last_response, expired, wire>>
  BY <1>1, QuietInTime
<1>2. CASE /\ last_response # "none" \/ expired
           /\ head' # t /\ last_response' = "none"
           /\ \/ wire' = wire \union {queue'[head'].req} /\ expired' = FALSE
              \/ UNCHANGED <<wire, expired>>
  <2>1. wire = {} /\ Answers = {}
    BY <1>2 DEF AnswerInTime
  <2>2. Answers' = {}
    BY <2>1 DEF NoNewAnswer
  <2>3. QED BY <1>2, <2>1, <2>2 DEF AnswerInTime
<1>3. QED BY <1>1, <1>2, UpdateSends

\* The answer under way is the head message's, while callers, frames and turns of
\* the loop take their turns.
LEMMA AnswerStep ==
  ASSUME MaxPending < QueueSize, ~ LastTimeouts, ~ LateAnswers,
         TypeOK, DbusType, DeliveryInv, InboxType, AnswerInTime, [DaemonNext]_dvars
  PROVE  AnswerInTime'
<1>1. CASE MovesFrame /\ NoNewAnswer
  BY <1>1, QuietInTime DEF MovesFrame, ring, link
<1>2. ASSUME NEW r \in Requests, Enqueue(r), NoNewAnswer PROVE AnswerInTime'
  <2> DEFINE slots == [queue EXCEPT ![tail] = [req |-> r, attempts |-> 0]]
             sub   == submitted \union {r}
  <2>1. /\ Succ(tail) \in Slots /\ Succ(tail) # head /\ slots \in [Slots -> Slot]
        /\ \A i \in Slots : slots[i].req = IF i = tail THEN r ELSE queue[i].req
        /\ RingOK(head, Succ(tail), slots, sub, calls)
        /\ LinkOK(head, Succ(tail), slots, last_response, got_response, expired)
        /\ QueueUpdate(Succ(tail), slots)
    BY <1>2, EnqueueUpdates
  <2>2. tail' = Succ(tail) /\ executed' = executed /\ sub \in SUBSET Requests
    BY <1>2 DEF Enqueue, TypeOK
  <2> HIDE DEF slots, sub
  <2>3. head # tail => head # Succ(tail) /\ slots[head].req = queue[head].req
    BY <2>1 DEF TypeOK
  <2>4. QED BY <1>2, <2>1, <2>2, <2>3, UpdateAnswers
<1>3. CASE Process /\ NoNewAnswer
  BY <1>3, UpdateAnswers DEF Process, DeliveryInv, TypeOK
<1>4. ASSUME NEW r \in Requests, Lose(r), NoNewAnswer PROVE AnswerInTime'
  BY <1>4, QuietInTime DEF Lose, ring, link
<1>5. ASSUME NEW r \in Requests, NEW resp \in {"ACK", "NAK"}, PanelResponds(r, resp)
      PROVE  AnswerInTime'
  <2>1. /\ r \in wire /\ wire' = wire \ {r} /\ inbox' = Append(inbox, resp)
        /\ resp = "ACK" => r \in executed'
        /\ UNCHANGED <<head, tail, queue, last_response, expired>>
    BY <1>5 DEF PanelResponds, Arrives, ring, link
  <2>2. Answers = {} /\ wire = {queue[head].req} /\ last_response = "none" /\ ~ expired /\ head # tail
    BY <2>1 DEF AnswerInTime
  <2>3. wire' = {}
    BY <2>1, <2>2
  <2>4. Answers' = {Len(inbox) + 1} /\ inbox'[Len(inbox) + 1] = resp
    BY <2>1, <2>2 DEF Answers, InboxType
  <2>5. QED BY <2>1, <2>2, <2>3, <2>4 DEF AnswerInTime
<1>6. CASE SecondPasses
  <2>1. Answers = {} /\ Answers' = {}
    BY <1>6 DEF SecondPasses, Answers, InboxType
  <2>2. /\ last_response = "none" => wire = {}
        /\ UNCHANGED <<head, last_response, wire>>
    BY <1>6 DEF SecondPasses, Expire, ring
  <2>3. wire' = {}
    BY <2>2 DEF AnswerInTime
  <2>4. QED BY <2>1, <2>3 DEF AnswerInTime
<1>7. ASSUME NEW resp \in {"ACK", "NAK"}, ReadPort, Head(inbox) = resp, TakesAnswer(resp)
      PROVE  AnswerInTime'
  <2>1. inbox # <<>> /\ inbox' = Tail(inbox) /\ wire' = wire
    BY <1>7 DEF ReadPort, InboxType, TakesAnswer
  <2>2. 1 \in Answers
    BY <1>7, <2>1 DEF Answers, InboxType
  <2>3. wire = {}
    BY <2>2 DEF AnswerInTime
  <2>4. \A i \in Answers' : i \in Nat /\ i > 0 /\ i + 1 \in Answers
    BY <2>1 DEF Answers, InboxType
  <2>5. Answers' = {}
    BY <2>2, <2>4 DEF AnswerInTime
  <2>6. QED BY <2>1, <2>3, <2>5 DEF AnswerInTime
<1>8. QED
  BY <1>1, <1>2, <1>3, <1>4, <1>5, <1>6, <1>7, QueueStep, InboxStep

\* If the panel answers in time and main() reads the answer in time, the only
\* message the panel has yet to answer is the head of the ring.
THEOREM DaemonHeadInFlight ==
  ASSUME MaxPending < QueueSize, ~ LastTimeouts, ~ LateAnswers
  PROVE  DaemonSpec => [](OnlyHeadInFlight /\ AnswerInTime /\ InboxType)
<1>1. DaemonInit => AnswerInTime /\ InboxType
  BY DEF DaemonInit, Init, StartupInit, AnswerInTime, InboxType, Answers
<1>2. InboxType /\ [DaemonNext]_dvars => InboxType'
  BY InboxStep
<1>3. TypeOK /\ DbusType /\ DeliveryInv /\ InboxType /\ AnswerInTime /\ [DaemonNext]_dvars => AnswerInTime'
  BY AnswerStep
<1>4. AnswerInTime => OnlyHeadInFlight
  BY DEF AnswerInTime, OnlyHeadInFlight
<1>5. QED BY <1>1, <1>2, <1>3, <1>4, DaemonTypes, DaemonDelivery, PTL DEF DaemonSpec

-----------------------------------------------------------------------------
(* What the tools tell their users.                                        *)

\* The replies of a step that tells OK of an executed message only are true.
LEMMA RepliesTruthful ==
  ASSUME TypeOK, DbusType, TruthfulExit, SendReplies, executed \subseteq executed',
         \/ TellsNone
         \/ \E q \in Requests, status \in Statuses :
              Tells(q, status) /\ (status = "OK" => q \in executed)
  PROVE  TruthfulExit'
<1>1. CASE TellsNone
  BY <1>1 DEF TellsNone, SendReplies, CallbacksRun, TruthfulExit, DbusType
<1>2. ASSUME NEW q \in Requests, NEW status \in Statuses, Tells(q, status), status = "OK" => q \in executed
      PROVE  TruthfulExit'
  <2>1. CallbacksRun \subseteq {q} /\ \A r \in CallbacksRun : result'[r] = status
    BY <1>2, TellsOne
  <2>2. \A r \in Watched : outcome'[r] = "OK" =>
          outcome[r] = "OK" \/ (r = q /\ status = "OK")
    BY <2>1 DEF SendReplies, Heard
  <2>3. QED BY <1>2, <2>2 DEF TruthfulExit, SendReplies
<1>3. QED BY <1>1, <1>2

\* A tool that exits with status 0 was told the truth, on every ring, for any
\* number of callers and whatever calls and frames come between a message and its
\* answer, provided the panel answers in time.
THEOREM TruthTold ==
  ASSUME MaxPending < QueueSize, ~ LastTimeouts, ~ LateAnswers
  PROVE  DaemonSpec => []TruthfulExit
<1>1. DaemonInit => TruthfulExit
  BY DEF DaemonInit, DbusInit, TruthfulExit
<1>2. TypeOK /\ DbusType /\ DeliveryInv /\ InboxType /\ AnswerInTime
        /\ TruthfulExit /\ [DaemonNext]_dvars => TruthfulExit'
  <2> SUFFICES ASSUME TypeOK, DbusType, DeliveryInv, InboxType, AnswerInTime,
                      TruthfulExit, [DaemonNext]_dvars
               PROVE  TruthfulExit'
    OBVIOUS
  <2>1. executed \subseteq executed'
    BY QueueStep DEF MovesFrame, Enqueue, Process, TakesAnswer, Obeys, Lose, Expire
  <2>2. CASE UNCHANGED <<outcome, granted>>
    BY <2>1, <2>2 DEF TruthfulExit
  <2>3. CASE BusDrops
    BY <2>1, <2>3 DEF BusDrops, TruthfulExit
  <2>4. CASE Starts \/ FirstRefresh \/ LoopTop \/ EnterSelect \/ SelectReturns \/ ReadFails
             \/ SignalArrives \/ PanelTalks \/ SecondPasses \/ UNCHANGED dvars
             \/ \E r \in Requests : LineLoses(r) \/ \E resp \in {"ACK", "NAK"} : PanelResponds(r, resp)
    BY <2>2, <2>3, <2>4
       DEF Starts, FirstRefresh, LoopTop, Bails, EnterSelect, SelectReturns, StartupOnly, ReadFails,
           SignalArrives, PanelTalks, PanelStartsFrame, PanelEndsFrame, PanelListsEquipment, Arrives,
           SecondPasses, LineLoses, PanelResponds, dvars, clients
  <2>5. CASE Client
    BY <2>1, <2>5 DEF Client, ToolCalls, ToolGivesUp, TruthfulExit, DbusType
  <2>6. CASE ReadPort
    <3>1. TakesByte(Head(inbox))
      BY <2>6 DEF ReadPort
    <3>2. ASSUME NEW resp \in {"ACK", "NAK"}, Head(inbox) = resp, ReceiveResponse(resp), SendReplies
          PROVE  TruthfulExit'
      <4>1. 1 \in Answers /\ inbox[1] = resp
        BY <2>6, <3>2 DEF ReadPort, InboxType, Answers
      <4>2. resp = "ACK" => queue[head].req \in executed
        BY <4>1 DEF AnswerInTime
      <4>3. ReadyToSend(resp) \in Statuses /\ (ReadyToSend(resp) = "OK" => resp = "ACK")
        BY DEF ReadyToSend, Statuses
      <4>4. TellsNone \/ (queue[head].req \in Requests /\ Tells(queue[head].req, ReadyToSend(resp)))
        BY <3>2, ReceiveTells DEF TypeOK
      <4>5. QED BY <2>1, <3>2, <4>2, <4>3, <4>4, RepliesTruthful
    <3>3. ASSUME NEW r \in Requests, Enqueue(r), SendReplies PROVE TruthfulExit'
      <4>1. TellsNone \/ (queue[head].req \in Requests /\ Tells(queue[head].req, "TIMEOUT"))
        BY <3>3, EnqueueTells DEF TypeOK
      <4>2. QED BY <2>1, <3>3, <4>1, RepliesTruthful DEF Statuses
    <3>4. QED BY <2>2, <3>1, <3>2, <3>3 DEF TakesByte, clients
  <2>7. CASE Dispatch
    <3>1. ASSUME NEW r \in bus, DispatchCall(r) PROVE TruthfulExit'
      <4>1. r \in Watched /\ r \in Requests
        BY IdentitiesAssumption DEF DbusType
      <4>2. ASSUME NEW status, AnswerAtOnce(r, status), status = "OK" => r \in granted',
                   granted \subseteq granted'
            PROVE  TruthfulExit'
        BY <2>1, <4>1, <4>2 DEF AnswerAtOnce, Heard, TruthfulExit, DbusType
      <4>3. ASSUME NEW status, status # "OK", Refused(r, status) PROVE TruthfulExit'
        BY <4>2, <4>3 DEF Refused, Passed
      <4>4. CASE Queued(r)
        <5>1. ~ QueueIsFull
          BY <4>4, SizesAssumption DEF Queued, QueueMessage, Enqueue, QueueIsFull, Count, TypeOK, Slots
        <5>2. /\ granted' = granted
              /\ \A c \in Watched : outcome'[c] =
                   IF c \in CallbacksRun THEN Heard(outcome[c], result'[c]) ELSE outcome[c]
          BY <5>1, <4>4 DEF Queued, RepliesItself
        <5>3. TellsNone \/ (queue[head].req \in Requests /\ Tells(queue[head].req, "TIMEOUT"))
          BY <4>1, <4>4, EnqueueTells DEF Queued, QueueMessage, TypeOK
        <5>4. \A c \in CallbacksRun : result'[c] = "TIMEOUT"
          BY <5>3, TellsOne DEF TellsNone, CallbacksRun
        <5>5. QED BY <2>1, <5>2, <5>4 DEF TruthfulExit, Heard
      <4>5. QED
        BY <3>1, <4>2, <4>3, <4>4 DEF DispatchCall
    <3>2. QED BY <2>2, <2>7, <3>1 DEF Dispatch, clients
  <2>8. CASE ProcessQueue
    <3>1. CASE Process /\ SendReplies
      <4>1. TellsNone \/ (queue[head].req \in Requests /\ Tells(queue[head].req, "TIMEOUT"))
        BY <3>1, UpdateTells DEF Process, DeliveryInv, TypeOK
      <4>2. QED BY <2>1, <3>1, <4>1, RepliesTruthful DEF Statuses
    <3>2. QED BY <2>2, <2>8, <3>1 DEF ProcessQueue, clients
  <2>9. QED
    BY <2>4, <2>5, <2>6, <2>7, <2>8 DEF DaemonNext, Main
<1>3. QED
  BY <1>1, <1>2, DaemonTypes, DaemonDelivery, DaemonHeadInFlight, PTL DEF DaemonSpec

-----------------------------------------------------------------------------
(* Giving up.                                                              *)

\* A NAK that is still the last response when main() is back at the top of its
\* loop was the last attempt of the last message, or a frame is being read; and
\* zero timeouts are counted on for a NAK, while calls wait, or while the bus does
\* not take what is sent.
LoopInv ==
  /\ zeroes \in Nat
  /\ phase \in {"loop", "masks", "select"} /\ last_response = "NAK" => head = tail \/ reading_message
  /\ phase = "masks" /\ zeroes > 0 /\ bus = {} /\ ~ unsent => last_response = "NAK"

\* What ge_queue_update() leaves of a NAK.
LEMMA UpdateAfterNak ==
  ASSUME TypeOK, ~ LastTimeouts, DeliveryInv, QueueUpdate(tail, queue), last_response' = "NAK"
  PROVE  head' = tail
BY UpdateSends DEF DeliveryInv, TypeOK

\* The message of the first refresh finds an ACK, and leaves no NAK behind.
LEMMA EnqueueAfterAck ==
  ASSUME MaxPending < QueueSize, ~ LastTimeouts,
         TypeOK, DeliveryInv, NEW r \in Requests, Enqueue(r), last_response = "ACK"
  PROVE  last_response' # "NAK"
<1> DEFINE slots == [queue EXCEPT ![tail] = [req |-> r, attempts |-> 0]]
           sub   == submitted \union {r}
<1>1. /\ Succ(tail) \in Slots /\ slots \in [Slots -> Slot] /\ sub \in SUBSET Requests
      /\ RingOK(head, Succ(tail), slots, sub, calls)
      /\ LinkOK(head, Succ(tail), slots, last_response, got_response, expired)
      /\ QueueUpdate(Succ(tail), slots)
  BY EnqueueUpdates DEF TypeOK
<1> HIDE DEF slots, sub
<1>2. QED BY <1>1, UpdateSends

\* main() gives up by itself only when the panel has refused a message and it
\* cannot be sent again now, or when calls come in as fast as it dispatches them,
\* or when the bus does not take what it sends.
THEOREM GivesUpForCause ==
  ASSUME MaxPending < QueueSize, ~ LastTimeouts
  PROVE  DaemonSpec => []GivesUpAfterNak
<1>1. DaemonInit => LoopInv /\ Untouched
  BY DEF DaemonInit, StartupInit, Init, LoopInv, Untouched
<1>2. TypeOK /\ DbusType /\ DeliveryInv /\ Untouched /\ LoopInv /\ [DaemonNext]_dvars => LoopInv'
  <2> SUFFICES ASSUME TypeOK, DbusType, DeliveryInv, Untouched, LoopInv, [DaemonNext]_dvars
               PROVE  LoopInv'
    OBVIOUS
  <2>1. CASE zeroes' = zeroes /\ phase' \notin {"loop", "masks", "select"}
    BY <2>1 DEF LoopInv
  <2>2. CASE /\ UNCHANGED <<zeroes, last_response, head, tail, reading_message, phase, unsent>>
             /\ bus \subseteq bus'
    BY <2>2 DEF LoopInv
  <2>3. CASE Starts \/ Dispatch \/ ReadPort \/ ReadFails
    BY <2>1, <2>3
       DEF Starts, StartupStep, ParseOptions, LoadConfigFile, ApplyOptions, ChangeRoot, LookUpUser, DropPrivileges,
           OpenSocket, StartDbus, ExitWith, Dies, Goes, Stays, Dispatch, ReadPort, ReadFails, At, Bails
  <2>4. CASE SignalArrives
    <3>1. /\ UNCHANGED <<vars, zeroes, unsent>>
          /\ phase' \notin Ended => UNCHANGED bus
          /\ phase' = phase \/ phase' = "killed" \/ (phase = "select" /\ phase' = "loop")
      BY <2>4 DEF SignalArrives, Signal, Dies, clients
    <3>2. CASE phase' \in Ended
      BY <2>1, <3>1, <3>2 DEF Ended
    <3>3. CASE phase' \notin Ended
      <4>1. UNCHANGED <<zeroes, unsent, bus, last_response, head, tail, reading_message>>
        BY <3>1, <3>3 DEF vars, ring, link
      <4>2. CASE phase' = phase
        BY <4>1, <4>2 DEF LoopInv
      <4>3. CASE phase = "select" /\ phase' = "loop"
        BY <4>1, <4>3 DEF LoopInv
      <4>4. QED BY <3>1, <3>3, <4>2, <4>3 DEF Ended
    <3>4. QED BY <3>2, <3>3
  <2>5. CASE FirstRefresh
    <3>1. last_response = "ACK"
      BY <2>5 DEF FirstRefresh, Untouched, Starting
    <3>2. last_response' # "NAK"
      BY <2>5, <3>1, EnqueueAfterAck DEF FirstRefresh, QueueMessage
    <3>3. QED BY <2>5, <3>2 DEF FirstRefresh, LoopInv
  <2>6. CASE LoopTop
    <3>1. CASE Bails(gRet)
      BY <2>1, <3>1 DEF Bails, ExitWith
    <3>2. CASE /\ phase = "loop" /\ phase' = "masks" /\ UNCHANGED <<vars, bus, unsent>>
               /\ \E hurries \in BusHurries :
                    zeroes' = IF TimeoutIsZero \/ hurries THEN zeroes + 1 ELSE 0
      <4>1. UNCHANGED <<last_response, head, tail, reading_message, bus, unsent>>
        BY <3>2 DEF vars, ring, link
      <4>2. ASSUME bus = {}, ~ unsent, last_response # "NAK" PROVE zeroes' = 0
        <5>1. BusHurries = {FALSE} /\ ~ TimeoutIsZero
          BY <4>2 DEF TimeoutIsZero, BusHurries
        <5>2. QED BY <3>2, <5>1
      <4>3. zeroes' \in Nat
        BY <3>2 DEF LoopInv
      <4>4. QED BY <3>2, <4>1, <4>2, <4>3 DEF LoopInv
    <3>3. QED BY <2>6, <3>1, <3>2 DEF LoopTop, clients
  <2>7. CASE EnterSelect \/ SelectReturns
    BY <2>7 DEF EnterSelect, SelectReturns, At, StartupOnly, LoopInv, vars, ring, link
  <2>8. CASE ProcessQueue
    <3>1. CASE Process
      <4>1. last_response' = "NAK" => head' = tail'
        BY <3>1, UpdateAfterNak DEF Process
      <4>2. QED BY <2>8, <4>1 DEF ProcessQueue, At, LoopInv
    <3>2. CASE reading_message /\ UNCHANGED vars
      BY <2>8, <3>2 DEF ProcessQueue, At, LoopInv, vars
    <3>3. QED BY <2>8, <3>1, <3>2 DEF ProcessQueue
  <2>9. CASE Client
    BY <2>2, <2>9 DEF Client, ToolCalls, ToolGivesUp, startup, vars, ring, link
  <2>10. CASE PanelTalks \/ SecondPasses \/ UNCHANGED dvars
              \/ \E r \in Requests : LineLoses(r) \/ \E resp \in {"ACK", "NAK"} : PanelResponds(r, resp)
    BY <2>2, <2>10
       DEF PanelTalks, PanelStartsFrame, PanelEndsFrame, PanelListsEquipment, Arrives, SecondPasses,
           Expire, LineLoses, Lose, PanelResponds, dvars, startup, clients, vars, ring, link
  <2>11. QED
    BY <2>3, <2>4, <2>5, <2>6, <2>7, <2>8, <2>9, <2>10 DEF DaemonNext, Main
<1>3. Untouched /\ [DaemonNext]_dvars => Untouched'
  BY UntouchedStep
<1>4. LoopInv => GivesUpAfterNak
  BY LoopAssumption DEF LoopInv, GivesUpAfterNak
<1>5. QED BY <1>1, <1>2, <1>3, <1>4, DaemonTypes, DaemonDelivery, PTL DEF DaemonSpec
=============================================================================
