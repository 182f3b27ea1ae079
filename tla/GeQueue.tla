------------------------------- MODULE GeQueue ------------------------------
(***************************************************************************)
(* The transmit side of the panel link: the stop-and-wait state of         *)
(* struct ge_rs232_s (last_response, got_response, last_sent) and the ring *)
(* of outgoing messages of struct ge_queue_s, in src/concordd/ge-rs232.c.  *)
(*                                                                         *)
(* The daemon is single threaded: ge_queue_message() is called by D-Bus    *)
(* method handlers and by panel frame handlers, ge_queue_update() by       *)
(* concordd_process() at the end of every main loop iteration, and         *)
(* ge_queue_got_response() from ge_rs232_receive_byte().  Each of those    *)
(* calls runs to its end before the next one, so each is one action.       *)
(*                                                                         *)
(* The panel at the other end is the environment: it answers a             *)
(* transmission with ACK or NAK, or not at all.                            *)
(***************************************************************************)
EXTENDS Integers, FiniteSets

CONSTANTS
  Requests,     \* identities of the messages handed to ge_queue_message()
  Watched,      \* the ones queued with finished # NULL
  NoReq,        \* a slot nothing was ever written to (all zero: msg_len = 0)
  QueueSize,    \* GE_QUEUE_MAX_MESSAGES
  MaxAttempts,  \* 3 in ge_queue_got_response()
  AttemptMod,   \* attempts is a uint8_t: 256 in the code
  MaxPending,   \* bound on the callers: messages in the ring at a time
  LateAnswers,  \* may the panel answer after the timeout, or twice?
  LastTimeouts, \* may the last attempt of the only queued message time out?
  SendFaults    \* may write() to the serial port fail?

ASSUME SizesAssumption ==
  /\ QueueSize \in Nat /\ QueueSize > 1
  /\ MaxAttempts \in Nat /\ MaxAttempts > 0
  /\ AttemptMod \in Nat /\ AttemptMod > MaxAttempts
  /\ MaxPending \in Nat

ASSUME IdentitiesAssumption == Watched \subseteq Requests /\ NoReq \notin Requests

ASSUME SwitchesAssumption ==
  LateAnswers \in BOOLEAN /\ LastTimeouts \in BOOLEAN /\ SendFaults \in BOOLEAN

VARIABLES
  head, tail,      \* ge_queue_s.head, .tail
  queue,           \* ge_queue_s.queue: slot -> [req, attempts]
  last_response,   \* ge_rs232_s.last_response: "none" is 0
  got_response,    \* ge_rs232_s.got_response # NULL
  expired,         \* now - last_sent > 1
  reading_message, \* ge_rs232_s.reading_message
  wire,            \* requests with a transmission the panel may still answer
  submitted,       \* history: requests handed to ge_queue_message()
  executed,        \* history: requests the panel answered with ACK
  calls,           \* history: times finished() ran for a request (2 = more)
  result           \* history: the status finished() was last given

ring == <<head, tail, queue>>
link == <<last_response, got_response, expired>>
told == <<calls, result>>
vars == <<ring, link, reading_message, wire, submitted, executed, told>>

Slots == 0 .. QueueSize - 1
Statuses == {"OK", "NAK", "TIMEOUT"}

Slot == [req : Requests \union {NoReq}, attempts : 0 .. AttemptMod - 1]

TypeOK ==
  /\ head \in Slots /\ tail \in Slots
  /\ queue \in [Slots -> Slot]
  /\ last_response \in {"none", "ACK", "NAK"}
  /\ got_response \in BOOLEAN
  /\ expired \in BOOLEAN
  /\ reading_message \in BOOLEAN
  /\ wire \subseteq Requests
  /\ submitted \subseteq Requests
  /\ executed \subseteq Requests
  /\ calls \in [Requests -> 0 .. 2]
  /\ result \in [Requests -> Statuses \union {"none"}]

\* concordd_init() clears the whole instance, ge_rs232_init() sets ACK.
Init ==
  /\ head = 0 /\ tail = 0
  /\ queue = [i \in Slots |-> [req |-> NoReq, attempts |-> 0]]
  /\ last_response = "ACK"
  /\ got_response = FALSE
  /\ expired = TRUE
  /\ reading_message = FALSE
  /\ wire = {}
  /\ submitted = {} /\ executed = {}
  /\ calls = [r \in Requests |-> 0]
  /\ result = [r \in Requests |-> "none"]

-----------------------------------------------------------------------------
(* The ring.  (i + 1) & (GE_QUEUE_MAX_MESSAGES - 1)                        *)

\* Variant: the index is not masked.
SuccUnmasked(i) == i + 1

Succ(i) == IF i = QueueSize - 1 THEN 0 ELSE i + 1

\* (tail - head) & (GE_QUEUE_MAX_MESSAGES - 1)
Count == IF head <= tail THEN tail - head ELSE tail - head + QueueSize

\* The slots from h up to, and not including, t.
Between(h, t, i) == IF h <= t THEN h <= i /\ i < t ELSE h <= i \/ i < t

-----------------------------------------------------------------------------
(* The steps the handlers are made of.                                     *)

\* Variants: a NAK passes for an ACK; the clock is not looked at.
ReadyToSendNakIsOk(resp) ==
  CASE resp \in {"ACK", "NAK"} -> "OK"
    [] resp = "none" /\ expired -> "TIMEOUT"
    [] OTHER -> "WAIT"

ReadyToSendNoClock(resp) ==
  CASE resp = "ACK" -> "OK"
    [] resp = "NAK" -> "NAK"
    [] OTHER -> "TIMEOUT"

\* ge_rs232_ready_to_send() when the line's last response is resp.
ReadyToSend(resp) ==
  CASE resp = "ACK" -> "OK"
    [] resp = "NAK" -> "NAK"
    [] resp = "none" /\ expired -> "TIMEOUT"
    [] OTHER -> "WAIT"

\* Variant: attempts are never exhausted.
PopsHeadOnlyOnOk(slots, status) == status = "OK"

\* ge_queue_got_response() takes the head message off the ring ...
PopsHead(slots, status) == status = "OK" \/ slots[head].attempts >= MaxAttempts

\* Variant: a message that timed out is dropped without a word.
CallFinishedUnlessTimeout(r, status) ==
  IF r \in Watched /\ status # "TIMEOUT"
  THEN /\ calls' = [calls EXCEPT ![r] = IF @ = 2 THEN 2 ELSE @ + 1]
       /\ result' = [result EXCEPT ![r] = status]
  ELSE UNCHANGED told

\* ... after calling its finished(), when it has one.
CallFinished(r, status) ==
  IF r \in Watched
  THEN /\ calls' = [calls EXCEPT ![r] = IF @ = 2 THEN 2 ELSE @ + 1]
       /\ result' = [result EXCEPT ![r] = status]
  ELSE UNCHANGED told

\* Variants: the head is told but stays; the handler stays armed; the head
\* moves before finished() is looked up.
GotResponseKeepsHead(status) ==
  /\ IF PopsHead(queue, status)
     THEN CallFinished(queue[head].req, status)
     ELSE UNCHANGED told
  /\ got_response' = FALSE
  /\ UNCHANGED head

GotResponseStaysArmed(status) ==
  /\ IF PopsHead(queue, status)
     THEN head' = Succ(head) /\ CallFinished(queue[head].req, status)
     ELSE UNCHANGED <<head, told>>
  /\ UNCHANGED got_response

GotResponseMovesFirst(status) ==
  /\ IF PopsHead(queue, status)
     THEN head' = Succ(head) /\ CallFinished(queue[Succ(head)].req, status)
     ELSE UNCHANGED <<head, told>>
  /\ got_response' = FALSE

\* An ACK or NAK byte reaches ge_queue_got_response().
GotResponse(status) ==
  /\ IF PopsHead(queue, status)
     THEN head' = Succ(head) /\ CallFinished(queue[head].req, status)
     ELSE UNCHANGED <<head, told>>
  /\ got_response' = FALSE

\* The message being waited for is the only one and has no attempt left.
FinalTry(h, t, slots) == slots[h].attempts >= MaxAttempts /\ Succ(h) = t

\* ge_rs232_send_message(): an empty message is refused before anything is
\* changed; a failed write() leaves last_sent as it was.
SendMessage(h, t, slots) ==
  LET r == slots[h].req
  IN IF r = NoReq
     THEN UNCHANGED <<last_response, expired, wire>>
     ELSE /\ last_response' = "none"
          /\ \/ expired' = FALSE /\ wire' = wire \union {r}
             \/ /\ SendFaults
                /\ LastTimeouts \/ ~ FinalTry(h, t, slots)
                /\ UNCHANGED <<expired, wire>>

\* ge_queue_update() on a ring with contents slots and tail t.  The timeout
\* branch may empty the ring, and the send that follows does not look again.
QueueUpdate(t, slots) ==
  LET status == ReadyToSend(last_response)
      pops   == /\ status = "TIMEOUT" /\ got_response
                /\ PopsHead(slots, status)
      h      == IF pops THEN Succ(head) ELSE head
      sent   == [slots EXCEPT ![h].attempts = IF @ + 1 = AttemptMod THEN 0 ELSE @ + 1]
  IN IF head = t \/ status = "WAIT"
     THEN queue' = slots /\ UNCHANGED <<head, link, wire, told>>
     ELSE /\ head' = h
          /\ IF pops THEN CallFinished(slots[head].req, status) ELSE UNCHANGED told
          /\ queue' = sent
          /\ got_response' = TRUE
          /\ SendMessage(h, t, sent)

-----------------------------------------------------------------------------
(* Actions of the daemon.                                                  *)

\* ge_queue_message(): QUEUE_FULL is only a return value, the message is
\* written to the tail slot and the tail advances all the same.
Enqueue(r) ==
  /\ r \notin submitted
  /\ Count < MaxPending
  /\ submitted' = submitted \union {r}
  /\ tail' = Succ(tail)
  /\ QueueUpdate(Succ(tail), [queue EXCEPT ![tail] = [req |-> r, attempts |-> 0]])
  /\ UNCHANGED executed

QueueMessage(r) == Enqueue(r) /\ UNCHANGED reading_message

\* concordd_process()
Process ==
  /\ ~ reading_message
  /\ QueueUpdate(tail, queue)
  /\ UNCHANGED <<tail, reading_message, submitted, executed>>

\* Variant: the response is passed on but not recorded.
ReceiveResponseUnrecorded(resp) ==
  /\ IF last_response = "none" /\ got_response
     THEN GotResponse(ReadyToSend(resp))
     ELSE UNCHANGED <<head, got_response, told>>
  /\ UNCHANGED last_response

\* ge_rs232_receive_byte() of an ACK or a NAK; it is taken as a response only
\* while one is awaited, also in the middle of a frame.
ReceiveResponse(resp) ==
  IF last_response = "none"
  THEN /\ last_response' = resp
       /\ IF got_response
          THEN GotResponse(ReadyToSend(resp))
          ELSE UNCHANGED <<head, got_response, told>>
  ELSE UNCHANGED <<head, last_response, got_response, told>>

\* The START byte of a panel frame, and the byte that ends the frame.
StartFrame ==
  /\ reading_message' = TRUE
  /\ UNCHANGED <<ring, link, wire, submitted, executed, told>>

EndFrame ==
  /\ reading_message
  /\ reading_message' = FALSE
  /\ UNCHANGED <<ring, link, wire, submitted, executed, told>>

-----------------------------------------------------------------------------
(* Actions of the panel, the line and the clock.                           *)

\* The panel has obeyed or refused a transmission, and its answer arrives.
PanelAnswers(r, resp) ==
  /\ r \in wire
  /\ \/ wire' = wire \ {r}
     \/ LateAnswers /\ UNCHANGED wire
  /\ executed' = IF resp = "ACK" THEN executed \union {r} ELSE executed
  /\ ReceiveResponse(resp)
  /\ UNCHANGED <<tail, queue, expired, reading_message, submitted>>

\* A transmission, or its answer, is lost.
Lose(r) ==
  /\ r \in wire
  /\ LastTimeouts \/ ~ FinalTry(head, tail, queue)
  /\ wire' = wire \ {r}
  /\ UNCHANGED <<ring, link, reading_message, submitted, executed, told>>

\* More than a second has passed since last_sent.
Expire ==
  /\ ~ expired
  /\ last_response = "none" =>
       /\ LateAnswers \/ wire = {}
       /\ LastTimeouts \/ ~ FinalTry(head, tail, queue)
  /\ expired' = TRUE
  /\ UNCHANGED <<ring, last_response, got_response, reading_message, wire,
                 submitted, executed, told>>

Next ==
  \/ \E r \in Requests : QueueMessage(r)
  \/ Process
  \/ StartFrame
  \/ EndFrame
  \/ \E r \in Requests, resp \in {"ACK", "NAK"} : PanelAnswers(r, resp)
  \/ \E r \in Requests : Lose(r)
  \/ Expire

Spec == Init /\ [][Next]_vars

-----------------------------------------------------------------------------
(* Properties.                                                             *)

\* ge_queue_got_response() runs finished() and moves the head in two separate
\* statements, and is reached from a response byte and from the timeout: no
\* request has its callback called a second time.
AtMostOnce == \A r \in Requests : calls[r] <= 1

\* A request whose callback has not run is still in the ring: neither a pop,
\* nor an enqueue near the end of the ring, makes the queue forget it.
NothingForgotten ==
  \A r \in submitted \intersect Watched :
    calls[r] = 0 => \E i \in Slots : Between(head, tail, i) /\ queue[i].req = r

\* Stop and wait: what the panel has yet to answer is the head message, so
\* that the next response byte belongs to it.
OnlyHeadInFlight ==
  wire # {} => last_response = "none" /\ head # tail /\ wire = {queue[head].req}

\* While a response is awaited ge_queue_got_response() is armed, whatever was
\* lost, late, overflowed or failed: no response byte or timeout that
\* ge_queue_update() waits for goes by unheard.
AwaitedAnswerIsHeard == last_response = "none" => got_response

\* Nothing is put on the line while a response may still come in time.
StopAndWait ==
  [][last_response = "none" /\ ~ expired => wire' \subseteq wire]_vars

\* The ring read from head to tail is the line of waiting requests of
\* CommandService, and every step of the queue is a step of that service.
SlotAt(i) == IF head + i - 1 < QueueSize THEN head + i - 1 ELSE head + i - 1 - QueueSize

Pending == [i \in 1 .. Count |-> queue[SlotAt(i)].req]

Service == INSTANCE CommandService WITH pending <- Pending

ImplementsService == Service!Spec

\* "Stuff is added to the tail and removed from the head. Tail is always
\* empty." (ge-rs232.c:279-280): the slot the next message will be written to
\* holds no request that still waits for its answer.
TailIsEmpty == queue[tail].req \in Watched => calls[queue[tail].req] > 0

\* "goto bail; // Empty." (ge-rs232.c:244-245): ge_queue_update() puts nothing
\* on the line when the queue is empty.
EmptyQueueSendsNothing == [][head' = tail' => wire' \subseteq wire]_vars

-----------------------------------------------------------------------------
(* The inductive invariant behind AtMostOnce and NothingForgotten.  It is  *)
(* stated for any ring h, t, slots with any history sub, cl, because one   *)
(* call of ge_queue_message() passes through a state that is none of the   *)
(* module's: the message is in the ring, ge_queue_update() is still to run.*)

RingOK(h, t, slots, sub, cl) ==
  \* The ring holds distinct submitted requests, none of them told yet.
  /\ \A i \in Slots : Between(h, t, i) =>
       slots[i].req \in sub /\ cl[slots[i].req] = 0
  /\ \A i, j \in Slots :
       Between(h, t, i) /\ Between(h, t, j) /\ slots[i].req = slots[j].req => i = j
  \* Everything submitted and not yet told is in the ring.
  /\ \A r \in sub \intersect Watched :
       cl[r] = 0 => \E i \in Slots : Between(h, t, i) /\ slots[i].req = r
  /\ \A r \in Requests \ sub : cl[r] = 0
  /\ \A r \in Requests : cl[r] <= 1

\* A response is awaited only for a message in the ring, and the last attempt
\* of the only message does not time out.
LinkOK(h, t, slots, resp, armed, late) ==
  /\ armed => h # t
  /\ resp = "none" => armed
  /\ resp = "none" /\ late => ~ FinalTry(h, t, slots)

DeliveryInv ==
  /\ RingOK(head, tail, queue, submitted, calls)
  /\ LinkOK(head, tail, queue, last_response, got_response, expired)
=============================================================================
