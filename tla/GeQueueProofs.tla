--------------------------- MODULE GeQueueProofs ----------------------------
(***************************************************************************)
(* What the outgoing queue guarantees for every ring size, every number of *)
(* attempts and every set of requests, and that it implements              *)
(* CommandService: read from head to tail, the ring is the line of waiting *)
(* requests.                                                               *)
(***************************************************************************)
EXTENDS GeQueue, Sequences, SequenceTheorems, TLAPS

-----------------------------------------------------------------------------
(* The ring.                                                               *)

\* The masked increment stays in the ring.
LEMMA SuccType == ASSUME NEW i \in Slots PROVE Succ(i) \in Slots
BY SizesAssumption DEF Slots, Succ

\* Two slots with the same successor are the same slot.
LEMMA SuccInjective ==
  ASSUME NEW i \in Slots, NEW j \in Slots, Succ(i) = Succ(j)
  PROVE  i = j
BY SizesAssumption DEF Slots, Succ

\* Moving the head forward gives up exactly the head slot.
LEMMA PopBetween ==
  ASSUME NEW h \in Slots, NEW t \in Slots, h # t, NEW i \in Slots
  PROVE  Between(Succ(h), t, i) <=> Between(h, t, i) /\ i # h
BY SizesAssumption DEF Slots, Succ, Between

\* Moving the tail forward adds exactly the tail slot, unless the ring fills.
LEMMA PushBetween ==
  ASSUME NEW h \in Slots, NEW t \in Slots, Succ(t) # h, NEW i \in Slots
  PROVE  Between(h, Succ(t), i) <=> Between(h, t, i) \/ i = t
BY SizesAssumption DEF Slots, Succ, Between

\* The head slot of a non-empty ring is occupied, the tail slot never is.
LEMMA HeadBetween ==
  ASSUME NEW h \in Slots, NEW t \in Slots
  PROVE  /\ h # t => Between(h, t, h)
         /\ ~ Between(h, t, t)
BY SizesAssumption DEF Slots, Between

-----------------------------------------------------------------------------
(* Type correctness.                                                       *)

\* ge_queue_update() keeps the types, whatever ring it is called on.
LEMMA UpdateType ==
  ASSUME TypeOK, NEW t \in Slots, NEW slots \in [Slots -> Slot],
         QueueUpdate(t, slots)
  PROVE  /\ head' \in Slots
         /\ queue' \in [Slots -> Slot]
         /\ last_response' \in {"none", "ACK", "NAK"}
         /\ got_response' \in BOOLEAN
         /\ expired' \in BOOLEAN
         /\ wire' \subseteq Requests
         /\ calls' \in [Requests -> 0 .. 2]
         /\ result' \in [Requests -> Statuses \union {"none"}]
<1> DEFINE status == ReadyToSend(last_response)
           pops   == status = "TIMEOUT" /\ got_response /\ PopsHead(slots, status)
           h      == IF pops THEN Succ(head) ELSE head
           sent   == [slots EXCEPT ![h].attempts = IF @ + 1 = AttemptMod THEN 0 ELSE @ + 1]
<1>1. CASE head = t \/ status = "WAIT"
  BY <1>1 DEF QueueUpdate, TypeOK, link, told
<1>2. CASE ~ (head = t \/ status = "WAIT")
  <2>1. h \in Slots
    BY SuccType DEF TypeOK
  <2>2. sent \in [Slots -> Slot]
    <3>1. slots[h] \in Slot
      BY <2>1
    <3>2. [slots[h] EXCEPT !.attempts = IF @ + 1 = AttemptMod THEN 0 ELSE @ + 1] \in Slot
      BY <3>1, SizesAssumption DEF Slot
    <3>3. QED BY <2>1, <3>1, <3>2
  <2>3. /\ head' = h
        /\ queue' = sent
        /\ got_response' = TRUE
        /\ SendMessage(h, t, sent)
        /\ IF pops THEN CallFinished(slots[head].req, status) ELSE UNCHANGED told
    BY <1>2 DEF QueueUpdate
  <2>4. calls' \in [Requests -> 0 .. 2] /\ result' \in [Requests -> Statuses \union {"none"}]
    <3>1. status \in Statuses
      BY <1>2 DEF ReadyToSend, Statuses
    <3>2. QED
      BY <2>3, <3>1 DEF CallFinished, told, TypeOK
  <2>5. /\ last_response' \in {"none", "ACK", "NAK"}
        /\ expired' \in BOOLEAN
        /\ wire' \subseteq Requests
    <3>1. sent[h].req \in Requests \union {NoReq}
      BY <2>1, <2>2 DEF Slot
    <3>2. QED
      BY <2>3, <3>1 DEF SendMessage, TypeOK
  <2>6. QED BY <2>1, <2>2, <2>3, <2>4, <2>5
<1>3. QED BY <1>1, <1>2

\* ge_queue_message() keeps the types.
LEMMA EnqueueType ==
  ASSUME TypeOK, NEW r \in Requests, Enqueue(r), reading_message' \in BOOLEAN
  PROVE  TypeOK'
<1>1. [queue EXCEPT ![tail] = [req |-> r, attempts |-> 0]] \in [Slots -> Slot]
  BY SizesAssumption DEF TypeOK, Slot
<1>2. Succ(tail) \in Slots
  BY SuccType DEF TypeOK
<1>3. QED
  BY <1>1, <1>2, UpdateType DEF Enqueue, TypeOK

\* A response byte keeps the types.
LEMMA ReceiveType ==
  ASSUME TypeOK, NEW resp \in {"ACK", "NAK"}, ReceiveResponse(resp)
  PROVE  /\ head' \in Slots
         /\ last_response' \in {"none", "ACK", "NAK"} /\ got_response' \in BOOLEAN
         /\ calls' \in [Requests -> 0 .. 2]
         /\ result' \in [Requests -> Statuses \union {"none"}]
<1>1. ReadyToSend(resp) \in Statuses
  BY DEF ReadyToSend, Statuses
<1>2. CASE last_response = "none" /\ got_response
  <2>1. GotResponse(ReadyToSend(resp)) /\ last_response' = resp
    BY <1>2 DEF ReceiveResponse
  <2>2. head' \in Slots /\ got_response' \in BOOLEAN
    BY <2>1, SuccType DEF GotResponse, TypeOK
  <2>3. UNCHANGED told \/ CallFinished(queue[head].req, ReadyToSend(resp))
    BY <2>1 DEF GotResponse, told
  <2>4. /\ calls' \in [Requests -> 0 .. 2]
        /\ result' \in [Requests -> Statuses \union {"none"}]
    BY <2>3, <1>1 DEF CallFinished, told, TypeOK
  <2>5. QED BY <2>1, <2>2, <2>4
<1>3. CASE ~ (last_response = "none" /\ got_response)
  BY <1>3 DEF ReceiveResponse, told, TypeOK
<1>4. QED BY <1>2, <1>3

\* The queue starts with its types.
LEMMA InitType == ASSUME Init PROVE TypeOK
<1>1. [req |-> NoReq, attempts |-> 0] \in Slot
  BY SizesAssumption DEF Slot
<1>2. 0 \in Slots
  BY SizesAssumption DEF Slots
<1>3. queue \in [Slots -> Slot]
  BY <1>1 DEF Init
<1>4. head \in Slots /\ tail \in Slots
  BY <1>2 DEF Init
<1>5. /\ calls \in [Requests -> 0 .. 2]
      /\ result \in [Requests -> Statuses \union {"none"}]
  BY DEF Init
<1>6. /\ got_response \in BOOLEAN /\ expired \in BOOLEAN
      /\ reading_message \in BOOLEAN
  BY DEF Init
<1>7. /\ last_response \in {"none", "ACK", "NAK"}
      /\ wire \subseteq Requests /\ submitted \subseteq Requests
      /\ executed \subseteq Requests
  BY DEF Init
<1>8. QED BY <1>3, <1>4, <1>5, <1>6, <1>7 DEF TypeOK

\* Every variable of the queue keeps its type.
THEOREM TypeCorrect == Spec => []TypeOK
<1>1. Init => TypeOK
  BY InitType
<1>2. TypeOK /\ [Next]_vars => TypeOK'
  <2> SUFFICES ASSUME TypeOK, [Next]_vars PROVE TypeOK'
    OBVIOUS
  <2>1. ASSUME NEW r \in Requests, QueueMessage(r) PROVE TypeOK'
    BY <2>1, EnqueueType DEF QueueMessage, TypeOK
  <2>2. CASE Process
    BY <2>2, UpdateType DEF Process, TypeOK
  <2>3. CASE StartFrame
    BY <2>3 DEF StartFrame, TypeOK, ring, link, told
  <2>4. CASE EndFrame
    BY <2>4 DEF EndFrame, TypeOK, ring, link, told
  <2>5. ASSUME NEW r \in Requests, NEW resp \in {"ACK", "NAK"}, PanelAnswers(r, resp)
        PROVE  TypeOK'
    <3>1. /\ tail' \in Slots /\ queue' \in [Slots -> Slot]
          /\ expired' \in BOOLEAN /\ reading_message' \in BOOLEAN
          /\ wire' \subseteq Requests /\ submitted' \subseteq Requests
          /\ executed' \subseteq Requests
      BY <2>5 DEF PanelAnswers, TypeOK
    <3>2. ReceiveResponse(resp)
      BY <2>5 DEF PanelAnswers
    <3>3. QED BY <3>1, <3>2, ReceiveType DEF TypeOK
  <2>6. ASSUME NEW r \in Requests, Lose(r) PROVE TypeOK'
    BY <2>6 DEF Lose, TypeOK, ring, link, told
  <2>7. CASE Expire
    BY <2>7 DEF Expire, TypeOK, ring, told
  <2>8. CASE UNCHANGED vars
    BY <2>8 DEF vars, TypeOK, ring, link, told
  <2>9. QED
    BY <2>1, <2>2, <2>3, <2>4, <2>5, <2>6, <2>7, <2>8 DEF Next
<1>3. QED BY <1>1, <1>2, PTL DEF Spec

-----------------------------------------------------------------------------
(* The ring and the history of callbacks.                                  *)

\* RingOK looks at the requests in the slots, not at their attempts.
LEMMA RingKept ==
  ASSUME NEW h \in Slots, NEW t \in Slots,
         NEW slots, NEW other, NEW sub, NEW cl,
         \A i \in Slots : other[i].req = slots[i].req,
         RingOK(h, t, slots, sub, cl)
  PROVE  RingOK(h, t, other, sub, cl)
BY DEF RingOK

\* A new request written to the tail slot of a ring that does not fill.
LEMMA RingPush ==
  ASSUME NEW h \in Slots, NEW t \in Slots, NEW slots \in [Slots -> Slot],
         NEW sub \in SUBSET Requests, NEW cl,
         NEW r \in Requests \ sub,
         Succ(t) # h,
         RingOK(h, t, slots, sub, cl)
  PROVE  RingOK(h, Succ(t), [slots EXCEPT ![t] = [req |-> r, attempts |-> 0]],
                sub \union {r}, cl)
<1> DEFINE new  == [slots EXCEPT ![t] = [req |-> r, attempts |-> 0]]
           sub2 == sub \union {r}
<1>1. new[t].req = r /\ \A i \in Slots : i # t => new[i] = slots[i]
  OBVIOUS
<1>2. \A i \in Slots : Between(h, Succ(t), i) <=> Between(h, t, i) \/ i = t
  BY PushBetween
<1>3. ~ Between(h, t, t)
  BY HeadBetween
<1>4. cl[r] = 0
  BY DEF RingOK
<1> HIDE DEF new
<1>5. \A i \in Slots : Between(h, Succ(t), i) => new[i].req \in sub2 /\ cl[new[i].req] = 0
  BY <1>1, <1>2, <1>3, <1>4 DEF RingOK
<1>6. \A i, j \in Slots :
        Between(h, Succ(t), i) /\ Between(h, Succ(t), j) /\ new[i].req = new[j].req => i = j
  BY <1>1, <1>2, <1>3 DEF RingOK
<1>7. \A q \in sub2 \intersect Watched :
        cl[q] = 0 => \E i \in Slots : Between(h, Succ(t), i) /\ new[i].req = q
  <2> SUFFICES ASSUME NEW q \in sub2 \intersect Watched, cl[q] = 0
               PROVE  \E i \in Slots : Between(h, Succ(t), i) /\ new[i].req = q
    OBVIOUS
  <2>1. CASE q = r
    BY <2>1, <1>1, <1>2
  <2>2. CASE q # r
    <3>1. PICK i \in Slots : Between(h, t, i) /\ slots[i].req = q
      BY <2>2 DEF RingOK
    <3>2. QED BY <3>1, <1>1, <1>2, <1>3
  <2>3. QED BY <2>1, <2>2
<1>8. /\ \A q \in Requests \ sub2 : cl[q] = 0
      /\ \A q \in Requests : cl[q] <= 1
  BY DEF RingOK
<1>9. QED BY <1>5, <1>6, <1>7, <1>8 DEF RingOK, new

\* The head request leaves the ring and is told, when it has a callback.
LEMMA RingPop ==
  ASSUME TypeOK, NEW h \in Slots, NEW t \in Slots, NEW slots \in [Slots -> Slot],
         NEW sub \in SUBSET Requests, NEW status,
         h # t,
         RingOK(h, t, slots, sub, calls),
         CallFinished(slots[h].req, status)
  PROVE  RingOK(Succ(h), t, slots, sub, calls')
<1> DEFINE r == slots[h].req
<1>1. \A i \in Slots : Between(Succ(h), t, i) <=> Between(h, t, i) /\ i # h
  BY PopBetween
<1>2. Between(h, t, h)
  BY HeadBetween
<1>3. r \in sub /\ calls[r] = 0
  BY <1>2 DEF RingOK
<1>4. /\ \A q \in Requests : q # r => calls'[q] = calls[q]
      /\ r \in Watched => calls'[r] = 1
      /\ r \notin Watched => calls'[r] = calls[r]
  BY <1>3 DEF CallFinished, told, TypeOK
<1> HIDE DEF r
<1>5. \A i \in Slots : Between(Succ(h), t, i) =>
        slots[i].req \in sub /\ slots[i].req # r
  BY <1>1, <1>2 DEF RingOK, r
<1>6. \A i \in Slots : Between(Succ(h), t, i) =>
        slots[i].req \in sub /\ calls'[slots[i].req] = 0
  BY <1>1, <1>4, <1>5 DEF RingOK
<1>7. \A i, j \in Slots :
        Between(Succ(h), t, i) /\ Between(Succ(h), t, j) /\ slots[i].req = slots[j].req => i = j
  BY <1>1 DEF RingOK
<1>8. \A q \in sub \intersect Watched :
        calls'[q] = 0 => \E i \in Slots : Between(Succ(h), t, i) /\ slots[i].req = q
  <2> SUFFICES ASSUME NEW q \in sub \intersect Watched, calls'[q] = 0
               PROVE  \E i \in Slots : Between(Succ(h), t, i) /\ slots[i].req = q
    OBVIOUS
  <2>1. q # r /\ calls[q] = 0
    BY <1>4
  <2>2. PICK i \in Slots : Between(h, t, i) /\ slots[i].req = q
    BY <2>1 DEF RingOK
  <2>3. QED BY <2>1, <2>2, <1>1 DEF r
<1>9. \A q \in Requests \ sub : calls'[q] = 0
  BY <1>3, <1>4 DEF RingOK
<1>10. \A q \in Requests : calls'[q] <= 1
  BY <1>3, <1>4 DEF RingOK
<1>11. QED BY <1>6, <1>7, <1>8, <1>9, <1>10 DEF RingOK

-----------------------------------------------------------------------------
(* Delivery.                                                               *)

\* ge_queue_update() keeps both parts of the invariant.
LEMMA UpdateDelivery ==
  ASSUME TypeOK, ~ LastTimeouts,
         NEW t \in Slots, NEW slots \in [Slots -> Slot],
         NEW sub \in SUBSET Requests,
         RingOK(head, t, slots, sub, calls),
         LinkOK(head, t, slots, last_response, got_response, expired),
         QueueUpdate(t, slots)
  PROVE  /\ RingOK(head', t, queue', sub, calls')
         /\ LinkOK(head', t, queue', last_response', got_response', expired')
<1> DEFINE status == ReadyToSend(last_response)
           pops   == status = "TIMEOUT" /\ got_response /\ PopsHead(slots, status)
           h      == IF pops THEN Succ(head) ELSE head
           sent   == [slots EXCEPT ![h].attempts = IF @ + 1 = AttemptMod THEN 0 ELSE @ + 1]
<1>1. CASE head = t \/ status = "WAIT"
  <2>1. queue' = slots /\ UNCHANGED <<head, last_response, got_response, expired, calls>>
    BY <1>1 DEF QueueUpdate, link, told
  <2>2. QED BY <2>1
<1>2. CASE ~ (head = t \/ status = "WAIT")
  <2>1. /\ head' = h
        /\ queue' = sent
        /\ got_response' = TRUE
        /\ SendMessage(h, t, sent)
        /\ IF pops THEN CallFinished(slots[head].req, status) ELSE UNCHANGED told
    BY <1>2 DEF QueueUpdate
  <2>2. head \in Slots /\ h \in Slots
    BY SuccType DEF TypeOK
  <2>3. h # t
    <3>1. CASE pops
      <4>1. last_response = "none" /\ expired
        BY <3>1 DEF ReadyToSend
      <4>2. slots[head].attempts >= MaxAttempts
        BY <3>1 DEF PopsHead
      <4>3. Succ(head) # t
        BY <4>1, <4>2 DEF LinkOK, FinalTry
      <4>4. QED BY <3>1, <4>3
    <3>2. CASE ~ pops
      BY <1>2, <3>2
    <3>3. QED BY <3>1, <3>2
  <2>4. RingOK(h, t, slots, sub, calls')
    <3>1. CASE pops
      <4>1. CallFinished(slots[head].req, status)
        BY <2>1, <3>1
      <4>2. RingOK(Succ(head), t, slots, sub, calls')
        BY <4>1, <1>2, <2>2, RingPop
      <4>3. QED BY <3>1, <4>2
    <3>2. CASE ~ pops
      BY <2>1, <3>2 DEF told
    <3>3. QED BY <3>1, <3>2
  <2>5. \A i \in Slots : sent[i].req = slots[i].req
    BY <2>2 DEF Slot
  <2>6. RingOK(head', t, queue', sub, calls')
    BY <2>1, <2>2, <2>4, <2>5, RingKept
  <2>7. sent[h].req \in Requests
    <3>1. Between(h, t, h)
      BY <2>2, <2>3, HeadBetween
    <3>2. slots[h].req \in sub
      BY <2>2, <2>4, <3>1 DEF RingOK
    <3>3. QED BY <2>2, <2>5, <3>2
  <2>8. last_response' = "none" /\ (expired' = FALSE \/ ~ FinalTry(h, t, sent))
    <3>1. sent[h].req # NoReq
      BY <2>7, IdentitiesAssumption
    <3>2. QED BY <2>1, <3>1 DEF SendMessage
  <2>9. LinkOK(head', t, queue', last_response', got_response', expired')
    BY <2>1, <2>3, <2>8 DEF LinkOK
  <2>10. QED BY <2>6, <2>9
<1>3. QED BY <1>1, <1>2

\* What ge_queue_update() does to a ring that is in order: nothing, or it puts the
\* head message on the line, the next one if it gives up the one before.
LEMMA UpdateSends ==
  ASSUME TypeOK, ~ LastTimeouts,
         NEW t \in Slots, NEW slots \in [Slots -> Slot],
         NEW sub \in SUBSET Requests,
         RingOK(head, t, slots, sub, calls),
         LinkOK(head, t, slots, last_response, got_response, expired),
         QueueUpdate(t, slots)
  PROVE  \/ /\ head = t \/ (last_response = "none" /\ ~ expired)
            /\ queue' = slots
            /\ UNCHANGED <<head, last_response, got_response, expired, wire, calls, result>>
         \/ /\ last_response # "none" \/ expired
            /\ head # t /\ head' # t /\ last_response' = "none"
            /\ \A i \in Slots : queue'[i].req = slots[i].req
            /\ \/ wire' = wire \union {queue'[head'].req} /\ expired' = FALSE
               \/ UNCHANGED <<wire, expired>>
            /\ \/ UNCHANGED <<head, calls, result>>
               \/ /\ last_response = "none" /\ expired
                  /\ head' = Succ(head)
                  /\ CallFinished(slots[head].req, "TIMEOUT")
<1> DEFINE status == ReadyToSend(last_response)
           pops   == status = "TIMEOUT" /\ got_response /\ PopsHead(slots, status)
           h      == IF pops THEN Succ(head) ELSE head
           sent   == [slots EXCEPT ![h].attempts = IF @ + 1 = AttemptMod THEN 0 ELSE @ + 1]
<1>1. CASE head = t \/ status = "WAIT"
  BY <1>1 DEF QueueUpdate, ReadyToSend, TypeOK, link, told
<1>2. CASE ~ (head = t \/ status = "WAIT")
  <2>1. /\ head' = h
        /\ queue' = sent
        /\ got_response' = TRUE
        /\ SendMessage(h, t, sent)
        /\ IF pops THEN CallFinished(slots[head].req, status) ELSE UNCHANGED told
    BY <1>2 DEF QueueUpdate
  <2>2. /\ RingOK(head', t, queue', sub, calls')
        /\ LinkOK(head', t, queue', last_response', got_response', expired')
    BY UpdateDelivery
  <2>3. head \in Slots /\ h \in Slots
    BY SuccType DEF TypeOK
  <2>4. head' # t
    BY <2>1, <2>2 DEF LinkOK
  <2>5. queue'[head'].req \in Requests
    BY <2>1, <2>2, <2>3, <2>4, HeadBetween DEF RingOK
  <2>6. \A i \in Slots : queue'[i].req = slots[i].req
    BY <2>1, <2>3 DEF Slot
  <2>7. /\ last_response' = "none"
        /\ \/ wire' = wire \union {queue'[head'].req} /\ expired' = FALSE
           \/ UNCHANGED <<wire, expired>>
    BY <2>1, <2>5, IdentitiesAssumption DEF SendMessage
  <2>8. last_response # "none" \/ expired
    BY <1>2 DEF ReadyToSend
  <2>9. CASE pops
    <3>1. last_response = "none" /\ expired /\ status = "TIMEOUT"
      BY <2>9 DEF ReadyToSend
    <3>2. QED BY <1>2, <2>1, <2>4, <2>6, <2>7, <2>9, <3>1
  <2>10. CASE ~ pops
    BY <1>2, <2>1, <2>4, <2>6, <2>7, <2>8, <2>10 DEF told
  <2>11. QED BY <2>9, <2>10
<1>3. QED BY <1>1, <1>2

\* The messages ge_queue_message() finds in the ring, with the new one.
LEMMA EnqueueUpdates ==
  ASSUME MaxPending < QueueSize, TypeOK, DeliveryInv, NEW r \in Requests, Enqueue(r),
         NEW slots, slots = [queue EXCEPT ![tail] = [req |-> r, attempts |-> 0]]
  PROVE  /\ Succ(tail) \in Slots /\ Succ(tail) # head
         /\ slots \in [Slots -> Slot]
         /\ \A i \in Slots : slots[i].req = IF i = tail THEN r ELSE queue[i].req
         /\ RingOK(head, Succ(tail), slots, submitted \union {r}, calls)
         /\ LinkOK(head, Succ(tail), slots, last_response, got_response, expired)
         /\ QueueUpdate(Succ(tail), slots)
<1>1. r \notin submitted /\ QueueUpdate(Succ(tail), slots)
  BY DEF Enqueue
<1>2. head \in Slots /\ tail \in Slots /\ Succ(tail) \in Slots
  BY SuccType DEF TypeOK
<1>3. Succ(tail) # head
  <2>1. Count < QueueSize - 1
    BY SizesAssumption, <1>2 DEF Enqueue, Count, Slots
  <2>2. QED BY <2>1, <1>2, SizesAssumption DEF Count, Succ, Slots
<1>4. slots \in [Slots -> Slot]
  BY <1>2, SizesAssumption DEF TypeOK, Slot
<1>5. \A i \in Slots : slots[i].req = IF i = tail THEN r ELSE queue[i].req
  BY <1>2 DEF TypeOK
<1>6. RingOK(head, Succ(tail), slots, submitted \union {r}, calls)
  BY <1>1, <1>2, <1>3, RingPush DEF DeliveryInv, TypeOK
<1>7. LinkOK(head, Succ(tail), slots, last_response, got_response, expired)
  <2>1. head = tail \/ (Succ(head) # Succ(tail) /\ slots[head] = queue[head])
    BY <1>2, SuccInjective DEF TypeOK
  <2>2. QED
    BY <1>3, <2>1 DEF DeliveryInv, LinkOK, FinalTry
<1>8. QED BY <1>1, <1>2, <1>3, <1>4, <1>5, <1>6, <1>7

\* ge_queue_message() keeps the invariant for callers that leave one slot free.
LEMMA EnqueueDelivery ==
  ASSUME MaxPending < QueueSize, ~ LastTimeouts,
         TypeOK, DeliveryInv, NEW r \in Requests, Enqueue(r)
  PROVE  DeliveryInv'
<1> DEFINE slots == [queue EXCEPT ![tail] = [req |-> r, attempts |-> 0]]
           sub   == submitted \union {r}
<1>1. submitted' = sub /\ tail' = Succ(tail) /\ sub \in SUBSET Requests
  BY DEF Enqueue, TypeOK
<1>2. /\ Succ(tail) \in Slots /\ slots \in [Slots -> Slot]
      /\ RingOK(head, Succ(tail), slots, sub, calls)
      /\ LinkOK(head, Succ(tail), slots, last_response, got_response, expired)
      /\ QueueUpdate(Succ(tail), slots)
  BY EnqueueUpdates
<1> HIDE DEF slots, sub
<1>3. /\ RingOK(head', Succ(tail), queue', sub, calls')
      /\ LinkOK(head', Succ(tail), queue', last_response', got_response', expired')
  BY <1>1, <1>2, UpdateDelivery
<1>4. QED BY <1>1, <1>3 DEF DeliveryInv

\* So does ge_queue_update() at the end of a turn of the main loop.
LEMMA ProcessDelivery ==
  ASSUME ~ LastTimeouts, TypeOK, DeliveryInv, Process
  PROVE  DeliveryInv'
<1>1. QueueUpdate(tail, queue) /\ tail' = tail /\ submitted' = submitted
  BY DEF Process
<1>2. /\ RingOK(head', tail, queue', submitted, calls')
      /\ LinkOK(head', tail, queue', last_response', got_response', expired')
  BY <1>1, UpdateDelivery DEF DeliveryInv, TypeOK
<1>3. QED BY <1>1, <1>2 DEF DeliveryInv

\* So does a response byte, awaited or not.
LEMMA ReceiveDelivery ==
  ASSUME TypeOK, DeliveryInv, NEW resp \in {"ACK", "NAK"}, ReceiveResponse(resp),
         UNCHANGED <<tail, queue, expired, submitted>>
  PROVE  DeliveryInv'
<1>1. CASE last_response # "none"
  BY <1>1 DEF ReceiveResponse, DeliveryInv, told
<1>2. CASE last_response = "none"
  <2>1. got_response /\ head # tail
    BY <1>2 DEF DeliveryInv, LinkOK
  <2>2. GotResponse(ReadyToSend(resp)) /\ last_response' = resp
    BY <1>2, <2>1 DEF ReceiveResponse
  <2>3. LinkOK(head', tail', queue', last_response', got_response', expired')
    BY <2>2 DEF GotResponse, LinkOK
  <2>4. CASE PopsHead(queue, ReadyToSend(resp))
    <3>1. head' = Succ(head) /\ CallFinished(queue[head].req, ReadyToSend(resp))
      BY <2>2, <2>4 DEF GotResponse
    <3>2. RingOK(Succ(head), tail, queue, submitted, calls')
      BY <3>1, <2>1, RingPop DEF DeliveryInv, TypeOK
    <3>3. QED BY <2>3, <3>1, <3>2 DEF DeliveryInv
  <2>5. CASE ~ PopsHead(queue, ReadyToSend(resp))
    <3>1. head' = head /\ calls' = calls
      BY <2>2, <2>5 DEF GotResponse, told
    <3>2. QED BY <2>3, <3>1 DEF DeliveryInv
  <2>6. QED BY <2>4, <2>5
<1>3. QED BY <1>1, <1>2

\* And so does the second that passes.
LEMMA ExpireDelivery == ASSUME ~ LastTimeouts, DeliveryInv, Expire PROVE DeliveryInv'
<1>1. /\ UNCHANGED <<head, tail, queue, last_response, got_response, submitted, calls>>
      /\ last_response = "none" => ~ FinalTry(head, tail, queue)
  BY DEF Expire, ring, told
<1>2. QED BY <1>1 DEF DeliveryInv, LinkOK

\* The invariant is inductive for callers that leave one slot free.
LEMMA DeliveryStep ==
  ASSUME MaxPending < QueueSize, ~ LastTimeouts,
         TypeOK, DeliveryInv, [Next]_vars
  PROVE  DeliveryInv'
<1>1. ASSUME NEW r \in Requests, QueueMessage(r) PROVE DeliveryInv'
  BY <1>1, EnqueueDelivery DEF QueueMessage
<1>2. CASE Process
  BY <1>2, ProcessDelivery
<1>3. CASE StartFrame \/ EndFrame
  BY <1>3 DEF StartFrame, EndFrame, DeliveryInv, ring, link, told
<1>4. ASSUME NEW r \in Requests, NEW resp \in {"ACK", "NAK"}, PanelAnswers(r, resp)
      PROVE  DeliveryInv'
  BY <1>4, ReceiveDelivery DEF PanelAnswers
<1>5. ASSUME NEW r \in Requests, Lose(r) PROVE DeliveryInv'
  BY <1>5 DEF Lose, DeliveryInv, ring, link, told
<1>6. CASE Expire
  BY <1>6, ExpireDelivery
<1>7. CASE UNCHANGED vars
  BY <1>7 DEF vars, DeliveryInv, ring, link, told
<1>8. QED
  BY <1>1, <1>2, <1>3, <1>4, <1>5, <1>6, <1>7 DEF Next

\* The invariant holds of the empty ring.
LEMMA InitDelivery == ASSUME Init PROVE DeliveryInv
<1>1. \A i \in Slots : ~ Between(head, tail, i)
  BY SizesAssumption DEF Init, Between, Slots
<1>2. submitted = {} /\ \A r \in Requests : calls[r] = 0
  BY DEF Init
<1>3. RingOK(head, tail, queue, submitted, calls)
  BY <1>1, <1>2 DEF RingOK
<1>4. LinkOK(head, tail, queue, last_response, got_response, expired)
  BY DEF Init, LinkOK
<1>5. QED BY <1>3, <1>4 DEF DeliveryInv

\* For every ring size and every panel, also one that answers late or twice:
\* as long as callers leave a slot of the ring free and the panel does not
\* stay silent on the last attempt of the only queued message, the invariant
\* of ge_queue_message(), ge_queue_update() and ge_queue_got_response() holds.
THEOREM Delivery ==
  ASSUME MaxPending < QueueSize, ~ LastTimeouts
  PROVE  Spec => []DeliveryInv
<1>1. Init => DeliveryInv
  BY InitDelivery
<1>2. TypeOK /\ DeliveryInv /\ [Next]_vars => DeliveryInv'
  BY DeliveryStep
<1>3. QED BY <1>1, <1>2, TypeCorrect, PTL DEF Spec

\* Under the same conditions no request has its finished() callback called
\* twice.
THEOREM CalledOnce ==
  ASSUME MaxPending < QueueSize, ~ LastTimeouts
  PROVE  Spec => []AtMostOnce
<1>1. DeliveryInv => AtMostOnce
  BY DEF DeliveryInv, RingOK, AtMostOnce
<1>2. QED BY <1>1, Delivery, PTL

\* Under the same conditions a request whose callback has not run is still in
\* the ring.
THEOREM Remembered ==
  ASSUME MaxPending < QueueSize, ~ LastTimeouts
  PROVE  Spec => []NothingForgotten
<1>1. DeliveryInv => NothingForgotten
  BY DEF DeliveryInv, RingOK, NothingForgotten
<1>2. QED BY <1>1, Delivery, PTL

-----------------------------------------------------------------------------
(* Stop and wait.                                                          *)

\* A response that ge_queue_update() waits for finds ge_queue_got_response()
\* armed: for every ring, full ones included, and every panel.
THEOREM AnswerHeard == Spec => []AwaitedAnswerIsHeard
<1>1. Init => AwaitedAnswerIsHeard
  BY DEF Init, AwaitedAnswerIsHeard
<1>2. AwaitedAnswerIsHeard /\ [Next]_vars => AwaitedAnswerIsHeard'
  <2> SUFFICES ASSUME AwaitedAnswerIsHeard, [Next]_vars PROVE AwaitedAnswerIsHeard'
    OBVIOUS
  <2>1. ASSUME NEW t, NEW slots, QueueUpdate(t, slots) PROVE AwaitedAnswerIsHeard'
    BY <2>1 DEF QueueUpdate, AwaitedAnswerIsHeard, link
  <2>2. ASSUME NEW r \in Requests, QueueMessage(r) PROVE AwaitedAnswerIsHeard'
    BY <2>1, <2>2 DEF QueueMessage, Enqueue
  <2>3. CASE Process
    BY <2>1, <2>3 DEF Process
  <2>4. ASSUME NEW r \in Requests, NEW resp \in {"ACK", "NAK"}, PanelAnswers(r, resp)
        PROVE  AwaitedAnswerIsHeard'
    BY <2>4 DEF PanelAnswers, ReceiveResponse, AwaitedAnswerIsHeard
  <2>5. CASE StartFrame \/ EndFrame \/ Expire \/ UNCHANGED vars \/ \E r \in Requests : Lose(r)
    BY <2>5 DEF StartFrame, EndFrame, Expire, Lose, vars, link, AwaitedAnswerIsHeard
  <2>6. QED BY <2>2, <2>3, <2>4, <2>5 DEF Next
<1>3. QED BY <1>1, <1>2, PTL DEF Spec

\* Nothing is sent while a response may still come in time: for every ring and
\* every panel, and whatever calls ge_queue_update().
THEOREM Waits == Spec => StopAndWait
<1>1. [Next]_vars => (last_response = "none" /\ ~ expired => wire' \subseteq wire)
  <2> SUFFICES ASSUME [Next]_vars, last_response = "none", ~ expired
               PROVE  wire' \subseteq wire
    OBVIOUS
  <2>1. ASSUME NEW t, NEW slots, QueueUpdate(t, slots) PROVE wire' = wire
    BY <2>1 DEF QueueUpdate, ReadyToSend
  <2>2. ASSUME NEW r \in Requests, QueueMessage(r) PROVE wire' = wire
    BY <2>1, <2>2 DEF QueueMessage, Enqueue
  <2>3. CASE Process
    BY <2>1, <2>3 DEF Process
  <2>4. ASSUME NEW r \in Requests, NEW resp \in {"ACK", "NAK"}, PanelAnswers(r, resp)
        PROVE  wire' \subseteq wire
    BY <2>4 DEF PanelAnswers
  <2>5. CASE StartFrame \/ EndFrame \/ Expire \/ UNCHANGED vars \/ \E r \in Requests : Lose(r)
    BY <2>5 DEF StartFrame, EndFrame, Expire, Lose, vars
  <2>6. QED BY <2>2, <2>3, <2>4, <2>5 DEF Next
<1>2. [Next]_vars =>
        [last_response = "none" /\ ~ expired => wire' \subseteq wire]_vars
  BY <1>1
<1>3. QED BY <1>2, PTL DEF Spec, StopAndWait

-----------------------------------------------------------------------------
(* A panel that answers in time.                                           *)

\* What the panel has yet to answer is the head message, and its second has
\* not passed.
InTime == OnlyHeadInFlight /\ (wire # {} => ~ expired)

\* ge_queue_update() keeps it so.
LEMMA UpdateInTime ==
  ASSUME TypeOK, ~ LastTimeouts,
         NEW t \in Slots, NEW slots \in [Slots -> Slot],
         NEW sub \in SUBSET Requests,
         RingOK(head, t, slots, sub, calls),
         LinkOK(head, t, slots, last_response, got_response, expired),
         wire # {} => /\ last_response = "none" /\ ~ expired /\ head # t
                      /\ wire = {slots[head].req},
         QueueUpdate(t, slots)
  PROVE  wire' # {} => /\ last_response' = "none" /\ ~ expired' /\ head' # t
                       /\ wire' = {queue'[head'].req}
BY UpdateSends

\* If the panel answers within a second or not at all, what it has yet to answer is
\* the head message: a response byte belongs to the message it is taken for.
THEOREM HeadInFlight ==
  ASSUME MaxPending < QueueSize, ~ LastTimeouts, ~ LateAnswers
  PROVE  Spec => []OnlyHeadInFlight
<1>1. Init => InTime
  BY DEF Init, InTime, OnlyHeadInFlight
<1>2. TypeOK /\ DeliveryInv /\ InTime /\ [Next]_vars => InTime'
  <2> SUFFICES ASSUME TypeOK, DeliveryInv, InTime, [Next]_vars PROVE InTime'
    OBVIOUS
  <2>1. ASSUME NEW r \in Requests, QueueMessage(r) PROVE InTime'
    <3> DEFINE slots == [queue EXCEPT ![tail] = [req |-> r, attempts |-> 0]]
    <3>1. /\ Succ(tail) \in Slots /\ Succ(tail) # head /\ slots \in [Slots -> Slot]
          /\ \A i \in Slots : slots[i].req = IF i = tail THEN r ELSE queue[i].req
          /\ RingOK(head, Succ(tail), slots, submitted \union {r}, calls)
          /\ LinkOK(head, Succ(tail), slots, last_response, got_response, expired)
          /\ QueueUpdate(Succ(tail), slots)
      BY <2>1, EnqueueUpdates DEF QueueMessage
    <3>2. tail' = Succ(tail)
      BY <2>1 DEF QueueMessage, Enqueue
    <3> HIDE DEF slots
    <3>3. wire # {} => wire = {slots[head].req}
      BY <3>1 DEF InTime, OnlyHeadInFlight, TypeOK
    <3>4. QED
      BY <3>1, <3>2, <3>3, UpdateInTime DEF InTime, OnlyHeadInFlight, TypeOK
  <2>2. CASE Process
    BY <2>2, UpdateInTime DEF Process, InTime, OnlyHeadInFlight, DeliveryInv, TypeOK
  <2>3. CASE StartFrame \/ EndFrame \/ UNCHANGED vars
    BY <2>3 DEF StartFrame, EndFrame, vars, InTime, OnlyHeadInFlight, ring, link, told
  <2>4. ASSUME NEW r \in Requests, NEW resp \in {"ACK", "NAK"}, PanelAnswers(r, resp)
        PROVE  InTime'
    BY <2>4 DEF PanelAnswers, InTime, OnlyHeadInFlight
  <2>5. ASSUME NEW r \in Requests, Lose(r) PROVE InTime'
    BY <2>5 DEF Lose, InTime, OnlyHeadInFlight, ring, link
  <2>6. CASE Expire
    BY <2>6 DEF Expire, InTime, OnlyHeadInFlight, ring
  <2>7. QED BY <2>1, <2>2, <2>3, <2>4, <2>5, <2>6 DEF Next
<1>3. InTime => OnlyHeadInFlight
  BY DEF InTime
<1>4. QED BY <1>1, <1>2, <1>3, TypeCorrect, Delivery, PTL DEF Spec

-----------------------------------------------------------------------------
(* The ring as a sequence, for any head, tail and slots.                   *)

\* How many slots there are from h to t, and the i-th of them.
Length(h, t) == IF h <= t THEN t - h ELSE t - h + QueueSize
SlotOf(h, i) == IF h + i - 1 < QueueSize THEN h + i - 1 ELSE h + i - 1 - QueueSize

Line(h, t, slots) == [i \in 1 .. Length(h, t) |-> slots[SlotOf(h, i)].req]

\* What a slot of the ring stands for: a request, or nothing yet.
Waiting == Requests \union {NoReq}

\* The line is a sequence of as many requests as there are slots in use.
LEMMA LineType ==
  ASSUME NEW h \in Slots, NEW t \in Slots, NEW slots \in [Slots -> Slot]
  PROVE  /\ Length(h, t) \in Nat
         /\ \A i \in 1 .. Length(h, t) : SlotOf(h, i) \in Slots
         /\ Line(h, t, slots) \in Seq(Waiting)
         /\ Len(Line(h, t, slots)) = Length(h, t)
         /\ \A i \in 1 .. Length(h, t) : Line(h, t, slots)[i] = slots[SlotOf(h, i)].req
<1>1. Length(h, t) \in Nat
  BY SizesAssumption DEF Slots, Length
<1>2. ASSUME NEW i \in 1 .. Length(h, t) PROVE SlotOf(h, i) \in Slots
  BY <1>2, SizesAssumption DEF Slots, Length, SlotOf
<1>3. ASSUME NEW i \in 1 .. Length(h, t) PROVE slots[SlotOf(h, i)].req \in Waiting
  BY <1>2, <1>3 DEF Slot, Waiting
<1>4. Line(h, t, slots) \in [1 .. Length(h, t) -> Waiting]
  BY <1>3 DEF Line
<1>5. Line(h, t, slots) \in Seq(Waiting) /\ Len(Line(h, t, slots)) = Length(h, t)
  BY <1>1, <1>4
<1>6. QED BY <1>1, <1>2, <1>5 DEF Line

\* Two rings whose slots hold the same requests are the same line.
LEMMA LineKept ==
  ASSUME NEW h \in Slots, NEW t \in Slots, NEW slots, NEW other,
         slots \in [Slots -> Slot], \A i \in Slots : other[i].req = slots[i].req
  PROVE  Line(h, t, other) = Line(h, t, slots)
BY LineType DEF Line

\* The slots from a head that has moved on are those behind the first.
LEMMA SuccSlot ==
  ASSUME NEW h \in Slots, NEW t \in Slots, h # t
  PROVE  /\ Length(Succ(h), t) = Length(h, t) - 1
         /\ \A i \in 1 .. Length(h, t) - 1 : SlotOf(Succ(h), i) = SlotOf(h, i + 1)
         /\ SlotOf(h, 1) = h
BY SizesAssumption DEF Slots, Length, SlotOf, Succ

\* The request that leaves the ring is the head of the line.
LEMMA LinePop ==
  ASSUME NEW h \in Slots, NEW t \in Slots, h # t, NEW slots \in [Slots -> Slot]
  PROVE  /\ Line(h, t, slots) # <<>>
         /\ Head(Line(h, t, slots)) = slots[h].req
         /\ Line(Succ(h), t, slots) = Tail(Line(h, t, slots))
<1> DEFINE before == Line(h, t, slots)
           after  == Line(Succ(h), t, slots)
<1>1. Length(h, t) \in Nat /\ Length(h, t) > 0
  BY SizesAssumption DEF Slots, Length
<1>2. /\ before \in Seq(Waiting) /\ Len(before) = Length(h, t)
      /\ \A i \in 1 .. Length(h, t) : before[i] = slots[SlotOf(h, i)].req
  BY LineType
<1>3. /\ after \in Seq(Waiting) /\ Len(after) = Length(Succ(h), t)
      /\ \A i \in 1 .. Length(Succ(h), t) : after[i] = slots[SlotOf(Succ(h), i)].req
  BY LineType, SuccType
<1> HIDE DEF before, after
<1>4. before # <<>> /\ Head(before) = slots[h].req
  BY <1>1, <1>2, SuccSlot
<1>5. /\ Tail(before) \in Seq(Waiting) /\ Len(Tail(before)) = Length(h, t) - 1
      /\ \A i \in 1 .. Length(h, t) - 1 : Tail(before)[i] = before[i + 1]
  BY <1>2, <1>4, HeadTailProperties
<1>6. \A i \in 1 .. Length(h, t) - 1 : after[i] = Tail(before)[i]
  <2>1. ASSUME NEW i \in 1 .. Length(h, t) - 1 PROVE after[i] = Tail(before)[i]
    <3>1. Length(Succ(h), t) = Length(h, t) - 1 /\ SlotOf(Succ(h), i) = SlotOf(h, i + 1)
      BY SuccSlot
    <3>2. after[i] = slots[SlotOf(h, i + 1)].req
      BY <1>3, <3>1
    <3>3. Tail(before)[i] = before[i + 1] /\ i + 1 \in 1 .. Length(h, t)
      BY <1>1, <1>5
    <3>4. QED BY <1>2, <3>2, <3>3
  <2>2. QED BY <2>1
<1>7. after = Tail(before)
  <2>1. Len(after) = Length(h, t) - 1
    BY <1>3, SuccSlot
  <2>2. \A i \in 1 .. Len(after) : after[i] = Tail(before)[i]
    BY <1>6, <2>1
  <2>3. QED BY <1>3, <1>5, <2>1, <2>2, SeqEqual
<1>8. QED BY <1>4, <1>7 DEF before, after

\* A request written to the tail slot joins the line at its end.
LEMMA LinePush ==
  ASSUME NEW h \in Slots, NEW t \in Slots, Succ(t) # h,
         NEW before \in [Slots -> Slot], NEW slots \in [Slots -> Slot], NEW r \in Requests,
         \A i \in Slots : slots[i].req = IF i = t THEN r ELSE before[i].req
  PROVE  Line(h, Succ(t), slots) = Append(Line(h, t, before), r)
<1> DEFINE n    == Length(h, t)
           old  == Line(h, t, before)
           new  == Line(h, Succ(t), slots)
           long == Append(old, r)
<1>1. /\ n \in Nat /\ Length(h, Succ(t)) = n + 1 /\ SlotOf(h, n + 1) = t
      /\ \A i \in 1 .. n : SlotOf(h, i) # t
  BY SizesAssumption DEF Slots, Length, SlotOf, Succ
<1>2. /\ old \in Seq(Waiting) /\ Len(old) = n
      /\ \A i \in 1 .. n : SlotOf(h, i) \in Slots /\ old[i] = before[SlotOf(h, i)].req
  BY LineType
<1>3. /\ new \in Seq(Waiting) /\ Len(new) = n + 1
      /\ \A i \in 1 .. n + 1 : new[i] = slots[SlotOf(h, i)].req
  <2>1. Succ(t) \in Slots
    BY SuccType
  <2>2. /\ new \in Seq(Waiting) /\ Len(new) = Length(h, Succ(t))
        /\ \A i \in 1 .. Length(h, Succ(t)) : new[i] = slots[SlotOf(h, i)].req
    BY <2>1, LineType
  <2> HIDE DEF n, old, new, long
  <2>3. QED BY <1>1, <2>2
<1> HIDE DEF n, old, new
<1>4. /\ long \in Seq(Waiting) /\ Len(long) = n + 1
      /\ \A i \in 1 .. n : long[i] = old[i]
      /\ long[n + 1] = r
  BY <1>2, AppendProperties DEF Waiting
<1> HIDE DEF long
<1>5. ASSUME NEW i \in 1 .. n + 1 PROVE new[i] = long[i]
  <2>1. CASE i = n + 1
    BY <2>1, <1>1, <1>3, <1>4
  <2>2. CASE i # n + 1
    <3>1. i \in 1 .. n
      BY <2>2, <1>1
    <3>2. QED BY <3>1, <1>1, <1>2, <1>3, <1>4
  <2>3. QED BY <2>1, <2>2
<1>6. new = long
  BY <1>3, <1>4, <1>5, SeqEqual
<1>7. QED BY <1>6 DEF new, old, long

-----------------------------------------------------------------------------
(* The refinement.                                                         *)

\* What the refinement mapping gives CommandService is this line, before a step
\* and after it.
LEMMA PendingIsLine ==
  /\ Pending = Line(head, tail, queue)
  /\ Pending' = Line(head', tail', queue')
BY DEF Pending, Count, SlotAt, Line, Length, SlotOf

\* The status a request is told with is the one CommandService tells the oldest.
LEMMA Told ==
  ASSUME NEW status, Pending # <<>>, CallFinished(Head(Pending), status)
  PROVE  Service!Tell(status)
BY DEF Service!Tell, CallFinished, told

\* ge_queue_update(), called on its own, is nothing to the service or completes the
\* oldest request.
LEMMA ProcessImplements ==
  ASSUME ~ LastTimeouts, TypeOK, DeliveryInv, Process
  PROVE  [Service!Next]_Service!vars
<1>1. /\ QueueUpdate(tail, queue) /\ tail' = tail /\ submitted' = submitted
      /\ head \in Slots /\ tail \in Slots /\ queue \in [Slots -> Slot]
  BY DEF Process, TypeOK
<1>2. head' \in Slots /\ queue' \in [Slots -> Slot]
  BY <1>1, UpdateType
<1>3. CASE UNCHANGED <<head, queue, result>>
  BY <1>1, <1>3, PendingIsLine DEF Service!vars
<1>4. CASE /\ head # tail
           /\ \A i \in Slots : queue'[i].req = queue[i].req
           /\ UNCHANGED <<head, result>>
  <2>1. Line(head, tail, queue') = Line(head, tail, queue)
    BY <1>1, <1>4, LineKept
  <2>2. QED BY <1>1, <1>4, <2>1, PendingIsLine DEF Service!vars
<1>5. CASE /\ head # tail
           /\ \A i \in Slots : queue'[i].req = queue[i].req
           /\ head' = Succ(head)
           /\ CallFinished(queue[head].req, "TIMEOUT")
  <2>1. /\ Pending # <<>> /\ Head(Pending) = queue[head].req
        /\ Line(Succ(head), tail, queue) = Tail(Pending)
    BY <1>1, <1>5, LinePop, PendingIsLine
  <2>2. Pending' = Tail(Pending)
    <3>1. Line(head', tail', queue') = Line(Succ(head), tail, queue)
      <4>1. head' = Succ(head) /\ tail' = tail /\ \A i \in Slots : queue'[i].req = queue[i].req
        BY <1>1, <1>5
      <4>2. Succ(head) \in Slots /\ tail \in Slots /\ queue \in [Slots -> Slot]
        BY <1>1, SuccType
      <4>3. QED BY <4>1, <4>2, LineKept
    <3>2. QED BY Zenon, <2>1, <3>1, PendingIsLine
  <2>3. Service!Complete("TIMEOUT")
    BY <1>1, <1>5, <2>1, <2>2, Told DEF Service!Complete
  <2>4. QED BY <2>3 DEF Service!Next, Service!Statuses
<1>6. QED
  BY <1>1, <1>3, <1>4, <1>5, UpdateSends DEF DeliveryInv, TypeOK

\* ge_queue_message() submits the request, and may complete the oldest as well.
LEMMA EnqueueImplements ==
  ASSUME MaxPending < QueueSize, ~ LastTimeouts,
         TypeOK, DeliveryInv, NEW r \in Requests, Enqueue(r)
  PROVE  Service!Next
<1> DEFINE slots == [queue EXCEPT ![tail] = [req |-> r, attempts |-> 0]]
           sub   == submitted \union {r}
<1>1. /\ r \notin submitted /\ submitted' = sub /\ tail' = Succ(tail)
      /\ sub \in SUBSET Requests
      /\ head \in Slots /\ tail \in Slots /\ queue \in [Slots -> Slot]
  BY DEF Enqueue, TypeOK
<1>2. /\ Succ(tail) \in Slots /\ Succ(tail) # head /\ slots \in [Slots -> Slot]
      /\ \A i \in Slots : slots[i].req = IF i = tail THEN r ELSE queue[i].req
      /\ RingOK(head, Succ(tail), slots, sub, calls)
      /\ LinkOK(head, Succ(tail), slots, last_response, got_response, expired)
      /\ QueueUpdate(Succ(tail), slots)
  BY EnqueueUpdates
<1> HIDE DEF slots
<1>3. head' \in Slots /\ queue' \in [Slots -> Slot]
  BY <1>2, UpdateType
<1>4. Line(head, Succ(tail), slots) = Append(Pending, r)
  BY <1>1, <1>2, LinePush, PendingIsLine
<1>5. CASE /\ \A i \in Slots : queue'[i].req = slots[i].req
           /\ UNCHANGED <<head, result>>
  <2>1. Pending' = Append(Pending, r)
    <3>1. Line(head', tail', queue') = Line(head, Succ(tail), slots)
      <4>1. head' = head /\ tail' = Succ(tail) /\ \A i \in Slots : queue'[i].req = slots[i].req
        BY <1>1, <1>5
      <4>2. Succ(tail) \in Slots /\ slots \in [Slots -> Slot]
        BY <1>2
      <4> QED BY <1>1, <4>1, <4>2, LineKept
    <3> QED BY Zenon, <1>4, <3>1, PendingIsLine
  <2>2. Service!Submit(r)
    BY <1>1, <1>5, <2>1 DEF Service!Submit
  <2>3. QED BY <2>2 DEF Service!Next
<1>6. CASE /\ last_response = "none"
           /\ \A i \in Slots : queue'[i].req = slots[i].req
           /\ head' = Succ(head)
           /\ CallFinished(slots[head].req, "TIMEOUT")
  <2>1. head # tail
    BY <1>6 DEF DeliveryInv, LinkOK
  <2>2. /\ Pending # <<>> /\ Head(Pending) = slots[head].req
        /\ Line(Succ(head), tail, queue) = Tail(Pending)
    BY <1>1, <1>2, <2>1, LinePop, PendingIsLine
  <2>3. Succ(head) \in Slots /\ Succ(tail) # Succ(head)
    BY <1>1, <2>1, SuccType, SuccInjective
  <2>4. Line(Succ(head), Succ(tail), slots) = Append(Line(Succ(head), tail, queue), r)
    BY <1>1, <1>2, <2>3, LinePush
  <2>5. Pending' = Append(Tail(Pending), r)
    <3>1. Line(head', tail', queue') = Line(Succ(head), Succ(tail), slots)
      <4>1. head' = Succ(head) /\ tail' = Succ(tail) /\ \A i \in Slots : queue'[i].req = slots[i].req
        BY <1>1, <1>6
      <4>2. Succ(head) \in Slots /\ Succ(tail) \in Slots /\ slots \in [Slots -> Slot]
        BY <1>2, <2>3
      <4> QED BY <4>1, <4>2, LineKept
    <3> QED BY Zenon, <2>2, <2>4, <3>1, PendingIsLine
  <2>6. Service!SubmitAndComplete(r, "TIMEOUT")
    BY <1>1, <1>6, <2>2, <2>5, Told DEF Service!SubmitAndComplete
  <2>7. QED BY <2>6 DEF Service!Next, Service!Statuses
<1>7. QED
  BY <1>1, <1>2, <1>5, <1>6, UpdateSends

\* A response byte is nothing to the service or completes the oldest request.
LEMMA ReceiveImplements ==
  ASSUME TypeOK, DeliveryInv, NEW resp \in {"ACK", "NAK"}, ReceiveResponse(resp),
         UNCHANGED <<tail, queue, submitted>>
  PROVE  [Service!Next]_Service!vars
<1> DEFINE status == ReadyToSend(resp)
<1>1. CASE UNCHANGED <<head, result>>
  BY <1>1, PendingIsLine DEF Service!vars
<1>2. CASE /\ last_response = "none"
           /\ head' = Succ(head) /\ CallFinished(queue[head].req, status)
  <2>1. head # tail
    BY <1>2 DEF DeliveryInv, LinkOK
  <2>2. /\ Pending # <<>> /\ Head(Pending) = queue[head].req
        /\ Pending' = Tail(Pending)
    BY <1>2, <2>1, LinePop, PendingIsLine DEF TypeOK
  <2>3. Service!Complete(status)
    BY <1>2, <2>2, Told DEF Service!Complete
  <2>4. status \in Service!Statuses
    BY DEF ReadyToSend, Service!Statuses
  <2>5. QED BY <2>3, <2>4 DEF Service!Next
<1>3. QED
  BY <1>1, <1>2 DEF ReceiveResponse, GotResponse, told

\* An empty ring is an empty line.
LEMMA InitImplements == ASSUME Init PROVE Service!Init
<1>1. Count = 0
  BY DEF Init, Count
<1>2. Pending = <<>>
  BY <1>1 DEF Pending
<1>3. QED BY <1>2 DEF Init, Service!Init

\* For callers that leave a slot of the ring free, and as long as the last attempt
\* of the only message does not time out, the ring is a line: requests are told in
\* the order they were queued, each once, whatever else the panel does.
THEOREM Implements ==
  ASSUME MaxPending < QueueSize, ~ LastTimeouts
  PROVE  Spec => ImplementsService
<1>1. Init => Service!Init
  BY InitImplements
<1>2. TypeOK /\ DeliveryInv /\ [Next]_vars => [Service!Next]_Service!vars
  <2> SUFFICES ASSUME TypeOK, DeliveryInv, [Next]_vars PROVE [Service!Next]_Service!vars
    OBVIOUS
  <2>1. ASSUME NEW r \in Requests, QueueMessage(r) PROVE Service!Next
    BY <2>1, EnqueueImplements DEF QueueMessage
  <2>2. CASE Process
    BY <2>2, ProcessImplements
  <2>3. CASE StartFrame \/ EndFrame \/ Expire \/ UNCHANGED vars \/ \E r \in Requests : Lose(r)
    BY <2>3, PendingIsLine
       DEF StartFrame, EndFrame, Expire, Lose, vars, ring, told, Service!vars
  <2>4. ASSUME NEW r \in Requests, NEW resp \in {"ACK", "NAK"}, PanelAnswers(r, resp)
        PROVE  [Service!Next]_Service!vars
    BY <2>4, ReceiveImplements DEF PanelAnswers
  <2>5. QED BY <2>1, <2>2, <2>3, <2>4 DEF Next
<1>3. QED
  BY <1>1, <1>2, TypeCorrect, Delivery, PTL DEF Spec, ImplementsService, Service!Spec
=============================================================================
