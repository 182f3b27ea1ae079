SPECIFICATION Spec
CONSTANTS
  w1 = w1
  w2 = w2
  w3 = w3
  w4 = w4
  u1 = u1
  Requests = {w1, w2, w3, w4}
  Watched = {w1, w2, w3, w4}
  NoReq = NoReq
  QueueSize = 4
  MaxAttempts = 3
  AttemptMod = 5
  MaxPending = 3
  LateAnswers = TRUE
  LastTimeouts = FALSE
  SendFaults = TRUE
SYMMETRY Symmetry
INVARIANT AtMostOnce
INVARIANT DeliveryInv
INVARIANT AwaitedAnswerIsHeard
PROPERTY ImplementsService
PROPERTY StopAndWait
