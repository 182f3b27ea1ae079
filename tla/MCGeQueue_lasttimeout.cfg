SPECIFICATION Spec
CONSTANTS
  w1 = w1
  w2 = w2
  w3 = w3
  w4 = w4
  u1 = u1
  Requests = {w1, w2, w3, u1}
  Watched = {w1, w2, w3}
  NoReq = NoReq
  QueueSize = 2
  MaxAttempts = 3
  AttemptMod = 5
  MaxPending = 1
  LateAnswers = FALSE
  LastTimeouts = TRUE
  SendFaults = FALSE
SYMMETRY Symmetry
PROPERTY EmptyQueueSendsNothing
