SPECIFICATION Spec
CONSTANTS
  w1 = w1
  w2 = w2
  w3 = w3
  w4 = w4
  u1 = u1
  Requests = {w1, w2, w3, w4, u1}
  Watched = {w1, w2, w3, w4}
  NoReq = NoReq
  QueueSize = 4
  MaxAttempts = 3
  AttemptMod = 5
  MaxPending = 4
  LateAnswers = FALSE
  LastTimeouts = FALSE
  SendFaults = FALSE
SYMMETRY Symmetry
INVARIANT TailIsEmpty
