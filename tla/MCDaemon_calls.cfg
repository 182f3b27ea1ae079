SPECIFICATION DaemonSpec
CONSTANTS
  w1 = w1
  w2 = w2
  u1 = u1
  u2 = u2
  Requests = {w1, w2, u1, u2}
  Watched = {w1, w2}
  NoReq = NoReq
  QueueSize = 3
  MaxAttempts = 1
  AttemptMod = 2
  MaxPending = 2
  LateAnswers = FALSE
  LastTimeouts = FALSE
  SendFaults = FALSE
  CallsMade <- Calls
  MaxLoad = 2
  CommandLines <- PlainLine
  ConfigFiles <- PlainFile
  Ports = {"tty"}
  Signals = {}
  Users <- Accounts
  StartFaults = FALSE
  MaxBytes = 1
  ZeroLimit = 2
  CutFrames = FALSE
  ReadFaults = FALSE
  BusStalls = FALSE
INVARIANT TypeOK
INVARIANT HelperAlive
INVARIANT TruthfulExit
INVARIANT NothingForgotten
INVARIANT OnlyHeadInFlight
CHECK_DEADLOCK FALSE
