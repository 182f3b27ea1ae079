SPECIFICATION DaemonFairSpec
CONSTANTS
  w1 = w1
  w2 = w2
  u1 = u1
  u2 = u2
  Requests = {w1, u1}
  Watched = {w1}
  NoReq = NoReq
  QueueSize = 3
  MaxAttempts = 2
  AttemptMod = 4
  MaxPending = 2
  LateAnswers = FALSE
  LastTimeouts = TRUE
  SendFaults = TRUE
  CallsMade <- Calls
  MaxLoad = 2
  CommandLines <- Lines
  ConfigFiles <- Files
  Ports = {"tty"}
  Signals = {"TERM"}
  Users <- Accounts
  StartFaults = TRUE
  MaxBytes = 1
  ZeroLimit = 4
  CutFrames = TRUE
  ReadFaults = TRUE
  BusStalls = TRUE
INVARIANT GivesUpAfterNak
INVARIANT CommandLineWins
INVARIANT PrivilegesDropped
INVARIANT PidFileRemoved
PROPERTY EveryCallEnds
PROPERTY SignalEnds
CHECK_DEADLOCK FALSE
