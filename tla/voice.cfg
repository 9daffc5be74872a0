SPECIFICATION Spec
CONSTANTS
  Callers = {c1, c2}
  c1 = c1
  c2 = c2
  Devices = {d1, d2}
  d1 = d1
  d2 = d2
  Nobody = Nobody
  ping = ping
  pong = pong
  Requests <- MCRequests
  Deliveries <- MCDeliveries
  DeviceLists <- MCDeviceLists
  Quiet <- MCQuiet
  UserExempt = TRUE
  RingTimeout = 1
  ActiveTimeout = 1
  DefaultExpiry = 3
  BusyRetry = 1
  RetryDelay = 1
  Snooze = 1
  MaxAttempts = 2
  MaxPending = 2
  MaxPerHour = 2
  Hour = 2
  Cooldown = 1
  DueLimit = 1
  MaxTurns = 1
  MaxCalls = 3
  MaxInputs = 2
  LastRequest = 1
  LastReport = 2
  MaxTime = 3
  MaxFaults = 1
CHECK_DEADLOCK FALSE
SYMMETRY RequestSymmetry
INVARIANTS
  OneLiveCall
  OneConsequence
  PolicyKept
  OneCallPerKey
PROPERTIES
  FinalIsFinal
