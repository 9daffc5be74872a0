SPECIFICATION Spec
CONSTANTS
  Rota <- MCRota
  Days = 1
  Day = 2
  DayStart <- MCDayStart
  Shifts = {}
  MaxOverrides = 0
  Alerts = {"a", "b"}
  AutoResolve = {"a"}
  Inbox <- MCInbox
  Posts <- MCPosts
  Policies <- MCPolicies
  HomePolicy = "home"
  Team = {"u1"}
  Capable = {"u1"}
  Reachable = {"u1", "u2", "u3"}
  MaxPosts = 1
  LastArrival = 1
  MaxTime = 3
  MaxLate = 2
  MaxFaults = 1
CHECK_DEADLOCK FALSE
INVARIANTS
  TypeOK
  RestartLosesNothing
  QuietOnceHandled
  OneIncidentPerAlert
PROPERTIES
  
  EveryChangeIsListed
