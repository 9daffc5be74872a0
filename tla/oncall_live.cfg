SPECIFICATION FairSpec
CONSTANTS
  Rota <- MCRota
  Days = 1
  Day = 2
  DayStart <- MCLiveDayStart
  Shifts = {}
  MaxOverrides = 0
  Alerts = {"a", "b"}
  AutoResolve = {"a"}
  Inbox <- MCLiveInbox
  Posts <- MCLivePosts
  Policies <- MCPolicies
  HomePolicy = "home"
  Team = {"u1"}
  Capable = {"u1"}
  Reachable = {"u1", "u2", "u3"}
  MaxPosts = 1
  LastArrival = 0
  MaxTime = 7
  MaxLate = 1
  MaxFaults = 1
CHECK_DEADLOCK FALSE
PROPERTIES
  EscalatesToTheEnd
