SPECIFICATION PartsSpec
CONSTANTS
  Names = {1, 2, 3}
  Fields = {"type"}
  Labels = {"labels.a"}
  Values = {0, 1}
  Matches <- MCMatches
  Priorities = {0, 1}
  Width = 6
  Second = 1
  Raw <- MCRaw
  Defaults <- MCDefaults
  MaxAttempts = 8
  Rota <- MCRota
  Days = 2
  Day = 3
  DayStart <- MCDayStart
  Shifts <- MCShifts
  MaxOverrides = 3
  Keys = {k1}
  k1 = k1
  Policies <- MCPolicies
  DefaultWindow = 1
  DefaultRepeat = 2
  Times = {0, 1, 3}
  MaxHistory = 3
  Orders <- MCOrders
  Batches = {{1, 2}, {1, 3}}
  Refs = {"r"}
  MaxTries = 2
  MaxTrouble = 1
  Buttons = {1, 2}
  MaxPresses = 2
  MaxPollers = 3
  MaxChanges = 2
  MaxMisses = 1
  MaxHeard = 2
  BufferSize = 2
  BatchSize = 2
  MaxRetries = 1
  MaxRecords = 5
  MaxTroubles = 3
  Kids = {"k1", "k2"}
  Tokens <- MCTokens
  Verifiers <- MCVerifiers
  Issuer = "identity"
  Audiences = {"app"}
  Floor = 2
  Leeway = 1
  FetchTime = 1
  MaxClock = 5
  MaxTurns = 2
  Omitted = Omitted
  Clients = {c1, c2}
  Requests <- MCRequests
  Configs <- MCConfigs
  Buildable <- MCBuildable
  MaxRequests = 3
  MaxStarts = 2
  People = {u1, u2}
  Handsets = {h1, h2}
  PushTokens = {t1, t2}
  CodeTtl = 1
  MaxCodes = 2
  MaxEnrolled = 2
  MaxInstant = 1
  MaxRegistrations = 4
  MaxRuns = 2
  Iphones = {1, 2}
  Pages <- MCPages
  PageTries = 2
  Lifetime = 2
  Accepted = 3
  MaxTwenties = 4
  MaxTokens = 2
  MaxMishaps = 1
CHECK_DEADLOCK FALSE
INVARIANTS
  TakesTheRightRoutes
  RotaHolds
  RulesKept
  SentOnce
  RefusalsEnd
  ShownOnce
  ActsOnce
  NoneLostUntold
  WithdrawnKeysExpire
  
  PhonesAreTheirs
  NothingRunsAlone
PROPERTIES
  GrowsToTheCap
  NothingIsLost
