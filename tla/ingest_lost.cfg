SPECIFICATION Spec
CONSTANTS
  Callers = {c1, c2}
  c1 = c1
  c2 = c2
  Fingerprints = {f1}
  f1 = f1
  f2 = f2
  Providers = {prov1, prov2}
  prov1 = prov1
  prov2 = prov2
  Free = Free
  Matched <- MCMatched
  DirectLists <- MCDirect
  DefaultWindow = 1
  DefaultRepeat = 1
  MaxEvents = 2
  MaxTime = 0
  MaxFaults = 1
CHECK_DEADLOCK FALSE
INVARIANTS
  FiringIsAnnounced
