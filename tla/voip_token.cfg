SPECIFICATION PushSpec
CONSTANTS
  Iphones = {1, 2}
  Pages <- MCPages
  PageTries = 2
  Lifetime = 2
  Accepted = 3
  MaxTwenties = 4
  MaxTokens = 2
  MaxMishaps = 1
INVARIANTS
  NewTokenStays
