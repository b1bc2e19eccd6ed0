CONSTANTS
  w1 = w1
  w2 = w2
  Cookies = {"c"}
  Ranks = {1, 2}
  Threads <- MCThreads
  TTL = 2
  MaxClock = 3
  MaxChanges = 2
SPECIFICATION Spec
INVARIANTS IInv RightsFollowWithinTTL
PROPERTY ImplementsTtlReads
