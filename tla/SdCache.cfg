CONSTANTS
  w1 = w1
  w2 = w2
  SdTypes = {"http"}
  OtherPaths = {"nosuch"}
  Rows <- MCRows
  Systems = {"s1"}
  Threads <- MCThreads
  TTL = 2
  MaxClock = 3
  MaxEdits = 2
SPECIFICATION FairSpec
INVARIANTS IInv EditsVisibleAfterTTL
PROPERTIES ImplementsTtlReads EveryRequestAnswered
