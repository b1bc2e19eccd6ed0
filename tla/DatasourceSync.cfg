CONSTANTS
  Names = {"a", "b"}
  OtherUids = {"u"}
  Rows <- MCRows
  Seeds <- MCSeeds
  MaxEdits = 2
  MaxHands = 1
  MaxFaults = 1
SPECIFICATION FairSpec
INVARIANT IInv
PROPERTY Lockstep
