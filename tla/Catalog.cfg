CONSTANTS
  w1 = w1
  w2 = w2
  Threads <- MCThreads
  SystemIds = {"s", "t"}
  LabNames = {"a", "b"}
  MaxId = 2
SPECIFICATION Spec
INVARIANTS IInv DeletedStaysDeleted LabWasUnused
PROPERTY IdsKeepTheirSystem
