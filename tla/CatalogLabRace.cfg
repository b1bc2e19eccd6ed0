CONSTANTS
  w1 = w1
  w2 = w2
  Threads <- MCThreads
  SystemIds = {"s"}
  LabNames = {"a"}
  MaxId = 2
SPECIFICATION Spec
PROPERTY DeletedLabIsUnused
