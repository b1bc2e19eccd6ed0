CONSTANTS
  SystemIds = {"s", "t"}
  LabNames = {}
  Threads = {"w"}
  Probed = {"s"}
  Blackbox = {"s", "t"}
  Retention = 1
  Interval = 1
  MaxId = 2
  MaxClock = 4
  MaxFaults = 1
SPECIFICATION FairSpec
INVARIANT IInv
PROPERTIES RespectsCatalog KeepsYoungRows BoundedAge LoggedUnlessReplaced
