CONSTANTS
  SystemIds = {"s"}
  LabNames = {}
  Threads = {"w"}
  Probed = {"s"}
  Blackbox = {}
  Retention = 1
  Interval = 0
  MaxId = 2
  MaxClock = 0
  MaxFaults = 0
SPECIFICATION FairSpec
PROPERTY ResultsAreLogged
