SPECIFICATION FairSpec
CONSTANTS
  Messages = {"m1", "m2", "m3"}
  Orders = {"o1", "o2"}
  OrderOf <- TwoForOne
  Malformed = {"m3"}
  Workers = {"w1"}
  BatchSize = 2
  MaxReceive = 2
  MaxFaults = 1
  MaxReplays = 1
CHECK_DEADLOCK FALSE
PROPERTIES
  EveryMessageSettles
