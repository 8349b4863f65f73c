SPECIFICATION Spec
CONSTANTS
  Messages = {"m1", "m2", "m3"}
  Orders = {"o1", "o2"}
  OrderOf <- TwoForOne
  Malformed = {"m3"}
  Workers = {"w1", "w2"}
  BatchSize = 2
  MaxReceive = 2
  MaxFaults = 2
  MaxReplays = 1
CHECK_DEADLOCK FALSE
INVARIANTS
  TypeOK
  NoInvoiceLost
  MailedIsArchived
  DuplicatesNeedFaults
