SPECIFICATION Spec
CONSTANTS
  MaxOrders = 2
  Limit = 1
  Buttons = {"pending", "shipped", "delivered"}
  Slots = {s1, s2}
  MaxReturns = 2
  MaxClicks = 3
  MaxFaults = 1
SYMMETRY Symmetry
CHECK_DEADLOCK FALSE
INVARIANTS
  TypeOK
  CancelledIsCancelled
  OneActiveReturn
  HistoryIsCurrent
  AdminTablesAreCurrent
PROPERTIES
  CancelsOnlyPending
