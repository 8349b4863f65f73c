SPECIFICATION Spec
CONSTANTS
  Requests = {"r1", "r2", "r3", "r4"}
  Customers = {"c1"}
  Products <- TwoProducts
  Emails = {"e1", "e2"}
  Carts <- SmallCarts
  NoCart = NoCart
  NoKey = NoKey
  NoEmail = NoEmail
  NoOrder = NoOrder
  EmptyKey = EmptyKey
  CustomerOf <- OneCustomer
  EmailOf <- TabEmail
  KeyOf <- TabKey
  InitialStock <- MCStock
  InitialMirror <- OldRow
  MaxAttempts = 1
CHECK_DEADLOCK FALSE
INVARIANTS
  DeadlocksNeedStockOrNewEmail
